\* A seller and two buyers, two serials, two listings, one key; balances that
\* saturate at once.
CONSTANTS
    Account = {alice, bob, carol}
    Key = {k1}
    Amount = {1}
    MaxBalance = 1
    NoResult = NoResult
    Collection = {genesis}
    Token = {card}
    SupplyCap = 2
    ListingId = {l1, l2}
    Price = {1}
    NoAccount = NoAccount
    NoListing = NoListing
SYMMETRY MarketSymmetry
SPECIFICATION MarketSpec
INVARIANTS
    BridgeAppliesOnce
    InstancesWithinSupply
    OpenListingReserves
    NoOrphanedReservation
    EventLogExplainsState
PROPERTIES
    OwnershipMovesByConsentOrSale
    ListingClosesOnce
    BalanceFallsByDebitOrSale
    ImplementsEscrow
CHECK_DEADLOCK FALSE
