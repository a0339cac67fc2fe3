\* Two refreshes, or two requests on one trade with restarts, in flight among
\* claims, gifts, freezes and sales.
CONSTANTS
    Account = {alice, bob}
    Key = {}
    Amount = {1}
    MaxBalance = 1
    NoResult = NoResult
    Collection = {genesis}
    Token = {card}
    SupplyCap = 2
    ListingId = {l1, l2}
    Price = {1}
    NoAccount = NoAccount
    NoListing = NoListing
    Maintainer = {m1, m2}
    NoCopy = NoCopy
    TradeId = {t1}
    Handler = {h1, h2}
    Restarts = TRUE
    Anyone = Anyone
    NoTrade = NoTrade
    Idle = Idle
SYMMETRY UsersSymmetry
SPECIFICATION UsersSpec
CONSTRAINT SwapBound
INVARIANTS
    RowsWithinSupply
    ReservedFromTrades
    AcceptedMeansSwapped
    OnlyAdmittedAcceptors
PROPERTIES
    SoldMeansPaid
    QuietTradeIsFinal
CHECK_DEADLOCK FALSE
