\* An accept and a cancel of the same trade.
CONSTANTS
    Account = {alice, bob}
    Key = {}
    Amount = {}
    MaxBalance = 1
    NoResult = NoResult
    Collection = {genesis}
    Token = {card}
    SupplyCap = 2
    ListingId = {}
    Price = {1}
    NoAccount = NoAccount
    NoListing = NoListing
    TradeId = {t1}
    Handler = {h1, h2}
    Restarts = FALSE
    Anyone = Anyone
    NoTrade = NoTrade
    Idle = Idle
SYMMETRY TradeSymmetry
SPECIFICATION TradeSpec
CONSTRAINT SwapBound
PROPERTIES
    SettledNeverRewritten
CHECK_DEADLOCK FALSE
