\* Two requests at a time race over two emails and one chat identity.
CONSTANTS
    Account = {a, b, c}
    Email = {e, f}
    External = {x}
    Chat = {x}
    MaxAsked = 4
    Request = {r1, r2}
    NoAccount = NoAccount
    NoKey = NoKey
    NoRow = NoRow
    Idle = Idle
SPECIFICATION AccountsSpec
SYMMETRY AccountsSymmetry
INVARIANTS
    ProofLeadsToOneAccount
    RowsAreIndexed
    CachedCopiesAreOwn
PROPERTIES
    ImplementsRegistry
CHECK_DEADLOCK FALSE
