\* Two taps of linked chats and one polling desktop, nothing fails.
CONSTANTS
    Account = {alice, bob}
    Web = {}
    Bot = {b1, b2}
    Poller = {k1}
    Slow = FALSE
    Faults = FALSE
    NoRow = NoRow
    Pending = Pending
    Idle = Idle
SPECIFICATION QrSpec
INVARIANTS
    SingleDelivery
    LockHeldByOneTap
PROPERTIES
    ApprovalNeverRewritten
CHECK_DEADLOCK FALSE
