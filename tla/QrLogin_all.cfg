\* Phones, chats and polls at once; slow approvals, failing commands.
CONSTANTS
    Account = {alice, bob}
    Web = {w1, w2}
    Bot = {b1, b2}
    Poller = {k1, k2}
    Slow = TRUE
    Faults = TRUE
    NoRow = NoRow
    Pending = Pending
    Idle = Idle
SPECIFICATION QrSpec
PROPERTIES
    GoneStaysGone
    ChallengeEnds
CHECK_DEADLOCK FALSE
