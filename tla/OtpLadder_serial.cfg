\* Requests and verifications one at a time; nothing fails.
CONSTANTS
    Requester = {r1}
    Verifier = {v1}
    ReqMax = 1
    AbuseMax = 1
    GuessMax = 3
    Issues = 2
    Faults = FALSE
    Idle = Idle
SPECIFICATION OtpSpec
INVARIANTS
    UsedIsGone
PROPERTIES
    CountersExpire
CHECK_DEADLOCK FALSE
