\* Two codes, one request and one verification at a time; nothing fails.
CONSTANTS
    Requester = {r1}
    Verifier = {v1}
    ReqMax = 2
    AbuseMax = 3
    GuessMax = 3
    Issues = 2
    Faults = FALSE
    Idle = Idle
SPECIFICATION OtpSpec
INVARIANTS
    GuessesBurn
CHECK_DEADLOCK FALSE
