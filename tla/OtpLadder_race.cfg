\* Two requests race with each other and with a verification; anything may fail.
CONSTANTS
    Requester = {r1, r2}
    Verifier = {v1}
    ReqMax = 1
    AbuseMax = 1
    GuessMax = 2
    Issues = 1
    Faults = TRUE
    Idle = Idle
SPECIFICATION OtpSpec
SYMMETRY OtpSymmetry
INVARIANTS
    GrantsPerWindow
CHECK_DEADLOCK FALSE
