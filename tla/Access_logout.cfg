\* A token that is logged out, and presented again.
CONSTANTS
    Account = {alice}
    Request = {r1, r2}
    MaxTokens = 2
    Life = 2
    Leeway = 1
    MinStamp = 1
    Faults = FALSE
    NoOne = NoOne
    Idle = Idle
    Wallet = {w1}
    State = {s1}
    Taker = {q1, q2}
    MaxIssue = 2
    Code = {c1}
    Chat = {h1, h2}
    MaxTries = 2
    MaxRequests = 5
SPECIFICATION AccessSpec
PROPERTIES
    LoggedOutStaysOut
CHECK_DEADLOCK FALSE
