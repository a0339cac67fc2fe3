\* Tokens of one account, a wallet and a link code, with requests racing,
\* commands failing and requests dying.
CONSTANTS
    Account = {alice}
    Request = {r1, r2}
    MaxTokens = 2
    Life = 2
    Leeway = 1
    MinStamp = 1
    Faults = TRUE
    NoOne = NoOne
    Idle = Idle
    Wallet = {w1}
    State = {s1}
    Taker = {q1, q2}
    MaxIssue = 2
    Code = {c1}
    Chat = {h1, h2}
    MaxTries = 2
    MaxRequests = 5
SPECIFICATION AccessSpec
INVARIANTS
    OneSignInEach
    CodesLinkOnce
    MissesBraked
PROPERTIES
    NextCodeComes
    RefusedStaysRefused
CHECK_DEADLOCK FALSE
