---------------------------- MODULE OneTimeCodes ----------------------------
(***************************************************************************)
(* Things that are good for one use, kept in Valkey with a time to live:   *)
(* the nonce a wallet signs, the state of an OAuth sign-in, the code that  *)
(* links a chat to an account.  The nonce and the state are taken by two   *)
(* commands, a GET and a DEL; the link code by a script, in one step, with *)
(* a counter of misses kept beside it; and the gate before a new link code *)
(* is again two commands, SETNX and EXPIRE.  (Requests and their failures  *)
(* are the constants of Sessions.)                                         *)
(***************************************************************************)
EXTENDS Sessions

CONSTANTS
    Wallet,      \* the nonce keys, one per chain and address
    State,       \* the OAuth state strings, which the client chooses
    Taker,       \* verify and callback requests in flight together
    MaxIssue,    \* bound: nonces and states issued over all
    Code,        \* link codes; each is drawn once, at random
    Chat,        \* linking chats whose messages are handled together
    MaxTries     \* misses after which a code is not looked at

VARIABLES
    held,        \* what each key holds: the number of its issue, 0 for nothing
    issued,      \* nonces and states issued so far
    taking,      \* what each taker has read
    answered,    \* history: sign-ins by each issue, counted up to Several
    shared,      \* history: issues read again before a DEL, or whose DEL failed
    code,        \* wou_link:{code}: "new" before its mint, "live", "gone"
    given,       \* history: the chats a code has been good for
    tries,       \* wou_link_try:{code}
    trying,      \* what the handler of each chat's message has reached
    misses,      \* history: misses of a code since its counter was last empty
    crossed,     \* history: codes with tries that overlapped or went uncounted
    rate,        \* wou_link_rate:{account}: "free", "set", or "armed" to expire
    stuck        \* history: the accounts whose key never got its expiry

takeVars == <<held, issued, taking, answered, shared>>
linkVars == <<code, given, tries, trying, misses, crossed>>
rateVars == <<rate, stuck>>
codeVars == <<takeVars, linkVars, rateVars>>

Key == Wallet \cup State

Several == 2

\* fits: does the caller's answer match what it has read (the signed message
\* contains the nonce; provider, redirect and verifier belong to the state).
Taken == [key : Key, got : 1..MaxIssue, fits : BOOLEAN, at : {"read", "taken"}]

Try == [code : Code, seen : 0..MaxTries, at : {"counted", "missed", "holds"}]

ASSUME CodesAssumption ==
    /\ Wallet \cap State = {}
    /\ MaxIssue \in Nat /\ MaxTries \in Nat \ {0}
    /\ Idle \notin Taken /\ Idle \notin Try

-----------------------------------------------------------------------------
CodesInit ==
    /\ held = [k \in Key |-> 0]
    /\ issued = 0
    /\ taking = [q \in Taker |-> Idle]
    /\ answered = [n \in 1..MaxIssue |-> 0]
    /\ shared = {}
    /\ code = [c \in Code |-> "new"]
    /\ given = [c \in Code |-> {}]
    /\ tries = [c \in Code |-> 0]
    /\ trying = [h \in Chat |-> Idle]
    /\ misses = [c \in Code |-> 0]
    /\ crossed = {}
    /\ rate = [a \in Account |-> "free"]
    /\ stuck = {}

-----------------------------------------------------------------------------
(* Nonces and OAuth states. *)

\* A nonce is drawn and SETEX puts it in the place of the last one; the answer
\* hands it out whether or not it could be saved.
Challenge(k) ==
    /\ k \in Wallet
    /\ issued < MaxIssue
    /\ issued' = issued + 1
    /\ held' = [held EXCEPT ![k] = issued'] \/ (Faults /\ UNCHANGED held)
    /\ UNCHANGED <<taking, answered, shared, linkVars, rateVars>>

\* The same for a state; a save that fails refuses the sign-in.
OAuthLogin(k) ==
    /\ k \in State
    /\ issued < MaxIssue
    /\ issued' = issued + 1
    /\ held' = [held EXCEPT ![k] = issued']
    /\ UNCHANGED <<taking, answered, shared, linkVars, rateVars>>

KeyExpires(k) ==
    /\ held[k] # 0
    /\ held' = [held EXCEPT ![k] = 0]
    /\ UNCHANGED <<issued, taking, answered, shared, linkVars, rateVars>>

InTake(n) == \E q \in Taker : taking[q] # Idle /\ taking[q].got = n

\* The GET of take_cache_string; without a value the request is refused.
TakeRead(q, k, fits) ==
    /\ taking[q] = Idle
    /\ held[k] # 0
    /\ taking' = [taking EXCEPT ![q] =
                    [key |-> k, got |-> held[k], fits |-> fits, at |-> "read"]]
    /\ shared' = IF InTake(held[k]) THEN shared \cup {held[k]} ELSE shared
    /\ UNCHANGED <<held, issued, answered, linkVars, rateVars>>

TakeAt(q, stage) == taking[q] # Idle /\ taking[q].at = stage

\* Mutant of TakeDrop: the value is only read.
TakeKept(q) ==
    /\ TakeAt(q, "read")
    /\ taking' = [taking EXCEPT ![q].at = "taken"]
    /\ UNCHANGED <<held, issued, answered, shared, linkVars, rateVars>>

\* The DEL removes whatever the key holds by now; its failure is ignored.
TakeDrop(q) ==
    /\ TakeAt(q, "read")
    /\ \/ held' = [held EXCEPT ![taking[q].key] = 0] /\ UNCHANGED shared
       \/ Faults /\ shared' = shared \cup {taking[q].got} /\ UNCHANGED held
    /\ taking' = [taking EXCEPT ![q].at = "taken"]
    /\ UNCHANGED <<issued, answered, linkVars, rateVars>>

TakeEnds(q) == taking' = [taking EXCEPT ![q] = Idle]

\* The answer fits and proves its account: the caller is signed in.
TakeAnswered(q) ==
    /\ TakeAt(q, "taken")
    /\ taking[q].fits
    /\ answered' = [answered EXCEPT ![taking[q].got] = IF @ = Several THEN Several ELSE @ + 1]
    /\ TakeEnds(q)
    /\ UNCHANGED <<held, issued, shared, linkVars, rateVars>>

\* It does not fit, or the signature, the exchange or the account fails; or the
\* request has died before its DEL.
TakeRefused(q) ==
    /\ TakeAt(q, "taken") \/ (Faults /\ taking[q] # Idle)
    /\ TakeEnds(q)
    /\ UNCHANGED <<held, issued, answered, shared, linkVars, rateVars>>

-----------------------------------------------------------------------------
(* Link codes. *)

Mint(c) ==
    /\ code[c] = "new"
    /\ code' = [code EXCEPT ![c] = "live"]
    /\ UNCHANGED <<given, tries, trying, misses, crossed>>

CodeExpires(c) ==
    /\ code[c] = "live"
    /\ code' = [code EXCEPT ![c] = "gone"]
    /\ UNCHANGED <<takeVars, given, tries, trying, misses, crossed, rateVars>>

Trying(h, c) == trying[h] # Idle /\ trying[h].code = c

\* Any chat may send any code, minted or not; one tried too often is refused.
TryRead(h, c) ==
    /\ trying[h] = Idle
    /\ tries[c] < MaxTries
    /\ trying' = [trying EXCEPT ![h] = [code |-> c, seen |-> tries[c], at |-> "counted"]]
    /\ crossed' = IF \E g \in Chat : Trying(g, c) THEN crossed \cup {c} ELSE crossed
    /\ UNCHANGED <<takeVars, code, given, tries, misses, rateVars>>

TryAt(h, stage) == trying[h] # Idle /\ trying[h].at = stage

TryGoes(h, stage) == trying' = [trying EXCEPT ![h].at = stage]

TryEnds(h) == trying' = [trying EXCEPT ![h] = Idle]

\* Mutant of Consume: GET here, and DEL when the link has been saved.
ConsumeReads(h) ==
    LET c == trying[h].code IN
    /\ TryAt(h, "counted")
    /\ \/ /\ code[c] = "live"
          /\ given' = [given EXCEPT ![c] = @ \cup {h}]
          /\ TryGoes(h, "holds")
       \/ /\ code[c] # "live"
          /\ TryGoes(h, "missed")
          /\ UNCHANGED given
    /\ UNCHANGED <<takeVars, code, tries, misses, crossed, rateVars>>

\* The script's GET and DEL in one step.
Consume(h) ==
    LET c == trying[h].code IN
    /\ TryAt(h, "counted")
    /\ \/ /\ code[c] = "live"
          /\ code' = [code EXCEPT ![c] = "gone"]
          /\ given' = [given EXCEPT ![c] = @ \cup {h}]
          /\ TryGoes(h, "holds")
       \/ /\ code[c] # "live"
          /\ TryGoes(h, "missed")
          /\ UNCHANGED <<code, given>>
    /\ UNCHANGED <<takeVars, tries, misses, crossed, rateVars>>

\* Mutant of CountMiss: every miss is counted as the first.
CountMissAsFirst(h) ==
    LET c == trying[h].code IN
    /\ TryAt(h, "missed")
    /\ misses' = [misses EXCEPT ![c] = IF @ > MaxTries THEN @ ELSE @ + 1]
    /\ tries' = [tries EXCEPT ![c] = 1]
    /\ TryEnds(h)
    /\ UNCHANGED <<takeVars, code, given, crossed, rateVars>>

\* The count goes back one up from what was read; a failing save is ignored.
CountMiss(h) ==
    LET c == trying[h].code IN
    /\ TryAt(h, "missed")
    /\ misses' = [misses EXCEPT ![c] = IF @ > MaxTries THEN @ ELSE @ + 1]
    /\ \/ tries' = [tries EXCEPT ![c] = trying[h].seen + 1] /\ UNCHANGED crossed
       \/ Faults /\ crossed' = crossed \cup {c} /\ UNCHANGED tries
    /\ TryEnds(h)
    /\ UNCHANGED <<takeVars, code, given, rateVars>>

\* The chat is linked (see Accounts), or the link cannot be saved: the code is
\* gone either way.
LinkSaved(h) ==
    /\ TryAt(h, "holds")
    /\ TryEnds(h)
    /\ UNCHANGED <<takeVars, code, given, tries, misses, crossed, rateVars>>

TryDies(h) ==
    /\ Faults
    /\ TryAt(h, "counted")
    /\ TryEnds(h)
    /\ UNCHANGED <<takeVars, code, given, tries, misses, crossed, rateVars>>

\* The counter's 600 s are over, counted from the last miss.
TriesExpire(c) ==
    /\ tries[c] # 0
    /\ tries' = [tries EXCEPT ![c] = 0]
    /\ misses' = [misses EXCEPT ![c] = 0]
    /\ UNCHANGED <<takeVars, code, given, trying, crossed, rateVars>>

-----------------------------------------------------------------------------
(* One link code a minute for an account: check_rate. *)

RateFree(a) == rate[a] = "free"

RateSet(a) ==
    /\ RateFree(a)
    /\ rate' = [rate EXCEPT ![a] = "set"]
    /\ UNCHANGED stuck

\* EXPIRE; its failure is ignored, and leaves the key for good.
RateArm(a) ==
    \/ rate' = [rate EXCEPT ![a] = "armed"] /\ UNCHANGED stuck
    \/ Faults /\ stuck' = stuck \cup {a} /\ UNCHANGED rate

RateExpires(a) ==
    /\ rate[a] = "armed"
    /\ rate' = [rate EXCEPT ![a] = "free"]
    /\ UNCHANGED <<takeVars, linkVars, stuck>>

-----------------------------------------------------------------------------
CodesTypeOK ==
    /\ held \in [Key -> 0..MaxIssue]
    /\ issued \in 0..MaxIssue
    /\ taking \in [Taker -> Taken \cup {Idle}]
    /\ answered \in [1..MaxIssue -> 0..Several]
    /\ shared \subseteq 1..MaxIssue
    /\ code \in [Code -> {"new", "live", "gone"}]
    /\ given \in [Code -> SUBSET Chat]
    /\ tries \in [Code -> 0..MaxTries]
    /\ trying \in [Chat -> Try \cup {Idle}]
    /\ misses \in [Code -> 0..MaxTries + 1]
    /\ crossed \subseteq Code
    /\ rate \in [Account -> {"free", "set", "armed"}]
    /\ stuck \subseteq Account

\* "Single-use": a nonce or an OAuth state signs in once, unless two requests
\* read it before either had deleted it, or the DEL failed.
OneSignInEach == \A n \in 1..MaxIssue : n \notin shared => answered[n] <= 1

\* "One-time codes can never double-spend, even concurrently".
CodesLinkOnce ==
    \A c \in Code : \A g, h \in Chat : g \in given[c] /\ h \in given[c] => g = h

\* Tries that do not overlap are braked: a code missed MaxTries times is not
\* looked at again while its counter lives.
MissesBraked == \A c \in Code \ crossed : misses[c] <= MaxTries
=============================================================================
