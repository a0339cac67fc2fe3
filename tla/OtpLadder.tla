----------------------------- MODULE OtpLadder -----------------------------
(***************************************************************************)
(* Email codes for one address: the request ladder (throttle, penalty,     *)
(* ban) and the pending code with its guess counter.  All of it is Valkey  *)
(* keys; a handler awaits every command, so the handlers of one address    *)
(* interleave between any two commands.  A counter is INCRemented and, by  *)
(* the caller that got the answer 1, given its expiry with a second        *)
(* command.                                                                *)
(***************************************************************************)
EXTENDS Integers

CONSTANTS
    Requester,   \* code requests in flight together
    Verifier,    \* verifications in flight together
    ReqMax,      \* OTP_REQ_MAX, 3 in the code
    AbuseMax,    \* OTP_ABUSE_MAX, 6 in the code
    GuessMax,    \* OTP_GUESS_MAX, 5 in the code
    Issues,      \* bound: codes issued in a behaviour
    Faults,      \* BOOLEAN: may a handler die, or Valkey drop a command
    Idle         \* a handler slot without a request

ASSUME OtpAssumption ==
    /\ ReqMax \in Nat \ {0} /\ AbuseMax \in Nat \ {0} /\ GuessMax \in Nat \ {0, 1}
    /\ Issues \in Nat
    /\ Faults \in BOOLEAN

VARIABLES
    pending,     \* wou_otp: the code that waits for its owner, 0 for no key
    count,       \* wou_otp_abuse, wou_otp_window, wou_otp_fail
    failSince,   \* the code pending when the fail counter got its expiry
    penalty,     \* wou_otp_penalty exists
    banned,      \* wou_otp_ban exists
    req,         \* the stage a code request has reached
    ver,         \* the stage a verification has reached, and the code it read
    issued,      \* codes are numbered in the order they are issued
    granted,     \* history: requests let through since the window key went
    wrong,       \* history: wrong guesses answered against a code
    used         \* history: verifications a code has let in, up to Several

otpVars == <<pending, count, failSince, penalty, banned, req, ver, issued, granted, wrong, used>>
keyVars == <<pending, count, failSince, penalty, banned>>
historyVars == <<issued, granted, wrong, used>>

Counter == {"abuse", "window", "fail"}
Limit == [abuse |-> AbuseMax, window |-> ReqMax, fail |-> GuessMax]
NoKey == [n |-> 0, ttl |-> FALSE]
Several == 2
GuessBound == 2 * GuessMax - 2

ReqStage == {"clear?", "reoffends", "abuse", "abuse armed", "punished", "window",
             "window armed", "issue"}
VerStage == {"right", "wrong", "fail armed", "abuse", "abuse armed", "burn", "reset"}

\* A slot without a request is no verification.
ASSUME IdleAssumption == Idle \notin [stage : VerStage, code : Nat, burns : BOOLEAN]

-----------------------------------------------------------------------------
OtpInit ==
    /\ pending = 0
    /\ count = [k \in Counter |-> NoKey]
    /\ failSince = 0
    /\ penalty = FALSE
    /\ banned = FALSE
    /\ req = [r \in Requester |-> Idle]
    /\ ver = [v \in Verifier |-> Idle]
    /\ issued = 0
    /\ granted = 0
    /\ wrong = [c \in 1..Issues |-> 0]
    /\ used = [c \in 1..Issues |-> 0]

\* INCR.  Beyond its limit a counter makes no more difference: it stays there.
Incr(k) == count' = [count EXCEPT ![k].n = IF @ > Limit[k] THEN @ ELSE @ + 1]
Answer(k) == count[k].n + 1

\* EXPIRE does nothing to a key that is gone by then; its failure is ignored.
Arm(k) ==
    \/ /\ count' = IF count[k].n = 0 THEN count ELSE [count EXCEPT ![k].ttl = TRUE]
       /\ failSince' = IF k = "fail" THEN pending ELSE failSince
    \/ Faults /\ UNCHANGED <<count, failSince>>

-----------------------------------------------------------------------------
(* A request for a code: handle_request_otp and tally_otp_request. *)

ReqGoes(r, stage) == req' = [req EXCEPT ![r] = stage]

\* A banned address is refused; an EXISTS that fails is taken for "no".
ReqBegin(r) ==
    /\ req[r] = Idle
    /\ ~banned \/ Faults
    /\ ReqGoes(r, "clear?")
    /\ UNCHANGED <<keyVars, ver, historyVars>>

ReqPenalty(r) ==
    /\ req[r] = "clear?"
    /\ \/ penalty /\ ReqGoes(r, "reoffends")
       \/ (~penalty \/ Faults) /\ ReqGoes(r, "abuse")
    /\ UNCHANGED <<keyVars, ver, historyVars>>

ReqBan(r) ==
    /\ req[r] = "reoffends"
    /\ banned' = TRUE \/ (Faults /\ UNCHANGED banned)
    /\ ReqGoes(r, Idle)
    /\ UNCHANGED <<pending, count, failSince, penalty, ver, historyVars>>

ReqAbuse(r) ==
    /\ req[r] = "abuse"
    /\ Incr("abuse")
    /\ ReqGoes(r, IF Answer("abuse") = 1 THEN "abuse armed"
                  ELSE IF Answer("abuse") > AbuseMax THEN "punished" ELSE "window")
    /\ UNCHANGED <<pending, failSince, penalty, banned, ver, historyVars>>

ReqArms(r) ==
    /\ \/ req[r] = "abuse armed" /\ Arm("abuse") /\ ReqGoes(r, "window")
       \/ req[r] = "window armed" /\ Arm("window") /\ ReqGoes(r, "issue")
    /\ UNCHANGED <<pending, penalty, banned, ver, historyVars>>

ReqPunish(r) ==
    /\ req[r] = "punished"
    /\ penalty' = TRUE \/ (Faults /\ UNCHANGED penalty)
    /\ ReqGoes(r, Idle)
    /\ UNCHANGED <<pending, count, failSince, banned, ver, historyVars>>

\* Mutants of ReqWindow: the count before the increment is compared, and the
\* first request does not go on to set the expiry.
ReqWindowBefore(r) ==
    /\ req[r] = "window"
    /\ Incr("window")
    /\ granted' = IF count["window"].n > ReqMax THEN granted ELSE granted + 1
    /\ ReqGoes(r, IF count["window"].n > ReqMax THEN Idle
                  ELSE IF Answer("window") = 1 THEN "window armed" ELSE "issue")
    /\ UNCHANGED <<pending, failSince, penalty, banned, ver, issued, wrong, used>>

ReqWindowUnarmed(r) ==
    /\ req[r] = "window"
    /\ Incr("window")
    /\ granted' = IF Answer("window") > ReqMax THEN granted ELSE granted + 1
    /\ ReqGoes(r, IF Answer("window") > ReqMax THEN Idle ELSE "issue")
    /\ UNCHANGED <<pending, failSince, penalty, banned, ver, issued, wrong, used>>

ReqWindow(r) ==
    /\ req[r] = "window"
    /\ Incr("window")
    /\ granted' = IF Answer("window") > ReqMax THEN granted ELSE granted + 1
    /\ ReqGoes(r, IF Answer("window") > ReqMax THEN Idle
                  ELSE IF Answer("window") = 1 THEN "window armed" ELSE "issue")
    /\ UNCHANGED <<pending, failSince, penalty, banned, ver, issued, wrong, used>>

\* SETEX replaces the code before; the guess counter is left as it is.
ReqIssue(r) ==
    /\ req[r] = "issue"
    /\ issued < Issues
    /\ issued' = issued + 1
    /\ pending' = issued + 1
    /\ ReqGoes(r, Idle)
    /\ UNCHANGED <<count, failSince, penalty, banned, ver, granted, wrong, used>>

ReqDies(r) ==
    /\ Faults
    /\ req[r] # Idle
    /\ ReqGoes(r, Idle)
    /\ UNCHANGED <<keyVars, ver, historyVars>>

-----------------------------------------------------------------------------
(* A verification: get_and_consume_otp. *)

At(v, stage) == ver[v] # Idle /\ ver[v].stage = stage

VerGoes(v, stage) == ver' = [ver EXCEPT ![v].stage = stage]

VerEnds(v) == ver' = [ver EXCEPT ![v] = Idle]

VerRead(v, right) ==
    /\ ver[v] = Idle
    /\ pending # 0
    /\ ver' = [ver EXCEPT ![v] = [stage |-> IF right THEN "right" ELSE "wrong",
                                  code |-> pending, burns |-> FALSE]]
    /\ wrong' = IF right THEN wrong
                ELSE [wrong EXCEPT ![pending] = IF @ > GuessBound THEN @ ELSE @ + 1]
    /\ UNCHANGED <<keyVars, req, issued, granted, used>>

LetIn(c) == used' = [used EXCEPT ![c] = IF @ = Several THEN @ ELSE @ + 1]

\* Mutant of VerConsume: the code is left to expire.
VerConsumeKept(v) ==
    /\ At(v, "right")
    /\ LetIn(ver[v].code)
    /\ VerGoes(v, "reset")
    /\ UNCHANGED <<keyVars, req, issued, granted, wrong>>

\* DEL removes whatever code is pending by now.
VerConsume(v) ==
    /\ At(v, "right")
    /\ pending' = 0 \/ (Faults /\ UNCHANGED pending)
    /\ LetIn(ver[v].code)
    /\ VerGoes(v, "reset")
    /\ UNCHANGED <<count, failSince, penalty, banned, req, issued, granted, wrong>>

\* A failing INCR counts as the first failure.
VerFail(v) ==
    /\ At(v, "wrong")
    /\ \/ /\ Incr("fail")
          /\ ver' = [ver EXCEPT
                ![v].stage = IF Answer("fail") = 1 THEN "fail armed" ELSE "abuse",
                ![v].burns = Answer("fail") >= GuessMax]
       \/ Faults /\ VerGoes(v, "abuse") /\ UNCHANGED count
    /\ UNCHANGED <<pending, failSince, penalty, banned, req, historyVars>>

Burns(v) == IF ver[v].burns THEN VerGoes(v, "burn") ELSE VerEnds(v)

VerAbuse(v) ==
    /\ At(v, "abuse")
    /\ \/ /\ Incr("abuse")
          /\ IF Answer("abuse") = 1 THEN VerGoes(v, "abuse armed") ELSE Burns(v)
       \/ Faults /\ Burns(v) /\ UNCHANGED count
    /\ UNCHANGED <<pending, failSince, penalty, banned, req, historyVars>>

VerArms(v) ==
    /\ \/ At(v, "fail armed") /\ Arm("fail") /\ VerGoes(v, "abuse")
       \/ At(v, "abuse armed") /\ Arm("abuse") /\ Burns(v)
    /\ UNCHANGED <<pending, penalty, banned, req, historyVars>>

\* DEL removes whatever code is pending by now.
VerBurn(v) ==
    /\ At(v, "burn")
    /\ pending' = 0 \/ (Faults /\ UNCHANGED pending)
    /\ VerGoes(v, "reset")
    /\ UNCHANGED <<count, failSince, penalty, banned, req, historyVars>>

VerReset(v) ==
    /\ At(v, "reset")
    /\ \/ count' = [count EXCEPT !["fail"] = NoKey]
       \/ Faults /\ UNCHANGED count
    /\ VerEnds(v)
    /\ UNCHANGED <<pending, failSince, penalty, banned, req, historyVars>>

VerDies(v) ==
    /\ Faults
    /\ ver[v] # Idle
    /\ VerEnds(v)
    /\ UNCHANGED <<keyVars, req, historyVars>>

-----------------------------------------------------------------------------
(* Valkey drops what has had its time. *)

\* A code and a fail counter both live 600 s: a fail counter never goes
\* before a code that was already pending when it got its expiry.
CounterExpires(k) ==
    /\ count[k].ttl
    /\ k = "fail" => pending = 0 \/ pending # failSince
    /\ count' = [count EXCEPT ![k] = NoKey]
    /\ granted' = IF k = "window" THEN 0 ELSE granted
    /\ UNCHANGED <<pending, failSince, penalty, banned, req, ver, issued, wrong, used>>

OtpExpires ==
    /\ pending # 0
    /\ pending' = 0
    /\ UNCHANGED <<count, failSince, penalty, banned, req, ver, historyVars>>

PenaltyExpires ==
    /\ penalty
    /\ penalty' = FALSE
    /\ UNCHANGED <<pending, count, failSince, banned, req, ver, historyVars>>

BanExpires ==
    /\ banned
    /\ banned' = FALSE
    /\ UNCHANGED <<pending, count, failSince, penalty, req, ver, historyVars>>

-----------------------------------------------------------------------------
ReqWorks(r) ==
    \/ ReqPenalty(r) \/ ReqBan(r) \/ ReqAbuse(r) \/ ReqArms(r)
    \/ ReqPunish(r) \/ ReqWindow(r) \/ ReqIssue(r)

VerWorks(v) ==
    \/ VerConsume(v) \/ VerFail(v) \/ VerAbuse(v) \/ VerArms(v)
    \/ VerBurn(v) \/ VerReset(v)

RequestStep(r) == ReqBegin(r) \/ ReqWorks(r) \/ ReqDies(r)

VerifyStep(v) == (\E right \in BOOLEAN : VerRead(v, right)) \/ VerWorks(v) \/ VerDies(v)

ExpiryStep ==
    \/ \E k \in Counter : CounterExpires(k)
    \/ OtpExpires \/ PenaltyExpires \/ BanExpires

OtpNext ==
    \/ \E r \in Requester : RequestStep(r)
    \/ \E v \in Verifier : VerifyStep(v)
    \/ ExpiryStep

\* A handler once begun goes on, and a key with a time to live goes away.
OtpFairness ==
    /\ \A r \in Requester : WF_otpVars(ReqWorks(r))
    /\ \A v \in Verifier : WF_otpVars(VerWorks(v))
    /\ \A k \in Counter : WF_otpVars(CounterExpires(k))
    /\ WF_otpVars(OtpExpires) /\ WF_otpVars(PenaltyExpires) /\ WF_otpVars(BanExpires)

OtpSpec == OtpInit /\ [][OtpNext]_otpVars /\ OtpFairness

-----------------------------------------------------------------------------
CountersOK ==
    /\ count \in [Counter -> [n : Nat, ttl : BOOLEAN]]
    /\ \A k \in Counter : count[k].n <= Limit[k] + 1 /\ (count[k].ttl => count[k].n > 0)

OtpTypeOK ==
    /\ issued \in 0..Issues
    /\ pending \in 0..issued /\ failSince \in 0..issued
    /\ CountersOK
    /\ penalty \in BOOLEAN /\ banned \in BOOLEAN
    /\ req \in [Requester -> ReqStage \cup {Idle}]
    /\ ver \in [Verifier -> [stage : VerStage, code : 1..issued, burns : BOOLEAN] \cup {Idle}]
    /\ granted \in Nat
    /\ wrong \in [1..Issues -> 0..GuessBound + 1]
    /\ used \in [1..Issues -> 0..Several]

\* However many requests for one address race, and whatever fails, no more
\* than ReqMax of them are let through while a window counter lives.
GrantsPerWindow == granted <= ReqMax

\* A code that has let somebody in is gone ("Codes are single-use"): it lets in
\* nobody but those whose verification had read it by then.
UsedIsGone == \A c \in 1..issued : used[c] > 0 => pending # c

\* What the repository says of the guesses: "5 wrong guesses burn the code",
\* "5 failures burn the code" (docs/SECURITY.md).  A code that has borne as
\* many, with no verification left at work, is gone.  It is not so: the
\* counter belongs to the address, and one that an earlier code began may
\* expire halfway through the guesses at this one.
GuessesBurn ==
    \A c \in 1..issued :
        wrong[c] >= GuessMax /\ (\A v \in Verifier : ver[v] = Idle) => pending # c

\* What is true instead, verified one at a time: what is left of a counter that
\* an earlier code began, and one counter more.
GuessesBounded == \A c \in 1..issued : wrong[c] <= GuessBound

\* No counter counts for ever: what an address did is forgotten in the end
\* ("all counters are best-effort Valkey TTLs").
CountersExpire == \A k \in Counter : count[k].n > 0 ~> count[k].n = 0
=============================================================================
