------------------------------- MODULE Access -------------------------------
(***************************************************************************)
(* Sessions and one-time codes together: a fitting answer to a nonce or to *)
(* an OAuth state signs in, and a session lets its account mint the code   *)
(* that links a chat.                                                      *)
(***************************************************************************)
EXTENDS OneTimeCodes

CONSTANT MaxRequests     \* bound: requests of all kinds, over all

VARIABLE begun           \* requests begun so far

accessVars == <<sessionVars, codeVars, begun>>

ASSUME AccessAssumption == MaxRequests \in Nat

AccessInit == SessionsInit /\ CodesInit /\ begun = 0

\* A client's request begins.
Begin == begun < MaxRequests /\ begun' = begun + 1

-----------------------------------------------------------------------------
\* A fresh anonymous account, or a sign-in by mail, by QR code or by game.
OtherSignIn(a) == Begin /\ SignIn(a) /\ UNCHANGED codeVars

\* The verify and callback handlers end in a session for the account found.
VerifiedSignIn(q) == TakeAnswered(q) /\ \E a \in Account : SignIn(a)

LinkAt(r, stage) == Doing(r, "link") /\ inHand[r].at = stage

LinkGoes(r, stage) == inHand' = [inHand EXCEPT ![r].at = stage]

Asker(r) == owner[inHand[r].by]

\* "One code per minute per account": a key still there ends the request.
LinkGate(r) ==
    /\ LinkAt(r, "admitted")
    /\ \/ RateSet(Asker(r)) /\ LinkGoes(r, "gated")
       \/ ~RateFree(Asker(r)) /\ Ends(r) /\ UNCHANGED rateVars
    /\ UNCHANGED <<owner, life, stamp, loggedOut, takeVars, linkVars>>

\* Mutant of LinkArm: the gate's key is never given its time to live.
LinkArmless(r) ==
    /\ LinkAt(r, "gated")
    /\ LinkGoes(r, "armed")
    /\ UNCHANGED <<owner, life, stamp, loggedOut, takeVars, linkVars, rateVars>>

LinkArm(r) ==
    /\ LinkAt(r, "gated")
    /\ RateArm(Asker(r))
    /\ LinkGoes(r, "armed")
    /\ UNCHANGED <<owner, life, stamp, loggedOut, takeVars, linkVars>>

LinkMint(r) ==
    /\ LinkAt(r, "armed")
    /\ \E c \in Code : Mint(c)
    /\ Ends(r)
    /\ UNCHANGED <<owner, life, stamp, loggedOut, takeVars, rateVars>>

\* A request for a link code that dies between SETNX and EXPIRE leaves the key.
RequestDies(r) ==
    /\ RequestFails(r)
    /\ stuck' = IF LinkAt(r, "gated") THEN stuck \cup {Asker(r)} ELSE stuck
    /\ UNCHANGED <<takeVars, linkVars, rate>>

RequestBegins(r) ==
    \E t \in Token : AdmitOwner(r, t) \/ \E op \in {"logout", "refresh", "link"} : Admit(r, t, op)

RequestStep(r) ==
    \/ Begin /\ RequestBegins(r) /\ UNCHANGED codeVars
    \/ UNCHANGED begun /\ (Renew(r) \/ Logout(r)) /\ UNCHANGED codeVars
    \/ UNCHANGED begun /\ (LinkGate(r) \/ LinkArm(r) \/ LinkMint(r) \/ RequestDies(r))

TakeStep(q) ==
    \/ Begin /\ (\E k \in Key, fits \in BOOLEAN : TakeRead(q, k, fits)) /\ UNCHANGED sessionVars
    \/ UNCHANGED begun /\ (TakeDrop(q) \/ TakeRefused(q)) /\ UNCHANGED sessionVars
    \/ UNCHANGED begun /\ VerifiedSignIn(q)

TryStep(h) ==
    \/ Begin /\ (\E c \in Code : TryRead(h, c)) /\ UNCHANGED sessionVars
    \/ UNCHANGED begun /\ (Consume(h) \/ CountMiss(h) \/ LinkSaved(h) \/ TryDies(h))
       /\ UNCHANGED sessionVars

KeyIssued(k) == Begin /\ (Challenge(k) \/ OAuthLogin(k)) /\ UNCHANGED sessionVars

\* The time to live of a key is over.
KeyEnds ==
    /\ \/ \E k \in Key : KeyExpires(k)
       \/ \E c \in Code : CodeExpires(c) \/ TriesExpire(c)
       \/ \E a \in Account : RateExpires(a)
    /\ UNCHANGED <<sessionVars, begun>>

AccessNext ==
    \/ Tick /\ UNCHANGED <<codeVars, begun>>
    \/ KeyEnds
    \/ \E a \in Account : OtherSignIn(a)
    \/ \E k \in Key : KeyIssued(k)
    \/ \E r \in Request : RequestStep(r)
    \/ \E q \in Taker : TakeStep(q)
    \/ \E h \in Chat : TryStep(h)

\* A handler once begun goes on, and a key with a time to live goes away.
AccessFairness ==
    /\ \A r \in Request : WF_accessVars(LinkArm(r) /\ UNCHANGED begun)
    /\ \A a \in Account : WF_accessVars(RateExpires(a) /\ UNCHANGED <<sessionVars, begun>>)

AccessSpec == AccessInit /\ [][AccessNext]_accessVars /\ AccessFairness

-----------------------------------------------------------------------------
AccessTypeOK == SessionsTypeOK /\ CodesTypeOK /\ begun \in 0..MaxRequests

\* The minute an account waits for its next link code passes, unless a request
\* died between SETNX and EXPIRE, or the EXPIRE failed: then it never does.
NextCodeComes ==
    \A a \in Account : rate[a] # "free" ~> (rate[a] = "free" \/ a \in stuck)
=============================================================================
