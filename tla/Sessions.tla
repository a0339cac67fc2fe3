------------------------------ MODULE Sessions ------------------------------
(***************************************************************************)
(* Session tokens: what they are, who accepts them, how a logout takes one *)
(* back.  A token is signed and carries its own expiry; the server keeps   *)
(* nothing but one Valkey key per logged-out token, with a time to live.   *)
(* A request is checked by the extractor first and acts later; requests    *)
(* of several devices run at once.                                         *)
(*                                                                         *)
(* Times are what is left of them, in ticks of a minute: Tick takes one    *)
(* off every token's life and off every revocation key.                    *)
(***************************************************************************)
EXTENDS Integers

CONSTANTS
    Account,
    Request,     \* requests in flight together
    MaxTokens,   \* bound: tokens issued over all
    Life,        \* SESSION_TTL_SECONDS
    Leeway,      \* how long after its expiry the decoder still takes a token
    MinStamp,    \* the least time to live of a revocation key
    Faults,      \* BOOLEAN: may Valkey drop a command, or a handler die
    NoOne, Idle

VARIABLES
    owner,       \* the account each token signs in, NoOne before its issue
    life,        \* exp - now of each token; below 0 it is over
    stamp,       \* what is left of wou_jwt_revoked:{jti}, 0 without the key
    inHand,      \* the request each slot works on
    loggedOut    \* history: the tokens whose logout has written its key

sessionVars == <<owner, life, stamp, inHand, loggedOut>>

Token == 1..MaxTokens

Dead == -Leeway - 1

\* What a request admitted by its token goes on to do; at: how far a request
\* for a link code has come.
Job == [op : {"logout", "refresh", "resume", "link"}, by : Token,
        at : {"admitted", "gated", "armed"}]

ASSUME SessionAssumption ==
    /\ MaxTokens \in Nat /\ Life \in Nat /\ Leeway \in Nat /\ MinStamp \in Nat
    /\ Faults \in BOOLEAN
    /\ NoOne \notin Account
    /\ Idle \notin Job

-----------------------------------------------------------------------------
SessionsInit ==
    /\ owner = [t \in Token |-> NoOne]
    /\ life = [t \in Token |-> Dead]
    /\ stamp = [t \in Token |-> 0]
    /\ inHand = [r \in Request |-> Idle]
    /\ loggedOut = {}

\* The library's decoder takes an expired token for a while yet.
Verifies(t) == owner[t] # NoOne /\ life[t] >= -Leeway

Revoked(t) == stamp[t] > 0

Accepted(t) == Verifies(t) /\ ~Revoked(t)

-----------------------------------------------------------------------------
\* Tokens are issued in the order of their numbers.
Issue(a) ==
    \E t \in Token :
        /\ owner[t] = NoOne
        /\ \A u \in Token : u < t => owner[u] # NoOne
        /\ owner' = [owner EXCEPT ![t] = a]
        /\ life' = [life EXCEPT ![t] = Life]

\* Whoever has proved to own a, or has been given a as a new account.
SignIn(a) ==
    /\ Issue(a)
    /\ UNCHANGED <<stamp, inHand, loggedOut>>

Begins(r, t, op) ==
    inHand' = [inHand EXCEPT ![r] = [op |-> op, by |-> t, at |-> "admitted"]]

\* The extractor before me, refresh, logout and link codes.  A failing look at
\* the revocation key lets the token pass.
Admit(r, t, op) ==
    /\ op \in {"logout", "refresh", "link"}
    /\ inHand[r] = Idle
    /\ Verifies(t)
    /\ ~Revoked(t) \/ Faults
    /\ Begins(r, t, op)
    /\ UNCHANGED <<owner, life, stamp, loggedOut>>

\* The proof of ownership before a resume: the signature, the expiry and the
\* subject are looked at, the revocation key is not.
AdmitOwner(r, t) ==
    /\ inHand[r] = Idle
    /\ Verifies(t)
    /\ Begins(r, t, "resume")
    /\ UNCHANGED <<owner, life, stamp, loggedOut>>

Doing(r, op) == inHand[r] # Idle /\ inHand[r].op = op

Ends(r) == inHand' = [inHand EXCEPT ![r] = Idle]

\* A fresh token for the account of the old one, which stays as it is.
Renew(r) ==
    /\ Doing(r, "refresh") \/ Doing(r, "resume")
    /\ Issue(owner[inHand[r].by])
    /\ Ends(r)
    /\ UNCHANGED <<stamp, loggedOut>>

AtLeast(n, low) == IF n < low THEN low ELSE n

Stamps(r, t, ttl) ==
    /\ stamp' = [stamp EXCEPT ![t] = ttl]
    /\ loggedOut' = loggedOut \cup {t}
    /\ Ends(r)
    /\ UNCHANGED <<owner, life>>

\* Mutant of Logout: the key gets the same short time to live for every token.
LogoutShortKey(r) == Doing(r, "logout") /\ Stamps(r, inHand[r].by, MinStamp)

Logout(r) ==
    /\ Doing(r, "logout")
    /\ LET t == inHand[r].by IN Stamps(r, t, AtLeast(life[t], MinStamp))

\* The account is gone or cannot be read, the key cannot be written (the answer
\* is "logged_out" all the same), or the request dies.
RequestFails(r) ==
    /\ Faults
    /\ inHand[r] # Idle
    /\ Ends(r)
    /\ UNCHANGED <<owner, life, stamp, loggedOut>>

Tick ==
    /\ \E t \in Token : life[t] > Dead
    /\ life' = [t \in Token |-> AtLeast(life[t] - 1, Dead)]
    /\ stamp' = [t \in Token |-> AtLeast(stamp[t] - 1, 0)]
    /\ UNCHANGED <<owner, inHand, loggedOut>>

-----------------------------------------------------------------------------
SessionsTypeOK ==
    /\ owner \in [Token -> Account \cup {NoOne}]
    /\ life \in [Token -> Dead..Life]
    /\ stamp \in [Token -> Nat]
    /\ inHand \in [Request -> Job \cup {Idle}]
    /\ loggedOut \subseteq Token

\* From exp on the key is gone, and the decoder still takes the token.
InGrace(t) == life[t] \in -Leeway..0

\* A token once refused stays refused, whatever requests are still in flight
\* and however often it is logged out again, up to its expiry: no later stamp
\* shortens the key, and the key never ends before the token does.  (From the
\* expiry to the end of the decoder's leeway it does not: see InGrace.)
RefusedStaysRefused ==
    [][\A t \in Token :
        owner[t] # NoOne /\ ~Accepted(t) /\ ~InGrace(t)' => ~Accepted(t)']_sessionVars

\* A logout refuses its own token and no other: the other devices of the
\* account stay logged in until their tokens end.
OtherDevicesStay ==
    [][\A t \in Token :
        Accepted(t) /\ ~Accepted(t)'
            => life'[t] = Dead \/ \E r \in Request : Doing(r, "logout") /\ inHand[r].by = t
       ]_sessionVars

\* "logout kills the token server-side": a request that begins after the logout
\* has written its key gets no further on the token.
LoggedOutStaysOut ==
    [][\A r \in Request :
        inHand[r] = Idle /\ inHand'[r] # Idle => inHand'[r].by \notin loggedOut]_sessionVars
=============================================================================
