---------------------------- MODULE AccessProofs ----------------------------
(***************************************************************************)
(* What holds of tokens and one-time codes for any number of accounts,     *)
(* devices, chats and codes, and any lengths of life.  Every step changes  *)
(* one of four parts of the state alone (the tokens, the takes, the link   *)
(* codes, the gate), or two that do not look at each other: the invariant  *)
(* is proved part by part.                                                 *)
(***************************************************************************)
EXTENDS Access, TLAPS

-----------------------------------------------------------------------------
(* What a step does to each part *)

\* A request for a link code moves on or ends; the tokens stay.
LinkMoves(r) ==
    /\ inHand[r] # Idle
    /\ Ends(r) \/ LinkGoes(r, "gated") \/ LinkGoes(r, "armed")
    /\ UNCHANGED <<owner, life, stamp, loggedOut>>

LEMMA SessionPart ==
    ASSUME AccessNext
    PROVE  \/ UNCHANGED sessionVars
           \/ Tick
           \/ \E a \in Account : SignIn(a)
           \/ \E r \in Request :
                \/ \E t \in Token : AdmitOwner(r, t)
                \/ \E t \in Token, op \in {"logout", "refresh", "link"} : Admit(r, t, op)
                \/ Renew(r)
                \/ Logout(r)
                \/ RequestFails(r)
                \/ LinkMoves(r)
  <1>1. ASSUME NEW r \in Request, LinkGate(r) \/ LinkArm(r) \/ LinkMint(r)
        PROVE  LinkMoves(r)
    BY <1>1 DEF LinkMoves, LinkGate, LinkArm, LinkMint, LinkAt, Doing
  <1>2. ASSUME NEW r \in Request, RequestStep(r)
        PROVE  \/ \E t \in Token : AdmitOwner(r, t)
               \/ \E t \in Token, op \in {"logout", "refresh", "link"} : Admit(r, t, op)
               \/ Renew(r) \/ Logout(r) \/ RequestFails(r) \/ LinkMoves(r)
    BY <1>1, <1>2, Zenon DEF RequestStep, RequestBegins, RequestDies
  <1>3. ASSUME NEW q \in Taker, TakeStep(q)
        PROVE  UNCHANGED sessionVars \/ \E a \in Account : SignIn(a)
    BY <1>3, Zenon DEF TakeStep, VerifiedSignIn
  <1>4. ASSUME NEW h \in Chat, TryStep(h)
        PROVE  UNCHANGED sessionVars
    BY <1>4, Zenon DEF TryStep
  <1>5. ASSUME NEW k \in Key, KeyIssued(k)
        PROVE  UNCHANGED sessionVars
    BY <1>5, Zenon DEF KeyIssued
  <1>6. ASSUME NEW a \in Account, OtherSignIn(a)
        PROVE  SignIn(a)
    BY <1>6, Zenon DEF OtherSignIn
  <1>7. CASE KeyEnds
    BY <1>7 DEF KeyEnds, sessionVars
  <1>8. QED
    BY <1>2, <1>3, <1>4, <1>5, <1>6, <1>7, Zenon DEF AccessNext

LEMMA TakePart ==
    ASSUME AccessNext
    PROVE  \/ UNCHANGED takeVars
           \/ \E k \in Key : Challenge(k) \/ OAuthLogin(k) \/ KeyExpires(k)
           \/ \E q \in Taker :
                \/ \E k \in Key, fits \in BOOLEAN : TakeRead(q, k, fits)
                \/ TakeDrop(q)
                \/ TakeAnswered(q)
                \/ TakeRefused(q)
  <1>1. ASSUME NEW r \in Request, RequestStep(r)
        PROVE  UNCHANGED takeVars
    BY <1>1
    DEF RequestStep, LinkGate, LinkArm, LinkMint, RequestDies, codeVars, takeVars
  <1>2. ASSUME NEW h \in Chat, TryStep(h)
        PROVE  UNCHANGED takeVars
    BY <1>2 DEF TryStep, TryRead, Consume, CountMiss, LinkSaved, TryDies, takeVars
  <1>3. ASSUME NEW a \in Account, OtherSignIn(a)
        PROVE  UNCHANGED takeVars
    BY <1>3 DEF OtherSignIn, codeVars, takeVars
  <1>4. CASE KeyEnds
    BY <1>4 DEF KeyEnds, CodeExpires, TriesExpire, RateExpires, takeVars
  <1>5. CASE Tick /\ UNCHANGED <<codeVars, begun>>
    BY <1>5 DEF codeVars, takeVars
  <1>6. ASSUME NEW q \in Taker, TakeStep(q)
        PROVE  \/ \E k \in Key, fits \in BOOLEAN : TakeRead(q, k, fits)
               \/ TakeDrop(q) \/ TakeAnswered(q) \/ TakeRefused(q)
    BY <1>6, Zenon DEF TakeStep, VerifiedSignIn
  <1>7. ASSUME NEW k \in Key, KeyIssued(k)
        PROVE  Challenge(k) \/ OAuthLogin(k)
    BY <1>7, Zenon DEF KeyIssued
  <1>8. QED
    BY <1>1, <1>2, <1>3, <1>4, <1>5, <1>6, <1>7, Zenon DEF AccessNext

LEMMA LinkPart ==
    ASSUME AccessNext
    PROVE  \/ UNCHANGED linkVars
           \/ \E c \in Code : Mint(c) \/ CodeExpires(c) \/ TriesExpire(c)
           \/ \E h \in Chat :
                \/ \E c \in Code : TryRead(h, c)
                \/ Consume(h)
                \/ CountMiss(h)
                \/ LinkSaved(h)
                \/ TryDies(h)
  <1>1. ASSUME NEW r \in Request, RequestStep(r)
        PROVE  UNCHANGED linkVars \/ \E c \in Code : Mint(c)
    BY <1>1
    DEF RequestStep, LinkGate, LinkArm, LinkMint, RequestDies, codeVars, linkVars
  <1>2. ASSUME NEW q \in Taker, TakeStep(q)
        PROVE  UNCHANGED linkVars
    BY <1>2
    DEF TakeStep, VerifiedSignIn, TakeRead, TakeDrop, TakeAnswered, TakeRefused, linkVars
  <1>3. ASSUME NEW k \in Key, KeyIssued(k)
        PROVE  UNCHANGED linkVars
    BY <1>3 DEF KeyIssued, Challenge, OAuthLogin, linkVars
  <1>4. CASE KeyEnds
    BY <1>4 DEF KeyEnds, KeyExpires, RateExpires, linkVars
  <1>5. ASSUME NEW a \in Account, OtherSignIn(a)
        PROVE  UNCHANGED linkVars
    BY <1>5 DEF OtherSignIn, codeVars, linkVars
  <1>6. CASE Tick /\ UNCHANGED <<codeVars, begun>>
    BY <1>6 DEF codeVars, linkVars
  <1>7. ASSUME NEW h \in Chat, TryStep(h)
        PROVE  \/ \E c \in Code : TryRead(h, c)
               \/ Consume(h) \/ CountMiss(h) \/ LinkSaved(h) \/ TryDies(h)
    BY <1>7, Zenon DEF TryStep
  <1>8. QED
    BY <1>1, <1>2, <1>3, <1>4, <1>5, <1>6, <1>7, Zenon DEF AccessNext

-----------------------------------------------------------------------------
(* Tokens *)

\* A request works on a token that was issued; a token not yet issued has no
\* revocation key; and a key still there lasts as long as its token.
TokenInv ==
    /\ SessionsTypeOK
    /\ \A r \in Request : inHand[r] # Idle => owner[inHand[r].by] \in Account
    /\ \A t \in Token : owner[t] = NoOne => stamp[t] = 0
    /\ \A t \in Token : stamp[t] > 0 /\ life[t] > 0 => stamp[t] >= life[t]

LEMMA TokenInvInit == SessionsInit => TokenInv
  BY SessionAssumption DEF SessionsInit, TokenInv, SessionsTypeOK, Dead

\* What a token's life is compared with.
LEMMA Lives ==
    ASSUME SessionsTypeOK
    PROVE  /\ Dead \in Int /\ Dead < 0 /\ Life \in Dead..Life /\ 0 \in Dead..Life
           /\ \A t \in Token : life[t] \in Int /\ life[t] \in Dead..Life /\ stamp[t] \in Nat
  BY SessionAssumption DEF SessionsTypeOK, Dead

LEMMA TokensIssue ==
    ASSUME TokenInv, NEW a \in Account, Issue(a)
    PROVE  \E t \in Token :
             /\ owner[t] = NoOne /\ stamp[t] = 0
             /\ owner' = [owner EXCEPT ![t] = a]
             /\ life' = [life EXCEPT ![t] = Life]
             /\ owner' \in [Token -> Account \cup {NoOne}]
             /\ life' \in [Token -> Dead..Life]
  <1>1. PICK t \in Token : /\ owner[t] = NoOne
                           /\ owner' = [owner EXCEPT ![t] = a]
                           /\ life' = [life EXCEPT ![t] = Life]
    BY DEF Issue
  <1>2. QED
    BY <1>1, Lives DEF TokenInv, SessionsTypeOK

LEMMA TokensAfterIssue ==
    ASSUME TokenInv, NEW a \in Account, Issue(a), UNCHANGED <<stamp, loggedOut>>,
           inHand' \in [Request -> Job \cup {Idle}],
           \A r \in Request : inHand'[r] = Idle \/ inHand'[r] = inHand[r]
    PROVE  TokenInv'
  <1>1. PICK t \in Token : /\ owner[t] = NoOne /\ stamp[t] = 0
                           /\ owner' = [owner EXCEPT ![t] = a]
                           /\ life' = [life EXCEPT ![t] = Life]
                           /\ owner' \in [Token -> Account \cup {NoOne}]
                           /\ life' \in [Token -> Dead..Life]
    BY TokensIssue
  <1>2. SessionsTypeOK'
    BY <1>1 DEF TokenInv, SessionsTypeOK
  <1>3. ASSUME NEW r \in Request, inHand'[r] # Idle
        PROVE  owner'[inHand'[r].by] \in Account
    <2>1. inHand[r] # Idle /\ inHand[r] \in Job /\ inHand[r].by \in Token
      BY <1>3 DEF TokenInv, SessionsTypeOK, Job
    <2>2. owner[inHand[r].by] \in Account /\ inHand'[r] = inHand[r]
      BY <1>3, <2>1 DEF TokenInv
    <2>3. QED
      BY <1>1, <2>1, <2>2 DEF TokenInv, SessionsTypeOK
  <1>4. ASSUME NEW u \in Token
        PROVE  /\ owner'[u] = NoOne => stamp'[u] = 0
               /\ stamp'[u] > 0 /\ life'[u] > 0 => stamp'[u] >= life'[u]
    BY <1>1, SessionAssumption DEF TokenInv, SessionsTypeOK
  <1>5. QED
    BY <1>2, <1>3, <1>4 DEF TokenInv

\* A request that ends, or moves on with the same token.
LEMMA JobsMove ==
    ASSUME SessionsTypeOK, NEW r \in Request, inHand[r] # Idle,
           \/ Ends(r)
           \/ \E at \in {"gated", "armed"} : LinkGoes(r, at)
    PROVE  /\ inHand' \in [Request -> Job \cup {Idle}]
           /\ \A s \in Request :
                inHand'[s] # Idle => inHand[s] # Idle /\ inHand'[s].by = inHand[s].by
  <1>1. CASE Ends(r)
    BY <1>1 DEF Ends, SessionsTypeOK
  <1>2. ASSUME NEW at \in {"gated", "armed"}, LinkGoes(r, at)
        PROVE  /\ inHand' \in [Request -> Job \cup {Idle}]
               /\ \A s \in Request :
                    inHand'[s] # Idle => inHand[s] # Idle /\ inHand'[s].by = inHand[s].by
    <2>1. inHand[r] \in Job
      BY DEF SessionsTypeOK
    <2>2. [inHand[r] EXCEPT !.at = at] \in Job
          /\ [inHand[r] EXCEPT !.at = at].by = inHand[r].by
      BY <2>1 DEF Job
    <2>3. inHand' = [inHand EXCEPT ![r] = [inHand[r] EXCEPT !.at = at]]
      BY <1>2 DEF LinkGoes
    <2>4. QED
      BY <2>2, <2>3 DEF SessionsTypeOK
  <1>3. QED
    BY <1>1, <1>2

LEMMA JobBegins ==
    ASSUME TokenInv, NEW r \in Request, NEW t \in Token, Verifies(t),
           NEW op \in {"logout", "refresh", "link", "resume"}, Begins(r, t, op),
           UNCHANGED <<owner, life, stamp, loggedOut>>
    PROVE  TokenInv'
  <1>1. [op |-> op, by |-> t, at |-> "admitted"] \in Job
    BY DEF Job
  <1>2. SessionsTypeOK'
    BY <1>1 DEF TokenInv, SessionsTypeOK, Begins
  <1>3. owner[t] \in Account
    BY DEF TokenInv, SessionsTypeOK, Verifies
  <1>4. QED
    BY <1>2, <1>3 DEF TokenInv, SessionsTypeOK, Begins

LEMMA LogoutStep ==
    ASSUME TokenInv, NEW r \in Request, Logout(r)
    PROVE  /\ TokenInv'
           /\ inHand[r] # Idle /\ Doing(r, "logout") /\ inHand[r].by \in Token
           /\ stamp' = [stamp EXCEPT ![inHand[r].by] = AtLeast(life[inHand[r].by], MinStamp)]
           /\ UNCHANGED <<owner, life>>
  <1> DEFINE t == inHand[r].by
  <1>1. inHand[r] # Idle /\ Doing(r, "logout") /\ Ends(r) /\ UNCHANGED <<owner, life>>
        /\ stamp' = [stamp EXCEPT ![t] = AtLeast(life[t], MinStamp)]
        /\ loggedOut' = loggedOut \cup {t}
    BY DEF Logout, Stamps, Doing
  <1>2. t \in Token
    BY <1>1 DEF TokenInv, SessionsTypeOK, Job
  <1>3. AtLeast(life[t], MinStamp) \in Nat /\ AtLeast(life[t], MinStamp) >= life[t]
    BY <1>2, Lives, SessionAssumption DEF TokenInv, AtLeast
  <1>4. SessionsTypeOK'
    BY <1>1, <1>2, <1>3 DEF TokenInv, SessionsTypeOK, Ends
  <1>5. owner[t] # NoOne
    BY <1>1, SessionAssumption DEF TokenInv
  <1>6. ASSUME NEW u \in Token
        PROVE  /\ owner'[u] = NoOne => stamp'[u] = 0
               /\ stamp'[u] > 0 /\ life'[u] > 0 => stamp'[u] >= life'[u]
    BY <1>1, <1>2, <1>3, <1>5 DEF TokenInv, SessionsTypeOK
  <1>7. \A s \in Request : inHand'[s] # Idle => inHand[s] # Idle /\ inHand'[s].by = inHand[s].by
    BY <1>1, JobsMove DEF TokenInv
  <1>8. QED
    BY <1>1, <1>2, <1>4, <1>6, <1>7 DEF TokenInv

LEMMA TickStep ==
    ASSUME TokenInv, Tick
    PROVE  /\ TokenInv'
           /\ UNCHANGED <<owner, inHand>>
           /\ \A t \in Token :
                /\ life'[t] = AtLeast(life[t] - 1, Dead)
                /\ stamp'[t] = AtLeast(stamp[t] - 1, 0)
  <1>1. \A t \in Token : /\ life'[t] = AtLeast(life[t] - 1, Dead)
                         /\ stamp'[t] = AtLeast(stamp[t] - 1, 0)
    BY DEF Tick
  <1>2. \A t \in Token : AtLeast(life[t] - 1, Dead) \in Dead..Life /\ AtLeast(stamp[t] - 1, 0) \in Nat
    BY Lives, SessionAssumption DEF TokenInv, AtLeast
  <1>3. SessionsTypeOK'
    BY <1>2 DEF Tick, TokenInv, SessionsTypeOK
  <1>4. ASSUME NEW u \in Token
        PROVE  /\ owner'[u] = NoOne => stamp'[u] = 0
               /\ stamp'[u] > 0 /\ life'[u] > 0 => stamp'[u] >= life'[u]
    BY <1>1, Lives DEF Tick, TokenInv, AtLeast
  <1>5. QED
    BY <1>1, <1>3, <1>4 DEF Tick, TokenInv

LEMMA TokenInvStep ==
    ASSUME TokenInv, AccessNext
    PROVE  TokenInv'
  <1>1. CASE UNCHANGED sessionVars
    BY <1>1 DEF sessionVars, TokenInv, SessionsTypeOK
  <1>2. CASE Tick
    BY <1>2, TickStep
  <1>3. ASSUME NEW a \in Account, SignIn(a)
        PROVE  TokenInv'
    <2>1. inHand' = inHand /\ inHand \in [Request -> Job \cup {Idle}]
      BY <1>3 DEF SignIn, TokenInv, SessionsTypeOK
    <2>2. QED
      BY <1>3, <2>1, TokensAfterIssue DEF SignIn
  <1>4. ASSUME NEW r \in Request, NEW t \in Token, AdmitOwner(r, t)
        PROVE  TokenInv'
    BY <1>4, JobBegins DEF AdmitOwner
  <1>5. ASSUME NEW r \in Request, NEW t \in Token,
               NEW op \in {"logout", "refresh", "link"}, Admit(r, t, op)
        PROVE  TokenInv'
    BY <1>5, JobBegins DEF Admit
  <1>6. ASSUME NEW r \in Request, Renew(r)
        PROVE  TokenInv'
    <2>1. inHand[r] # Idle /\ Ends(r)
      BY <1>6 DEF Renew, Doing
    <2>2. owner[inHand[r].by] \in Account
      BY <2>1 DEF TokenInv
    <2>3. /\ inHand' \in [Request -> Job \cup {Idle}]
          /\ \A s \in Request : inHand'[s] = Idle \/ inHand'[s] = inHand[s]
      BY <2>1 DEF Ends, TokenInv, SessionsTypeOK
    <2>4. QED
      BY <1>6, <2>2, <2>3, TokensAfterIssue DEF Renew
  <1>7. ASSUME NEW r \in Request, Logout(r)
        PROVE  TokenInv'
    BY <1>7, LogoutStep
  <1>8. ASSUME NEW r \in Request, RequestFails(r) \/ LinkMoves(r)
        PROVE  TokenInv'
    <2>1. /\ inHand[r] # Idle
          /\ Ends(r) \/ \E at \in {"gated", "armed"} : LinkGoes(r, at)
          /\ UNCHANGED <<owner, life, stamp, loggedOut>>
      BY <1>8 DEF RequestFails, LinkMoves
    <2>2. /\ inHand' \in [Request -> Job \cup {Idle}]
          /\ \A s \in Request :
               inHand'[s] # Idle => inHand[s] # Idle /\ inHand'[s].by = inHand[s].by
      BY <2>1, JobsMove DEF TokenInv
    <2>3. QED
      BY <2>1, <2>2 DEF TokenInv, SessionsTypeOK
  <1>9. QED
    BY <1>1, <1>2, <1>3, <1>4, <1>5, <1>6, <1>7, <1>8, SessionPart

LEMMA TokenInvAlways == AccessSpec => []TokenInv
  <1>1. TokenInv /\ UNCHANGED accessVars => TokenInv'
    BY DEF accessVars, sessionVars, TokenInv, SessionsTypeOK
  <1>2. AccessInit => TokenInv
    BY TokenInvInit DEF AccessInit
  <1>3. QED
    BY <1>1, <1>2, TokenInvStep, PTL DEF AccessSpec

\* Whatever requests race, a refused token is not taken again before its
\* expiry, for any lengths of life, leeway and stamp.
THEOREM RefusedTokensStay == AccessSpec => RefusedStaysRefused
  <1>1. ASSUME TokenInv, AccessNext, NEW t \in Token,
               owner[t] # NoOne, ~Accepted(t), ~InGrace(t)'
        PROVE  ~Accepted(t)'
    <2> USE DEF Accepted, Verifies, Revoked, InGrace
    <2>1. CASE UNCHANGED <<owner, life, stamp>>
      BY <1>1, <2>1
    <2>2. CASE Tick
      BY <1>1, <2>2, TickStep, Lives, SessionAssumption DEF TokenInv, AtLeast, Dead
    <2>3. ASSUME NEW a \in Account, Issue(a), UNCHANGED stamp
          PROVE  ~Accepted(t)'
      BY <1>1, <2>3, TokensIssue DEF TokenInv, SessionsTypeOK
    <2>4. ASSUME NEW r \in Request, Logout(r)
          PROVE  ~Accepted(t)'
      BY <1>1, <2>4, LogoutStep, Lives, SessionAssumption DEF TokenInv, SessionsTypeOK, AtLeast
    <2>5. ASSUME NEW r \in Request, Renew(r)
          PROVE  owner[inHand[r].by] \in Account
      BY <1>1, <2>5 DEF Renew, Doing, TokenInv
    <2>6. QED
      BY <1>1, <2>1, <2>2, <2>3, <2>4, <2>5, SessionPart
      DEF sessionVars, SignIn, AdmitOwner, Admit, Renew, RequestFails, LinkMoves
  <1>2. TokenInv /\ [AccessNext]_accessVars
          => [\A t \in Token :
                owner[t] # NoOne /\ ~Accepted(t) /\ ~InGrace(t)' => ~Accepted(t)']_sessionVars
    BY <1>1 DEF accessVars
  <1>3. QED
    BY <1>2, TokenInvAlways, PTL DEF AccessSpec, RefusedStaysRefused

\* "Other devices stay logged in."
THEOREM OtherTokensStay == AccessSpec => OtherDevicesStay
  <1> DEFINE Asked(t) == \E r \in Request : Doing(r, "logout") /\ inHand[r].by = t
  <1>1. ASSUME TokenInv, AccessNext, NEW t \in Token, Accepted(t), ~Accepted(t)', ~Asked(t)
        PROVE  life'[t] = Dead
    <2> USE DEF Accepted, Verifies, Revoked
    <2>1. CASE UNCHANGED <<owner, life, stamp>>
      BY <1>1, <2>1
    <2>2. CASE Tick
      BY <1>1, <2>2, TickStep, Lives, SessionAssumption DEF TokenInv, AtLeast, Dead
    <2>3. ASSUME NEW a \in Account, Issue(a), UNCHANGED stamp
          PROVE  Accepted(t)'
      BY <1>1, <2>3, TokensIssue DEF TokenInv, SessionsTypeOK
    <2>4. ASSUME NEW r \in Request, Logout(r)
          PROVE  Accepted(t)'
      BY <1>1, <2>4, LogoutStep DEF TokenInv, SessionsTypeOK
    <2>5. ASSUME NEW r \in Request, Renew(r)
          PROVE  owner[inHand[r].by] \in Account
      BY <1>1, <2>5 DEF Renew, Doing, TokenInv
    <2>6. QED
      BY <1>1, <2>1, <2>2, <2>3, <2>4, <2>5, SessionPart
      DEF sessionVars, SignIn, AdmitOwner, Admit, Renew, RequestFails, LinkMoves
  <1>2. TokenInv /\ [AccessNext]_accessVars
          => [\A t \in Token : Accepted(t) /\ ~Accepted(t)' => life'[t] = Dead \/ Asked(t)]_sessionVars
    BY <1>1 DEF accessVars
  <1>3. QED
    BY <1>2, TokenInvAlways, PTL DEF AccessSpec, OtherDevicesStay

-----------------------------------------------------------------------------
(* Nonces and OAuth states *)

TakeType ==
    /\ held \in [Key -> 0..MaxIssue]
    /\ issued \in 0..MaxIssue
    /\ taking \in [Taker -> Taken \cup {Idle}]
    /\ answered \in [1..MaxIssue -> 0..Several]
    /\ shared \subseteq 1..MaxIssue

Holds(q, n) == taking[q] # Idle /\ taking[q].got = n

\* An issue nobody has read twice: it is in one place at a time, in its key, in
\* the hands of one taker (who may not have deleted it yet), or answered.
SoleAt(n) ==
    /\ \A p, q \in Taker : Holds(p, n) /\ Holds(q, n) => p = q
    /\ \A q \in Taker : Holds(q, n) => answered[n] = 0
    /\ \A q \in Taker, k \in Key :
         Holds(q, n) /\ held[k] = n => taking[q].at = "read" /\ taking[q].key = k
    /\ \A k \in Key : held[k] = n => answered[n] = 0
    /\ answered[n] <= 1

\* No key holds what was not issued yet, and no two keys the same issue.
TakeInv ==
    /\ TakeType
    /\ \A k \in Key : held[k] <= issued
    /\ \A q \in Taker : taking[q] # Idle => taking[q].got <= issued
    /\ \A n \in 1..MaxIssue : n > issued => answered[n] = 0
    /\ \A j, k \in Key : held[j] = held[k] /\ held[j] # 0 => j = k
    /\ \A n \in 1..MaxIssue \ shared : SoleAt(n)

LEMMA TakeInvInit == CodesInit => TakeInv
  BY CodesAssumption DEF CodesInit, TakeInv, TakeType, SoleAt, Holds, Several

\* The key of k is given a new issue, or emptied.
LEMMA KeyChanges ==
    ASSUME TakeInv, NEW k \in Key, issued' \in 0..MaxIssue,
           \/ issued' = issued + 1 /\ held' = [held EXCEPT ![k] = issued']
           \/ issued' = issued + 1 /\ held' = held
           \/ issued' = issued /\ held' = [held EXCEPT ![k] = 0],
           UNCHANGED <<taking, answered, shared>>
    PROVE  TakeInv'
  <1>1. TakeType'
    BY CodesAssumption DEF TakeInv, TakeType
  <1>2. issued \in Nat /\ issued' >= issued
    BY DEF TakeInv, TakeType
  <1>3. /\ \A j \in Key : held'[j] <= issued'
        /\ \A i, j \in Key : held'[i] = held'[j] /\ held'[i] # 0 => i = j
    BY <1>2 DEF TakeInv, TakeType
  <1>4. \A q \in Taker : taking'[q] # Idle => taking'[q].got <= issued'
    BY <1>2 DEF TakeInv, TakeType, Taken
  <1>5. \A n \in 1..MaxIssue : n > issued' => answered'[n] = 0
    BY <1>2 DEF TakeInv
  <1>6. ASSUME NEW n \in 1..MaxIssue \ shared
        PROVE  SoleAt(n)'
    <2>1. SoleAt(n)
      BY DEF TakeInv
    <2>2. ASSUME NEW j \in Key, held'[j] = n
          PROVE  held[j] = n \/ n = issued + 1
      BY <2>2, <1>2 DEF TakeInv, TakeType
    <2>3. \A q \in Taker : Holds(q, n)' <=> Holds(q, n)
      BY DEF Holds
    <2>4. n = issued + 1 => answered[n] = 0 /\ \A q \in Taker : ~Holds(q, n)
      BY <1>2 DEF TakeInv, Holds
    <2>5. QED
      BY <2>1, <2>2, <2>3, <2>4 DEF SoleAt
  <1>7. QED
    BY <1>1, <1>3, <1>4, <1>5, <1>6 DEF TakeInv

LEMMA TakeReadStep ==
    ASSUME TakeInv, NEW q \in Taker, NEW k \in Key, NEW fits \in BOOLEAN, TakeRead(q, k, fits)
    PROVE  TakeInv'
  <1> DEFINE v == held[k]
             new == [key |-> k, got |-> v, fits |-> fits, at |-> "read"]
  <1>1. v \in 1..MaxIssue /\ new \in Taken /\ new # Idle
    BY CodesAssumption DEF TakeRead, TakeInv, TakeType, Taken
  <1>2. /\ taking' = [taking EXCEPT ![q] = new]
        /\ shared' = IF InTake(v) THEN shared \cup {v} ELSE shared
        /\ taking[q] = Idle /\ UNCHANGED <<held, issued, answered>>
    BY DEF TakeRead
  <1>3. TakeType'
    BY <1>1, <1>2 DEF TakeInv, TakeType
  <1>4. ASSUME NEW p \in Taker, NEW n
        PROVE  Holds(p, n)' <=> IF p = q THEN n = v ELSE Holds(p, n)
    BY <1>1, <1>2 DEF Holds, TakeInv, TakeType
  <1>5. \A p \in Taker : p # q => taking'[p] = taking[p]
    BY <1>2 DEF TakeInv, TakeType
  <1>6. taking'[q] = new /\ v <= issued
    BY <1>2 DEF TakeInv, TakeType
  <1>7. ASSUME NEW n \in 1..MaxIssue \ shared'
        PROVE  SoleAt(n)'
    <2>1. n \notin shared /\ SoleAt(n)
      BY <1>2 DEF TakeInv
    <2>2. CASE n # v
      BY <2>1, <2>2, <1>2, <1>4, <1>5 DEF SoleAt
    <2>3. CASE n = v
      <3>1. \A p \in Taker : ~Holds(p, n)
        BY <1>2, <2>3 DEF InTake, Holds
      <3>2. \A j \in Key : held[j] = n => j = k
        BY <1>1, <2>3 DEF TakeInv
      <3>3. QED
        BY <2>1, <2>3, <3>1, <3>2, <1>2, <1>4, <1>6 DEF SoleAt
    <2>4. QED
      BY <2>2, <2>3
  <1>8. QED
    BY <1>2, <1>3, <1>5, <1>6, <1>7 DEF TakeInv

LEMMA TakeDropStep ==
    ASSUME TakeInv, NEW q \in Taker, TakeDrop(q)
    PROVE  TakeInv'
  <1>1. taking[q] # Idle /\ taking[q] \in Taken /\ taking[q].at = "read"
    BY DEF TakeDrop, TakeAt, TakeInv, TakeType
  <1> DEFINE k == taking[q].key
             v == taking[q].got
             new == [taking[q] EXCEPT !.at = "taken"]
  <1>2. k \in Key /\ v \in 1..MaxIssue /\ new \in Taken /\ new # Idle
        /\ new.got = v /\ new.key = k
    BY <1>1, CodesAssumption DEF Taken
  <1>3. /\ taking' = [taking EXCEPT ![q] = new]
        /\ \/ held' = [held EXCEPT ![k] = 0] /\ shared' = shared
           \/ held' = held /\ shared' = shared \cup {v}
        /\ UNCHANGED <<issued, answered>>
    BY DEF TakeDrop
  <1>4. TakeType'
    BY <1>2, <1>3, CodesAssumption DEF TakeInv, TakeType
  <1>5. \A p \in Taker : p # q => taking'[p] = taking[p]
    BY <1>3 DEF TakeInv, TakeType
  <1>6. taking'[q] = new
    BY <1>3 DEF TakeInv, TakeType
  <1>7. \A p \in Taker, n \in 1..MaxIssue : Holds(p, n)' <=> Holds(p, n)
    BY <1>1, <1>2, <1>5, <1>6 DEF Holds
  <1>8. \A j \in Key : held'[j] = held[j] \/ (held'[j] = 0 /\ j = k)
    BY <1>2, <1>3 DEF TakeInv, TakeType
  <1>9. ASSUME NEW n \in 1..MaxIssue \ shared'
        PROVE  SoleAt(n)'
    <2>1. n \notin shared /\ SoleAt(n)
      BY <1>3 DEF TakeInv
    <2>2. ASSUME NEW p \in Taker, NEW j \in Key, Holds(p, n)', held'[j] = n
          PROVE  taking'[p].at = "read" /\ taking'[p].key = j
      <3>1. Holds(p, n) /\ held[j] = n
        BY <2>2, <1>7, <1>8
      <3>2. taking[p].key = j /\ taking[p].at = "read"
        BY <2>1, <3>1 DEF SoleAt
      <3>3. CASE p = q
        <4>1. v = n /\ j = k
          BY <3>1, <3>2, <3>3 DEF Holds
        <4>2. held' = [held EXCEPT ![k] = 0]
          BY <4>1, <1>3
        <4>3. QED
          BY <2>2, <4>1, <4>2, <1>2 DEF TakeInv, TakeType
      <3>4. QED
        BY <3>2, <3>3, <1>5
    <2>3. \A j \in Key : held'[j] = n => held[j] = n
      BY <1>8
    <2>4. QED
      BY <2>1, <2>2, <2>3, <1>3, <1>7 DEF SoleAt
  <1>10. \A j \in Key : held'[j] <= issued'
    BY <1>3, <1>8 DEF TakeInv, TakeType
  <1>11. \A i, j \in Key : held'[i] = held'[j] /\ held'[i] # 0 => i = j
    BY <1>8 DEF TakeInv
  <1>12. \A p \in Taker : taking'[p] # Idle => taking'[p].got <= issued'
    BY <1>1, <1>2, <1>3, <1>5, <1>6 DEF TakeInv
  <1>13. QED
    BY <1>3, <1>4, <1>9, <1>10, <1>11, <1>12 DEF TakeInv

LEMMA TakeEndStep ==
    ASSUME TakeInv, NEW q \in Taker, TakeAnswered(q) \/ TakeRefused(q)
    PROVE  TakeInv'
  <1>1. taking[q] # Idle /\ taking[q] \in Taken
    BY DEF TakeAnswered, TakeRefused, TakeAt, TakeInv, TakeType
  <1> DEFINE v == taking[q].got
  <1>2. v \in 1..MaxIssue
    BY <1>1 DEF Taken
  <1>3. /\ taking' = [taking EXCEPT ![q] = Idle]
        /\ \/ answered' = answered
           \/ /\ taking[q].at = "taken"
              /\ answered' = [answered EXCEPT
                                ![v] = IF answered[v] = Several THEN Several ELSE answered[v] + 1]
        /\ UNCHANGED <<held, issued, shared>>
    BY DEF TakeAnswered, TakeRefused, TakeEnds, TakeAt
  <1>4. answered' \in [1..MaxIssue -> 0..Several]
    BY <1>2, <1>3 DEF TakeInv, TakeType, Several
  <1>5. TakeType'
    BY <1>3, <1>4 DEF TakeInv, TakeType
  <1>6. \A p \in Taker : p # q => taking'[p] = taking[p]
    BY <1>3 DEF TakeInv, TakeType
  <1>7. taking'[q] = Idle
    BY <1>3 DEF TakeInv, TakeType
  <1>8. \A n \in 1..MaxIssue : n # v => answered'[n] = answered[n]
    BY <1>3 DEF TakeInv, TakeType
  <1>9. ASSUME NEW n \in 1..MaxIssue \ shared
        PROVE  SoleAt(n)'
    <2>1. SoleAt(n)
      BY DEF TakeInv
    <2>2. \A p \in Taker : Holds(p, n)' => p # q /\ Holds(p, n)
      BY <1>6, <1>7 DEF Holds
    <2>3. CASE answered'[n] = answered[n]
      BY <2>1, <2>2, <2>3, <1>3, <1>6 DEF SoleAt
    <2>4. CASE answered'[n] # answered[n]
      <3>1. n = v /\ taking[q].at = "taken" /\ Holds(q, n)
        BY <2>4, <1>1, <1>3, <1>8 DEF Holds
      <3>2. answered[n] = 0 /\ answered[n] # Several
        BY <2>1, <3>1 DEF SoleAt, Several
      <3>3. answered'[n] = 1
        <4>1. answered' = [answered EXCEPT ![n] = 1]
          BY <2>4, <3>1, <3>2, <1>3
        <4>2. QED
          BY <4>1 DEF TakeInv, TakeType
      <3>4. \A p \in Taker : ~Holds(p, n)'
        BY <2>1, <2>2, <3>1 DEF SoleAt
      <3>5. \A k \in Key : held'[k] # n
        BY <2>1, <3>1, <1>3 DEF SoleAt
      <3>6. QED
        BY <3>3, <3>4, <3>5 DEF SoleAt
    <2>5. QED
      BY <2>3, <2>4
  <1>10. \A n \in 1..MaxIssue : n > issued' => answered'[n] = 0
    BY <1>1, <1>2, <1>3, <1>8 DEF TakeInv, TakeType
  <1>11. \A p \in Taker : taking'[p] # Idle => taking'[p].got <= issued'
    BY <1>3, <1>6, <1>7 DEF TakeInv
  <1>12. QED
    BY <1>3, <1>5, <1>9, <1>10, <1>11 DEF TakeInv

LEMMA TakeInvStep ==
    ASSUME TakeInv, AccessNext
    PROVE  TakeInv'
  <1>1. CASE UNCHANGED takeVars
    BY <1>1 DEF takeVars, TakeInv, TakeType, SoleAt, Holds
  <1>2. ASSUME NEW k \in Key, Challenge(k) \/ OAuthLogin(k) \/ KeyExpires(k)
        PROVE  TakeInv'
    <2>1. issued' \in 0..MaxIssue
      BY <1>2, CodesAssumption DEF Challenge, OAuthLogin, KeyExpires, TakeInv, TakeType
    <2>2. QED
      BY <1>2, <2>1, KeyChanges DEF Challenge, OAuthLogin, KeyExpires
  <1>3. QED
    BY <1>1, <1>2, TakePart, TakeReadStep, TakeDropStep, TakeEndStep

LEMMA TakeInvAlways == AccessSpec => []TakeInv
  <1>1. TakeInv /\ UNCHANGED accessVars => TakeInv'
    BY DEF accessVars, codeVars, takeVars, TakeInv, TakeType, SoleAt, Holds
  <1>2. AccessInit => TakeInv
    BY TakeInvInit DEF AccessInit
  <1>3. QED
    BY <1>1, <1>2, TakeInvStep, PTL DEF AccessSpec

\* "Single-use": for any number of wallets, states and requests, one nonce signs
\* in at most once, unless it was read twice before its DEL.
THEOREM NoncesAnswerOnce == AccessSpec => []OneSignInEach
  <1>1. TakeInv => OneSignInEach
    BY DEF TakeInv, SoleAt, OneSignInEach
  <1>2. QED
    BY <1>1, TakeInvAlways, PTL

-----------------------------------------------------------------------------
(* Link codes *)

LinkType ==
    /\ code \in [Code -> {"new", "live", "gone"}]
    /\ given \in [Code -> SUBSET Chat]
    /\ tries \in [Code -> 0..MaxTries]
    /\ trying \in [Chat -> Try \cup {Idle}]
    /\ misses \in [Code -> 0..MaxTries + 1]
    /\ crossed \subseteq Code

\* While the tries of a code do not overlap, one chat at most is at it, and what
\* that chat and the counter say is no less than the misses there were.
BrakeHolds(c) ==
    /\ \A g, h \in Chat : Trying(g, c) /\ Trying(h, c) => g = h
    /\ misses[c] <= tries[c]
    /\ \A h \in Chat : Trying(h, c) => misses[c] <= trying[h].seen

\* A chat reads a counter below the limit; a code not yet gone was given to
\* nobody.
LinkInv ==
    /\ LinkType
    /\ \A h \in Chat : trying[h] # Idle => trying[h].seen < MaxTries
    /\ \A c \in Code : code[c] # "gone" => given[c] = {}
    /\ CodesLinkOnce
    /\ \A c \in Code \ crossed : BrakeHolds(c)

LEMMA LinkInvInit == CodesInit => LinkInv
  BY CodesAssumption
  DEF CodesInit, LinkInv, LinkType, CodesLinkOnce, BrakeHolds, Trying

\* A chat's try goes on to another stage.
LEMMA TryMoves ==
    ASSUME LinkType, NEW h \in Chat, trying[h] # Idle,
           NEW at \in {"missed", "holds"}, TryGoes(h, at)
    PROVE  /\ trying' \in [Chat -> Try \cup {Idle}]
           /\ \A g \in Chat : /\ trying'[g] # Idle <=> trying[g] # Idle
                              /\ trying[g] # Idle => /\ trying'[g].code = trying[g].code
                                                     /\ trying'[g].seen = trying[g].seen
  <1>1. trying[h] \in Try
    BY DEF LinkType
  <1> DEFINE new == [trying[h] EXCEPT !.at = at]
  <1>2. new \in Try /\ new.code = trying[h].code /\ new.seen = trying[h].seen
    BY <1>1 DEF Try
  <1>3. trying' = [trying EXCEPT ![h] = new]
    BY DEF TryGoes
  <1>4. new # Idle
    BY <1>2, CodesAssumption
  <1>5. QED
    BY <1>2, <1>3, <1>4 DEF LinkType

LEMMA MintStep ==
    ASSUME LinkInv, NEW c \in Code, Mint(c) \/ CodeExpires(c)
    PROVE  LinkInv'
  <1>1. UNCHANGED <<given, tries, trying, misses, crossed>>
    BY DEF Mint, CodeExpires
  <1>2. code' \in [Code -> {"new", "live", "gone"}]
        /\ \A d \in Code : code'[d] # "gone" => code[d] # "gone"
    BY DEF Mint, CodeExpires, LinkInv, LinkType
  <1>3. QED
    BY <1>1, <1>2 DEF LinkInv, LinkType, CodesLinkOnce, BrakeHolds, Trying

LEMMA TriesExpireStep ==
    ASSUME LinkInv, NEW c \in Code, TriesExpire(c)
    PROVE  LinkInv'
  <1>1. /\ tries' = [tries EXCEPT ![c] = 0] /\ misses' = [misses EXCEPT ![c] = 0]
        /\ UNCHANGED <<code, given, trying, crossed>>
    BY DEF TriesExpire
  <1>2. LinkType'
    BY <1>1, CodesAssumption DEF LinkInv, LinkType
  <1>3. ASSUME NEW d \in Code \ crossed
        PROVE  BrakeHolds(d)'
    BY <1>1 DEF LinkInv, LinkType, BrakeHolds, Trying, Try
  <1>4. QED
    BY <1>1, <1>2, <1>3 DEF LinkInv, CodesLinkOnce

LEMMA TryReadStep ==
    ASSUME LinkInv, NEW h \in Chat, NEW c \in Code, TryRead(h, c)
    PROVE  LinkInv'
  <1> DEFINE new == [code |-> c, seen |-> tries[c], at |-> "counted"]
  <1>1. /\ trying[h] = Idle /\ tries[c] < MaxTries
        /\ trying' = [trying EXCEPT ![h] = new]
        /\ crossed' = IF \E g \in Chat : Trying(g, c) THEN crossed \cup {c} ELSE crossed
        /\ UNCHANGED <<code, given, tries, misses>>
    BY DEF TryRead
  <1>2. new \in Try /\ new # Idle
    BY CodesAssumption DEF Try, LinkInv, LinkType
  <1>3. LinkType'
    BY <1>1, <1>2 DEF LinkInv, LinkType
  <1>4. trying'[h] = new /\ \A g \in Chat : g # h => trying'[g] = trying[g]
    BY <1>1 DEF LinkInv, LinkType
  <1>5. \A g \in Chat, d \in Code : Trying(g, d)' <=> IF g = h THEN d = c ELSE Trying(g, d)
    BY <1>2, <1>4 DEF Trying
  <1>6. ASSUME NEW d \in Code \ crossed'
        PROVE  BrakeHolds(d)'
    <2>1. d \notin crossed /\ BrakeHolds(d)
      BY <1>1 DEF LinkInv
    <2>2. CASE d # c
      BY <2>1, <2>2, <1>1, <1>4, <1>5 DEF BrakeHolds
    <2>3. CASE d = c
      <3>1. \A g \in Chat : ~Trying(g, d)
        BY <1>1, <2>3
      <3>2. QED
        BY <2>1, <2>3, <3>1, <1>1, <1>4, <1>5 DEF BrakeHolds
    <2>4. QED
      BY <2>2, <2>3
  <1>7. \A g \in Chat : trying'[g] # Idle => trying'[g].seen < MaxTries
    BY <1>1, <1>4 DEF LinkInv
  <1>8. QED
    BY <1>1, <1>3, <1>6, <1>7 DEF LinkInv, CodesLinkOnce

LEMMA ConsumeStep ==
    ASSUME LinkInv, NEW h \in Chat, Consume(h)
    PROVE  LinkInv'
  <1>1. trying[h] # Idle /\ trying[h] \in Try
    BY DEF Consume, TryAt, LinkInv, LinkType
  <1> DEFINE c == trying[h].code
  <1>2. c \in Code
    BY <1>1 DEF Try
  <1>3. /\ \E at \in {"missed", "holds"} : TryGoes(h, at)
        /\ UNCHANGED <<tries, misses, crossed>>
        /\ \/ UNCHANGED <<code, given>>
           \/ /\ code[c] = "live"
              /\ code' = [code EXCEPT ![c] = "gone"]
              /\ given' = [given EXCEPT ![c] = given[c] \cup {h}]
    BY DEF Consume
  <1>4. /\ trying' \in [Chat -> Try \cup {Idle}]
        /\ \A g \in Chat : /\ trying'[g] # Idle <=> trying[g] # Idle
                           /\ trying[g] # Idle => /\ trying'[g].code = trying[g].code
                                                  /\ trying'[g].seen = trying[g].seen
    BY <1>1, <1>3, TryMoves DEF LinkInv
  <1>5. LinkType'
    BY <1>2, <1>3, <1>4 DEF LinkInv, LinkType
  <1>6. \A g \in Chat, d \in Code : Trying(g, d)' <=> Trying(g, d)
    BY <1>4 DEF Trying
  <1>7. \A d \in Code \ crossed : BrakeHolds(d)'
    BY <1>3, <1>4, <1>6 DEF LinkInv, BrakeHolds, Trying
  <1>8. (\A d \in Code : code'[d] # "gone" => given'[d] = {}) /\ CodesLinkOnce'
    <2>1. CASE UNCHANGED <<code, given>>
      BY <2>1 DEF LinkInv, CodesLinkOnce
    <2>2. CASE /\ code[c] = "live"
               /\ code' = [code EXCEPT ![c] = "gone"]
               /\ given' = [given EXCEPT ![c] = given[c] \cup {h}]
      <3>1. given[c] = {}
        BY <1>2, <2>2 DEF LinkInv
      <3>2. given'[c] = {h} /\ code'[c] = "gone"
        BY <1>2, <2>2, <3>1 DEF LinkInv, LinkType
      <3>3. \A d \in Code : d # c => given'[d] = given[d] /\ code'[d] = code[d]
        BY <2>2 DEF LinkInv, LinkType
      <3>4. QED
        BY <3>2, <3>3 DEF LinkInv, CodesLinkOnce
    <2>3. QED
      BY <1>3, <2>1, <2>2
  <1>9. \A g \in Chat : trying'[g] # Idle => trying'[g].seen < MaxTries
    BY <1>4 DEF LinkInv
  <1>10. QED
    BY <1>3, <1>5, <1>7, <1>8, <1>9 DEF LinkInv

LEMMA TryEndStep ==
    ASSUME LinkInv, NEW h \in Chat, CountMiss(h) \/ LinkSaved(h) \/ TryDies(h)
    PROVE  LinkInv'
  <1>1. trying[h] # Idle /\ trying[h] \in Try
    BY DEF CountMiss, LinkSaved, TryDies, TryAt, LinkInv, LinkType
  <1> DEFINE c == trying[h].code
             seen == trying[h].seen
  <1>2. c \in Code /\ seen \in 0..MaxTries /\ seen < MaxTries
    BY <1>1 DEF Try, LinkInv
  <1>3. /\ trying' = [trying EXCEPT ![h] = Idle]
        /\ UNCHANGED <<code, given>>
    BY DEF CountMiss, LinkSaved, TryDies, TryEnds
  <1>4. \/ UNCHANGED <<tries, misses, crossed>>
        \/ /\ misses' = [misses EXCEPT ![c] = IF misses[c] > MaxTries THEN misses[c] ELSE misses[c] + 1]
           /\ \/ tries' = [tries EXCEPT ![c] = seen + 1] /\ crossed' = crossed
              \/ tries' = tries /\ crossed' = crossed \cup {c}
    BY DEF CountMiss, LinkSaved, TryDies
  <1>5. LinkType'
    BY <1>2, <1>3, <1>4, CodesAssumption DEF LinkInv, LinkType
  <1>6. trying'[h] = Idle /\ \A g \in Chat : g # h => trying'[g] = trying[g]
    BY <1>3 DEF LinkInv, LinkType
  <1>7. \A g \in Chat, d \in Code : Trying(g, d)' => g # h /\ Trying(g, d)
    BY <1>6 DEF Trying
  <1>8. ASSUME NEW d \in Code \ crossed'
        PROVE  BrakeHolds(d)'
    <2>1. d \notin crossed /\ BrakeHolds(d)
      BY <1>4 DEF LinkInv
    <2>2. CASE misses'[d] = misses[d] /\ tries'[d] = tries[d]
      BY <2>1, <2>2, <1>6, <1>7 DEF BrakeHolds
    <2>3. CASE ~(misses'[d] = misses[d] /\ tries'[d] = tries[d])
      <3>1. d = c
        BY <2>3, <1>4 DEF LinkInv, LinkType
      <3>2. Trying(h, d) /\ misses[d] <= seen /\ misses[d] \in Nat
        BY <2>1, <3>1, <1>1 DEF BrakeHolds, Trying, LinkInv, LinkType
      <3>3. misses'[d] <= misses[d] + 1 /\ tries'[d] = seen + 1
        BY <2>1, <2>3, <3>1, <1>2, <1>4 DEF LinkInv, LinkType
      <3>4. \A g \in Chat : ~Trying(g, d)'
        BY <2>1, <3>2, <1>7 DEF BrakeHolds
      <3>5. misses'[d] \in Nat
        BY <1>5 DEF LinkType
      <3>6. misses'[d] <= tries'[d]
        BY <3>2, <3>3, <3>5, <1>2
      <3>7. QED
        BY <3>4, <3>6 DEF BrakeHolds
    <2>4. QED
      BY <2>2, <2>3
  <1>9. \A g \in Chat : trying'[g] # Idle => trying'[g].seen < MaxTries
    BY <1>6 DEF LinkInv
  <1>10. QED
    BY <1>3, <1>5, <1>8, <1>9 DEF LinkInv, CodesLinkOnce

LEMMA LinkInvStep ==
    ASSUME LinkInv, AccessNext
    PROVE  LinkInv'
  <1>1. CASE UNCHANGED linkVars
    BY <1>1 DEF linkVars, LinkInv, LinkType, CodesLinkOnce, BrakeHolds, Trying
  <1>2. QED
    BY <1>1, LinkPart, MintStep, TriesExpireStep, TryReadStep, ConsumeStep, TryEndStep

LEMMA LinkInvAlways == AccessSpec => []LinkInv
  <1>1. LinkInv /\ UNCHANGED accessVars => LinkInv'
    BY DEF accessVars, codeVars, linkVars, LinkInv, LinkType, CodesLinkOnce, BrakeHolds, Trying
  <1>2. AccessInit => LinkInv
    BY LinkInvInit DEF AccessInit
  <1>3. QED
    BY <1>1, <1>2, LinkInvStep, PTL DEF AccessSpec

\* "One-time codes can never double-spend, even concurrently": for any number
\* of chats that send the same code at once.
THEOREM LinkCodesSpentOnce == AccessSpec => []CodesLinkOnce
  <1>1. LinkInv => CodesLinkOnce
    BY DEF LinkInv
  <1>2. QED
    BY <1>1, LinkInvAlways, PTL

\* The brake on guesses holds for any limit, as long as tries do not overlap.
THEOREM MissesAreBraked == AccessSpec => []MissesBraked
  <1>1. LinkInv => MissesBraked
    BY CodesAssumption DEF LinkInv, LinkType, BrakeHolds, MissesBraked
  <1>2. QED
    BY <1>1, LinkInvAlways, PTL

-----------------------------------------------------------------------------
(* Types *)

GateType ==
    /\ rate \in [Account -> {"free", "set", "armed"}]
    /\ stuck \subseteq Account
    /\ begun \in 0..MaxRequests

LEMMA GateTypeStep ==
    ASSUME TokenInv, GateType, AccessNext
    PROVE  GateType'
  <1>1. begun' \in 0..MaxRequests
    <2>1. Begin \/ begun' = begun
      BY DEF AccessNext, KeyEnds, OtherSignIn, KeyIssued, RequestStep, TakeStep, TryStep
    <2>2. QED
      BY <2>1, AccessAssumption DEF Begin, GateType
  <1>2. ASSUME NEW r \in Request, LinkGate(r) \/ LinkArm(r) \/ LinkMint(r) \/ RequestDies(r)
        PROVE  rate' \in [Account -> {"free", "set", "armed"}] /\ stuck' \subseteq Account
    <2>1. inHand[r] # Idle
      BY <1>2 DEF LinkGate, LinkArm, LinkMint, RequestDies, RequestFails, LinkAt, Doing
    <2>2. Asker(r) \in Account
      BY <2>1 DEF TokenInv, Asker
    <2>3. QED
      BY <1>2, <2>2
      DEF LinkGate, LinkArm, LinkMint, RequestDies, RateSet, RateArm, rateVars, GateType
  <1>3. ASSUME NEW a \in Account, RateExpires(a)
        PROVE  rate' \in [Account -> {"free", "set", "armed"}] /\ stuck' \subseteq Account
    BY <1>3 DEF RateExpires, GateType
  <1>4. \/ UNCHANGED rateVars
        \/ \E r \in Request : LinkGate(r) \/ LinkArm(r) \/ LinkMint(r) \/ RequestDies(r)
        \/ \E a \in Account : RateExpires(a)
    <2>1. ASSUME NEW q \in Taker, TakeStep(q)
          PROVE  UNCHANGED rateVars
      BY <2>1 DEF TakeStep, VerifiedSignIn, TakeRead, TakeDrop, TakeAnswered, TakeRefused, rateVars
    <2>2. ASSUME NEW h \in Chat, TryStep(h)
          PROVE  UNCHANGED rateVars
      BY <2>2 DEF TryStep, TryRead, Consume, CountMiss, LinkSaved, TryDies, rateVars
    <2>3. ASSUME NEW k \in Key, KeyIssued(k)
          PROVE  UNCHANGED rateVars
      BY <2>3 DEF KeyIssued, Challenge, OAuthLogin, rateVars
    <2>4. CASE (\E k \in Key : KeyExpires(k)) \/ \E c \in Code : CodeExpires(c) \/ TriesExpire(c)
      BY <2>4 DEF KeyExpires, CodeExpires, TriesExpire, rateVars
    <2>5. CASE UNCHANGED codeVars
      BY <2>5 DEF codeVars, rateVars
    <2>6. QED
      BY <2>1, <2>2, <2>3, <2>4, <2>5, Zenon
      DEF AccessNext, KeyEnds, OtherSignIn, RequestStep
  <1>5. QED
    BY <1>1, <1>2, <1>3, <1>4 DEF rateVars, GateType

\* Types, for any bounds.
THEOREM AccessTypes == AccessSpec => []AccessTypeOK
  <1>1. AccessInit => GateType
    BY AccessAssumption DEF AccessInit, CodesInit, GateType
  <1>2. GateType /\ UNCHANGED accessVars => GateType'
    BY DEF accessVars, codeVars, rateVars, GateType
  <1>3. AccessSpec => []GateType
    BY <1>1, <1>2, GateTypeStep, TokenInvAlways, PTL DEF AccessSpec
  <1>4. TokenInv /\ TakeInv /\ LinkInv /\ GateType => AccessTypeOK
    BY DEF TokenInv, TakeInv, TakeType, LinkInv, LinkType, GateType, AccessTypeOK, CodesTypeOK
  <1>5. QED
    BY <1>3, <1>4, TokenInvAlways, TakeInvAlways, LinkInvAlways, PTL
=============================================================================
