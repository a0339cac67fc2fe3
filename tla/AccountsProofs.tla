-------------------------- MODULE AccountsProofs --------------------------
(***************************************************************************)
(* What holds of the identity index for any number of accounts, keys and   *)
(* requests, however these race.                                           *)
(***************************************************************************)
EXTENDS Accounts, TLAPS

-----------------------------------------------------------------------------
(* The invariant: what a request knows of the account it works on *)

\* k leads to a, unless its index row was ever removed or left out.
LeadsTo(k, a) == k \in loose \/ index[k] = a

Owns(a, row) == \A k \in Keys(row) : LeadsTo(k, a)

Backed(q) == \A k \in Proved(q) \ {NoKey} : LeadsTo(k, q.acct)

\* What a request relies on at its stage.
Sound(q) ==
    /\ q.op = "unlink" => q.key \in Chat
    /\ q.at \in {"unbind", "load", "save", "cache"} => q.acct \in Account
    /\ q.at = "cache" => Exists(q.acct) /\ Owns(q.acct, q.row) /\ Backed(q)
    /\ q.at \in {"load", "save", "decide"} /\ q.op \in {"login", "resolve"}
         => q.key \in Key /\ (q.acct # NoAccount => LeadsTo(q.key, q.acct))
    /\ q.at \in {"load", "save"} /\ q.op \in {"link", "bot", "join", "bymail"}
         => q.key \in Key
    /\ q.at \in {"load", "decide"} => q.op # "welcome"
    /\ q.at = "save" /\ q.op = "welcome" => Backed(q)
    /\ q.at = "save" /\ q.op = "join" => Proved(q) \ {NoKey} \subseteq Keys(q.row)
    /\ q.at = "save" /\ q.op = "bymail" => q.key \in Keys(q.row)
    /\ q.at = "save" /\ q.op = "login" /\ q.mail # NoKey => q.mail \in Keys(q.row)
    /\ q.at = "decide" => q.op = "login"
    /\ q.op = "join" /\ q.key \in Email => q.mail = NoKey
    /\ q.op = "login" /\ q.key \in Email => q.mail = NoKey
    /\ q.at = "resolve" => q.op = "resolve" /\ q.key \in Key
    /\ q.at \in {"unbind", "drop"} => q.op = "unlink"

AccountsInv ==
    /\ AccountsTypeOK
    /\ RowsAreIndexed
    /\ CachedCopiesAreOwn
    /\ ProofLeadsToOneAccount
    /\ \A r \in Request : req[r] # Idle => Sound(req[r])

\* No step takes a key away from the account it leads to, or a row from Redb.
Persists ==
    /\ \A k \in Key, a \in Account : LeadsTo(k, a) => LeadsTo(k, a)'
    /\ \A a \in Account : Exists(a) => Exists(a)'

-----------------------------------------------------------------------------
(* Rows and their keys *)

LEMMA RowOps ==
    ASSUME NEW row \in Row, NEW k \in Key, NEW m \in Email \cup {NoKey}
    PROVE  /\ Linked(row, k) \in Row /\ k \in Keys(Linked(row, k))
           /\ WithMail(row, m) \in Row
           /\ m # NoKey => m \in Keys(WithMail(row, m))
           /\ WithMail(row, m).ids = row.ids
           /\ [row EXCEPT !.ids = @ \ {k}] \in Row
           /\ Keys(row) \subseteq Key
  BY DEF Row, Linked, WithMail, Keys, Key

LEMMA BlankRow == Blank \in Row /\ Blank # NoRow
  BY AccountsAssumption DEF Blank, Row

LEMMA JoinedRow ==
    ASSUME NEW q \in Ask, NEW row \in Row, q.key \in Key,
           q.key \in Email => q.mail = NoKey
    PROVE  /\ Joined(q, row) \in Row
           /\ {q.key, q.mail} \ {NoKey} \subseteq Keys(Joined(q, row))
  <1>1. q.mail \in Email \cup {NoKey}
    BY DEF Ask
  <1>2. PICK m \in Email \cup {NoKey} : m = IF q.key \in Email THEN q.key ELSE q.mail
    BY <1>1
  <1>3. Linked(row, q.key) \in Row /\ q.key \in Linked(row, q.key).ids
    BY RowOps DEF Linked, Row
  <1>4. Joined(q, row) = WithMail(Linked(row, q.key), m)
    BY <1>2 DEF Joined
  <1>5. q.mail # NoKey => m = q.mail
    BY <1>2
  <1>6. /\ WithMail(Linked(row, q.key), m) \in Row
        /\ m # NoKey => m \in Keys(WithMail(Linked(row, q.key), m))
        /\ WithMail(Linked(row, q.key), m).ids = Linked(row, q.key).ids
    BY <1>3, RowOps
  <1>7. q.key \in Keys(Joined(q, row))
    BY <1>3, <1>4, <1>6 DEF Keys
  <1>8. QED
    BY <1>4, <1>5, <1>6, <1>7

LEMMA CopiesAreRows ==
    ASSUME AccountsTypeOK, NEW a \in Account, NEW row \in Copies(a)
    PROVE  row \in Row
  BY DEF Copies, AccountsTypeOK

LEMMA Asking ==
    ASSUME NEW stage \in {"load", "decide", "unbind", "resolve", "save", "cache", "drop"},
           NEW op \in Op, NEW a \in Account \cup {NoAccount},
           NEW k \in Key \cup {NoKey}
    PROVE  Asked(stage, op, a, k) \in Ask
  BY BlankRow DEF Asked, Ask

-----------------------------------------------------------------------------
(* What a step leaves alone *)

\* Only three steps write the index or the rows.
LEMMA QuietSteps ==
    ASSUME NEW r \in Request, AskStep(r) \/ WorkStep(r),
           ~SaveCommits(r), \A a \in Account : ~ResolveCreates(r, a), ~UnlinkDrop(r)
    PROVE  UNCHANGED <<rows, index, loose>>
  <1>1. CASE AskStep(r)
    BY <1>1 DEF AskStep, NewAnonymous, TouchOwn, SignInFind, LinkOwn, BotLink,
       UnlinkCheck, ResolveFind, stores, histories
  <1>2. CASE WorkStep(r)
    BY <1>2 DEF WorkStep, UnlinkBot, LoadOwn, LoadLogin, LoadJoin, LoadResolved,
       DecideKnown, DecideByMail, DecideJoin, SaveRefused, ResolveFound, CacheCopy,
       stores, histories
  <1>3. QED
    BY <1>1, <1>2

LEMMA SaveOwns ==
    ASSUME AccountsTypeOK, NEW r \in Request, SaveCommits(r), req[r].acct \in Account
    PROVE  /\ Persists
           /\ rows'[req[r].acct] # NoRow
           /\ \A k \in Keys(req[r].row) : k \in Key => index'[k] = req[r].acct
           /\ UNCHANGED loose
  <1>1. /\ rows' = [rows EXCEPT ![req[r].acct] = req[r].row]
        /\ index' = [k \in Key |-> IF k \in Keys(req[r].row) THEN req[r].acct ELSE index[k]]
        /\ \A k \in Keys(req[r].row) : index[k] \in {NoAccount, req[r].acct}
        /\ UNCHANGED loose
    BY DEF SaveCommits, Indexes, MaySave, histories
  <1>2. req[r] \in Ask /\ req[r].row \in Row
    BY DEF SaveCommits, At, AccountsTypeOK, Ask
  <1>3. \A k \in Key, a \in Account : LeadsTo(k, a) => LeadsTo(k, a)'
    BY <1>1, AccountsAssumption DEF LeadsTo
  <1>4. rows'[req[r].acct] # NoRow /\ \A a \in Account : Exists(a) => Exists(a)'
    BY <1>1, <1>2, AccountsAssumption DEF Exists, AccountsTypeOK
  <1>5. QED
    BY <1>1, <1>3, <1>4 DEF Persists

LEMMA CreateOwns ==
    ASSUME AccountsTypeOK, NEW r \in Request, NEW a \in Account, ResolveCreates(r, a),
           req[r].key \in Key
    PROVE  /\ Persists
           /\ Exists(a)'
           /\ rows'[a] = [mail |-> req[r].mail, ids |-> {req[r].key}]
           /\ rows'[a] \in Row
           /\ index'[req[r].key] = a
           /\ req[r].mail # NoKey => req[r].mail \in loose'
  <1>1. /\ rows' = [rows EXCEPT ![a] = [mail |-> req[r].mail, ids |-> {req[r].key}]]
        /\ index' = [index EXCEPT ![req[r].key] = a]
        /\ loose' = loose \cup ({req[r].mail} \ {NoKey})
        /\ index[req[r].key] = NoAccount
    BY DEF ResolveCreates
  <1>2. [mail |-> req[r].mail, ids |-> {req[r].key}] \in Row
    BY DEF ResolveCreates, At, AccountsTypeOK, Ask, Row
  <1>3. \A k \in Key, b \in Account : LeadsTo(k, b) => LeadsTo(k, b)'
    BY <1>1, AccountsAssumption DEF LeadsTo, AccountsTypeOK
  <1>4. \A b \in Account : Exists(b) => Exists(b)'
    BY <1>1, <1>2, AccountsAssumption DEF Exists, AccountsTypeOK
  <1>5. QED
    BY <1>1, <1>2, <1>3, <1>4, AccountsAssumption DEF Persists, Exists, LeadsTo, AccountsTypeOK

LEMMA DropKeeps ==
    ASSUME AccountsTypeOK, NEW r \in Request, UnlinkDrop(r)
    PROVE  Persists
  BY AccountsAssumption DEF Persists, UnlinkDrop, LeadsTo, Exists, AccountsTypeOK

LEMMA StepPersists ==
    ASSUME AccountsInv, NEW r \in Request, AskStep(r) \/ WorkStep(r)
    PROVE  Persists
  <1>1. CASE SaveCommits(r)
    BY <1>1, SaveOwns DEF AccountsInv, Sound, SaveCommits, At
  <1>2. ASSUME NEW a \in Account, ResolveCreates(r, a)
        PROVE  Persists
    BY <1>2, CreateOwns DEF AccountsInv, Sound, ResolveCreates, At
  <1>3. CASE UnlinkDrop(r)
    BY <1>3, DropKeeps DEF AccountsInv
  <1>4. CASE /\ ~SaveCommits(r) /\ ~UnlinkDrop(r)
             /\ \A a \in Account : ~ResolveCreates(r, a)
    BY <1>4, QuietSteps DEF Persists, LeadsTo, Exists
  <1>5. QED
    BY <1>1, <1>2, <1>3, <1>4

\* What the other requests rely on stays true.
LEMMA OthersStaySound ==
    ASSUME Persists, NEW q \in Ask, Sound(q)
    PROVE  Sound(q)'
  <1>1. Keys(q.row) \subseteq Key /\ Proved(q) \ {NoKey} \subseteq Key
    BY RowOps DEF Ask, Proved, Key, Keys, Row
  <1>2. q.acct \in Account /\ Owns(q.acct, q.row) => Owns(q.acct, q.row)'
    BY <1>1 DEF Owns, Persists
  <1>3. q.acct \in Account /\ Backed(q) => Backed(q)'
    BY <1>1 DEF Backed, Persists
  <1>4. q.key \in Key /\ q.acct \in Account /\ LeadsTo(q.key, q.acct)
          => LeadsTo(q.key, q.acct)'
    BY DEF Persists
  <1>5. q.acct \in Account /\ Exists(q.acct) => Exists(q.acct)'
    BY DEF Persists
  <1>6. q.acct \in Account \cup {NoAccount}
    BY DEF Ask
  <1>7. QED
    BY <1>2, <1>3, <1>4, <1>5, <1>6 DEF Sound

-----------------------------------------------------------------------------
(* What the request itself relies on next *)

NextAsk(r) ==
    \E q \in Ask \cup {Idle} :
       req' = [req EXCEPT ![r] = q] /\ (q # Idle => Sound(q)')

LEMMA SoundNow ==
    ASSUME NEW r \in Request, Persists, NEW q \in Ask, Sound(q),
           req' = [req EXCEPT ![r] = q]
    PROVE  NextAsk(r)
  BY OthersStaySound DEF NextAsk

LEMMA IdleNow ==
    ASSUME NEW r \in Request, req' = [req EXCEPT ![r] = Idle]
    PROVE  NextAsk(r)
  BY DEF NextAsk

\* A request at a stage, as its handler sees it.
LEMMA Held ==
    ASSUME AccountsInv, NEW r \in Request, req[r] # Idle
    PROVE  req[r] \in Ask /\ Sound(req[r]) /\ req[r].row \in Row
  BY DEF AccountsInv, AccountsTypeOK, Ask

LEMMA AskNext ==
    ASSUME AccountsInv, NEW r \in Request, AskStep(r), Persists
    PROVE  NextAsk(r)
  <1>1. ASSUME NEW a \in Account, NewAnonymous(r, a) \/ TouchOwn(r, a)
        PROVE  NextAsk(r)
    <2>1. PICK stage \in {"save", "load"}, op \in {"new", "touch"} :
            req' = [req EXCEPT ![r] = Asked(stage, op, a, NoKey)]
      BY <1>1 DEF NewAnonymous, TouchOwn, Begins
    <2>2. Asked(stage, op, a, NoKey) \in Ask
      BY Asking DEF Op
    <2>3. Sound(Asked(stage, op, a, NoKey))
      BY DEF Sound, Asked
    <2>4. QED
      BY <2>1, <2>2, <2>3, SoundNow
  <1>2. ASSUME NEW k \in Key, NEW m \in Email \cup {NoKey},
               NEW own \in Account \cup {NoAccount}, SignInFind(r, k, m, own)
        PROVE  NextAsk(r)
    <2> DEFINE stage == IF index[k] = NoAccount THEN "decide" ELSE "load"
    <2> DEFINE q == [Asked(stage, "login", index[k], k) EXCEPT !.own = own, !.mail = m]
    <2>1. req' = [req EXCEPT ![r] = q]
      BY <1>2 DEF SignInFind, Begins
    <2>2. index[k] \in Account \cup {NoAccount}
      BY DEF AccountsInv, AccountsTypeOK
    <2>3. Asked(stage, "login", index[k], k) \in Ask
      BY <2>2, Asking DEF Op
    <2>4. q \in Ask
      BY <2>3 DEF Ask
    <2>5. /\ q.at = stage /\ q.op = "login" /\ q.acct = index[k] /\ q.key = k
          /\ q.mail = m
      BY DEF Asked
    <2>6. k \in Email => m = NoKey
      BY <1>2 DEF SignInFind
    <2>7. Sound(q)
      BY <2>2, <2>5, <2>6 DEF Sound, LeadsTo
    <2>8. QED
      BY <2>1, <2>4, <2>7, SoundNow
  <1>3. ASSUME NEW a \in Account, NEW k \in External,
               LinkOwn(r, a, k) \/ BotLink(r, a, k)
        PROVE  NextAsk(r)
    <2>1. PICK op \in {"link", "bot"} : req' = [req EXCEPT ![r] = Asked("load", op, a, k)]
      BY <1>3 DEF LinkOwn, BotLink, Begins
    <2>2. Asked("load", op, a, k) \in Ask
      BY Asking DEF Op, Key
    <2>3. Sound(Asked("load", op, a, k))
      BY DEF Sound, Asked, Key
    <2>4. QED
      BY <2>1, <2>2, <2>3, SoundNow
  <1>4. ASSUME NEW a \in Account, NEW x \in Chat, UnlinkCheck(r, a, x)
        PROVE  NextAsk(r)
    <2>1. req' = [req EXCEPT ![r] = Asked("unbind", "unlink", a, x)]
      BY <1>4 DEF UnlinkCheck, Begins
    <2>2. Asked("unbind", "unlink", a, x) \in Ask
      BY Asking, AccountsAssumption DEF Op, Key
    <2>3. Sound(Asked("unbind", "unlink", a, x))
      BY DEF Sound, Asked
    <2>4. QED
      BY <2>1, <2>2, <2>3, SoundNow
  <1>5. ASSUME NEW k \in External, NEW m \in Email \cup {NoKey}, ResolveFind(r, k, m)
        PROVE  NextAsk(r)
    <2>1. PICK b \in Account \cup {NoAccount}, row \in Row :
            req' = [req EXCEPT ![r] =
                     [Asked("resolve", "resolve", b, k) EXCEPT !.mail = m, !.row = row]]
      <3> DEFINE b == IF m = NoKey THEN NoAccount ELSE index[m]
      <3>1. b \in Account \cup {NoAccount}
        BY DEF AccountsInv, AccountsTypeOK, Key
      <3>2. PICK row \in (IF b = NoAccount THEN {Blank} ELSE Copies(b)) :
              req' = [req EXCEPT ![r] =
                     [Asked("resolve", "resolve", b, k) EXCEPT !.mail = m, !.row = row]]
        BY <1>5 DEF ResolveFind, Begins
      <3>3. row \in Row
        BY <3>1, <3>2, BlankRow, CopiesAreRows DEF AccountsInv
      <3>4. QED
        BY <3>1, <3>2, <3>3
    <2> DEFINE q == [Asked("resolve", "resolve", b, k) EXCEPT !.mail = m, !.row = row]
    <2>2. Asked("resolve", "resolve", b, k) \in Ask
      BY Asking DEF Op, Key
    <2>3. q \in Ask
      BY <2>2 DEF Ask
    <2>4. q.at = "resolve" /\ q.op = "resolve" /\ q.key = k
      BY DEF Asked
    <2>5. Sound(q)
      BY <2>4 DEF Sound, Key
    <2>6. QED
      BY <2>1, <2>3, <2>5, SoundNow
  <1>6. QED
    BY <1>1, <1>2, <1>3, <1>4, <1>5, AccountsAssumption DEF AskStep

LEMMA LoadNext ==
    ASSUME AccountsInv, NEW r \in Request, Persists,
           LoadOwn(r) \/ LoadLogin(r) \/ LoadJoin(r) \/ LoadResolved(r)
    PROVE  NextAsk(r)
  <1> DEFINE q == req[r]
  <1>1. q \in Ask /\ Sound(q) /\ q.row \in Row /\ q.at = "load" /\ q.acct \in Account
    BY Held DEF LoadOwn, LoadLogin, LoadJoin, LoadResolved, At, Sound
  <1>2. \A row \in Copies(q.acct) : row \in Row
    BY <1>1, CopiesAreRows DEF AccountsInv
  <1>3. CASE LoadOwn(r)
    <2>1. PICK row \in Copies(q.acct) :
            req' = [req EXCEPT ![r] = [q EXCEPT !.at = "save", !.row =
                     CASE q.op = "touch" -> row
                       [] q.op = "unlink" -> [row EXCEPT !.ids = @ \ {q.key}]
                       [] OTHER -> Linked(row, q.key)]]
      BY <1>3 DEF LoadOwn, Goes
    <2>2. PICK new \in Row : /\ req' = [req EXCEPT ![r] = [q EXCEPT !.at = "save", !.row = new]]
                             /\ q.op = "bymail" => q.key \in Keys(new)
      <3>0. row \in Row /\ q.op \in {"link", "bot", "bymail", "unlink", "touch"}
        BY <1>2, <1>3, <2>1 DEF LoadOwn
      <3>1. CASE q.op = "touch"
        BY <2>1, <3>0, <3>1
      <3>2. CASE q.op = "unlink"
        <4>1. [row EXCEPT !.ids = @ \ {q.key}] \in Row
          BY <3>0 DEF Row
        <4>2. QED
          BY <2>1, <3>2, <4>1
      <3>3. CASE q.op \in {"link", "bot", "bymail"}
        <4>1. q.key \in Key
          BY <1>1, <3>3 DEF Sound
        <4>2. Linked(row, q.key) \in Row
          BY <3>0, <4>1, RowOps
        <4>3. q.op = "bymail" => q.key \in Keys(Linked(row, q.key))
          BY <3>0, <4>1, RowOps
        <4>4. QED
          BY <2>1, <3>3, <4>2, <4>3
      <3>4. QED
        BY <3>0, <3>1, <3>2, <3>3
    <2> DEFINE p == [q EXCEPT !.at = "save", !.row = new]
    <2>3. p \in Ask
      BY <1>1 DEF Ask
    <2>4. /\ p.at = "save" /\ p.row = new /\ p.op = q.op /\ p.acct = q.acct
          /\ p.key = q.key /\ p.mail = q.mail
      BY <1>1 DEF Ask
    <2>5. q.op \in {"link", "bot", "bymail", "unlink", "touch"}
      BY <1>3 DEF LoadOwn
    <2>6. Sound(p)
      BY <1>1, <2>2, <2>4, <2>5 DEF Sound
    <2>7. QED
      BY <2>2, <2>3, <2>6, SoundNow
  <1>4. CASE LoadLogin(r)
    <2>1. PICK row \in Copies(q.acct) :
            req' = [req EXCEPT ![r] =
                [q EXCEPT !.at = IF q.mail = NoKey THEN "save" ELSE "decide",
                          !.own = NoAccount, !.row = row]]
      BY <1>4 DEF LoadLogin, Goes
    <2> DEFINE p == [q EXCEPT !.at = IF q.mail = NoKey THEN "save" ELSE "decide",
                              !.own = NoAccount, !.row = row]
    <2>2. p \in Ask
      BY <1>1, <1>2 DEF Ask
    <2>3. /\ p.at = (IF q.mail = NoKey THEN "save" ELSE "decide") /\ p.op = q.op
          /\ p.acct = q.acct /\ p.key = q.key /\ p.mail = q.mail /\ q.op = "login"
      BY <1>1, <1>4 DEF Ask, LoadLogin
    <2>4. Sound(p)
      BY <1>1, <2>3 DEF Sound
    <2>5. QED
      BY <2>1, <2>2, <2>4, SoundNow
  <1>5. CASE LoadJoin(r)
    <2>1. PICK row \in Copies(q.acct) :
            \/ req' = [req EXCEPT ![r] = [q EXCEPT !.at = "save", !.row = Joined(q, row)]]
            \/ req' = [req EXCEPT ![r] = Idle]
      BY <1>5 DEF LoadJoin, Goes, GivesUp
    <2> DEFINE p == [q EXCEPT !.at = "save", !.row = Joined(q, row)]
    <2>2. q.op = "join" /\ q.key \in Key /\ (q.key \in Email => q.mail = NoKey)
      BY <1>1, <1>5 DEF LoadJoin, Sound
    <2>3. /\ Joined(q, row) \in Row
          /\ {q.key, q.mail} \ {NoKey} \subseteq Keys(Joined(q, row))
      BY <1>1, <1>2, <2>2, JoinedRow
    <2>4. p \in Ask
      BY <1>1, <2>3 DEF Ask
    <2>5. /\ p.at = "save" /\ p.op = "join" /\ p.acct = q.acct /\ p.key = q.key
          /\ p.mail = q.mail /\ p.row = Joined(q, row)
      BY <1>1, <2>2 DEF Ask
    <2>6. Sound(p)
      BY <1>1, <2>2, <2>3, <2>5 DEF Sound, Proved
    <2>7. QED
      BY <2>1, <2>4, <2>6, SoundNow, IdleNow
  <1>6. CASE LoadResolved(r)
    <2>1. PICK row \in Copies(q.acct) :
            \/ /\ q.mail # NoKey
               /\ req' = [req EXCEPT ![r] =
                            [q EXCEPT !.at = "save", !.row = WithMail(row, q.mail)]]
            \/ req' = [req EXCEPT ![r] = Idle]
      BY <1>6 DEF LoadResolved, Goes, GivesUp, Answers
    <2> DEFINE p == [q EXCEPT !.at = "save", !.row = WithMail(row, q.mail)]
    <2>2. WithMail(row, q.mail) \in Row
      BY <1>1, <1>2 DEF WithMail, Row, Ask
    <2>3. p \in Ask
      BY <1>1, <2>2 DEF Ask
    <2>4. /\ p.at = "save" /\ p.op = q.op /\ p.acct = q.acct /\ p.key = q.key
          /\ p.mail = q.mail /\ q.op = "resolve"
      BY <1>1, <1>6 DEF Ask, LoadResolved
    <2>5. Sound(p)
      BY <1>1, <2>4 DEF Sound
    <2>6. QED
      BY <2>1, <2>3, <2>5, SoundNow, IdleNow
  <1>7. QED
    BY <1>3, <1>4, <1>5, <1>6

LEMMA DecideNext ==
    ASSUME AccountsInv, NEW r \in Request, Persists,
           DecideKnown(r) \/ DecideByMail(r) \/ DecideJoin(r)
    PROVE  NextAsk(r)
  <1> DEFINE q == req[r]
  <1>1. /\ q \in Ask /\ Sound(q) /\ q.row \in Row /\ q.at = "decide" /\ q.op = "login"
        /\ q.key \in Key /\ (q.key \in Email => q.mail = NoKey)
    BY Held DEF DecideKnown, DecideByMail, DecideJoin, At, Sound
  <1>2. CASE DecideKnown(r)
    <2>1. \/ req' = [req EXCEPT ![r] = [q EXCEPT !.at = "save", !.row = WithMail(@, q.mail)]]
          \/ req' = [req EXCEPT ![r] = Idle]
      BY <1>2 DEF DecideKnown, Goes, GivesUp
    <2> DEFINE p == [q EXCEPT !.at = "save", !.row = WithMail(@, q.mail)]
    <2>2. /\ WithMail(q.row, q.mail) \in Row
          /\ q.mail # NoKey => q.mail \in Keys(WithMail(q.row, q.mail))
      BY <1>1, RowOps DEF Ask
    <2>3. p \in Ask
      BY <1>1, <2>2 DEF Ask
    <2>4. /\ p.at = "save" /\ p.op = "login" /\ p.acct = q.acct /\ p.key = q.key
          /\ p.mail = q.mail /\ p.row = WithMail(q.row, q.mail)
      BY <1>1 DEF Ask
    <2>5. q.acct \in Account
      BY <1>1, <1>2 DEF DecideKnown, Ask
    <2>6. Sound(p)
      BY <1>1, <2>2, <2>4, <2>5, AccountsAssumption DEF Sound
    <2>7. QED
      BY <2>1, <2>3, <2>6, SoundNow, IdleNow
  <1>3. CASE DecideByMail(r)
    <2> DEFINE p == [q EXCEPT !.at = "load", !.op = "bymail", !.own = NoAccount,
                              !.acct = index[q.mail]]
    <2>1. req' = [req EXCEPT ![r] = p] /\ q.mail # NoKey /\ index[q.mail] # NoAccount
      BY <1>3 DEF DecideByMail, Goes
    <2>2. index[q.mail] \in Account
      BY <1>1, <2>1 DEF AccountsInv, AccountsTypeOK, Ask, Key
    <2>3. p \in Ask
      BY <1>1, <2>2 DEF Ask, Op
    <2>4. /\ p.at = "load" /\ p.op = "bymail" /\ p.acct \in Account /\ p.key = q.key
      BY <1>1, <2>2 DEF Ask
    <2>5. Sound(p)
      BY <1>1, <2>4 DEF Sound
    <2>6. QED
      BY <2>1, <2>3, <2>5, SoundNow
  <1>4. CASE DecideJoin(r)
    <2> DEFINE j == [q EXCEPT !.op = "join", !.own = NoAccount]
    <2>1. /\ j \in Ask /\ j.op = "join" /\ j.key = q.key /\ j.mail = q.mail
          /\ j.at = "decide" /\ j.row = q.row /\ j.acct = q.acct
      BY <1>1 DEF Ask, Op
    <2>2. PICK a \in Account :
            \/ req' = [req EXCEPT ![r] = [j EXCEPT !.at = "load", !.acct = a]]
            \/ req' = [req EXCEPT ![r] =
                         [j EXCEPT !.at = "save", !.acct = a, !.row = Joined(j, Blank)]]
      <3>1. q.own \in Account \cup {NoAccount}
        BY <1>1 DEF Ask
      <3>2. QED
        BY <1>4, <3>1 DEF DecideJoin, Goes
    <2>3. CASE req' = [req EXCEPT ![r] = [j EXCEPT !.at = "load", !.acct = a]]
      <3> DEFINE p == [j EXCEPT !.at = "load", !.acct = a]
      <3>1. p \in Ask
        BY <2>1 DEF Ask
      <3>2. p.at = "load" /\ p.op = "join" /\ p.acct = a /\ p.key = q.key /\ p.mail = q.mail
        BY <2>1 DEF Ask
      <3>3. Sound(p)
        BY <1>1, <3>2 DEF Sound
      <3>4. QED
        BY <2>3, <3>1, <3>3, SoundNow
    <2>4. CASE req' = [req EXCEPT ![r] =
                         [j EXCEPT !.at = "save", !.acct = a, !.row = Joined(j, Blank)]]
      <3> DEFINE p == [j EXCEPT !.at = "save", !.acct = a, !.row = Joined(j, Blank)]
      <3>1. /\ Joined(j, Blank) \in Row
            /\ {q.key, q.mail} \ {NoKey} \subseteq Keys(Joined(j, Blank))
        BY <1>1, <2>1, BlankRow, JoinedRow
      <3>2. p \in Ask
        BY <2>1, <3>1 DEF Ask
      <3>3. /\ p.at = "save" /\ p.op = "join" /\ p.acct = a /\ p.key = q.key
            /\ p.mail = q.mail /\ p.row = Joined(j, Blank)
        BY <2>1 DEF Ask
      <3>4. Sound(p)
        BY <1>1, <3>1, <3>3 DEF Sound, Proved
      <3>5. QED
        BY <2>4, <3>2, <3>4, SoundNow
    <2>5. QED
      BY <2>2, <2>3, <2>4
  <1>5. QED
    BY <1>2, <1>3, <1>4

\* After the commit the copy is the row, and every proof of the request holds.
LEMMA CommitSound ==
    ASSUME AccountsInv, NEW r \in Request, Persists, SaveCommits(r),
           NEW q \in Ask, q = req[r], NEW p \in Ask, p = [q EXCEPT !.at = "cache"]
    PROVE  Sound(p)'
  <1>1. Sound(q) /\ q.row \in Row /\ q.at = "save" /\ q.acct \in Account
    BY Held DEF SaveCommits, At, Sound
  <1>2. /\ p.at = "cache" /\ p.op = q.op /\ p.acct = q.acct /\ p.key = q.key
        /\ p.mail = q.mail /\ p.row = q.row
    BY DEF Ask
  <1>3. Keys(q.row) \subseteq Key
    BY <1>1 DEF Keys, Row, Key
  <1>4. rows'[q.acct] # NoRow /\ \A k \in Keys(q.row) : LeadsTo(k, q.acct)'
    BY <1>1, <1>3, SaveOwns DEF AccountsInv, LeadsTo
  <1>5. Exists(p.acct)' /\ Owns(p.acct, p.row)'
    BY <1>2, <1>4 DEF Exists, Owns
  <1>6. \A k \in Key : LeadsTo(k, q.acct) => LeadsTo(k, q.acct)'
    BY <1>1 DEF Persists
  <1>7. Backed(p)'
    <2>1. CASE q.op \in {"login", "resolve"}
      <3>1. LeadsTo(q.key, q.acct) /\ q.key \in Key
        BY <1>1, <2>1, AccountsAssumption DEF Sound
      <3>2. q.op = "login" /\ q.mail # NoKey => q.mail \in Keys(q.row)
        BY <1>1 DEF Sound
      <3>3. QED
        BY <1>2, <1>4, <1>6, <2>1, <3>1, <3>2 DEF Backed, Proved
    <2>2. CASE q.op = "welcome"
      <3>1. Backed(q) /\ Proved(q) = {q.key, q.mail} /\ Proved(p) = {q.key, q.mail}
        BY <1>1, <1>2, <2>2 DEF Sound, Proved
      <3>2. {q.key, q.mail} \ {NoKey} \subseteq Key
        BY DEF Ask, Key
      <3>3. QED
        BY <1>2, <1>6, <3>1, <3>2 DEF Backed
    <2>3. CASE q.op \in {"join", "bymail"}
      <3>1. Proved(p) \ {NoKey} \subseteq Keys(q.row)
        BY <1>1, <1>2, <2>3 DEF Sound, Proved
      <3>2. QED
        BY <1>2, <1>4, <3>1 DEF Backed
    <2>4. CASE q.op \notin {"login", "resolve", "welcome", "join", "bymail"}
      BY <1>2, <2>4 DEF Backed, Proved
    <2>5. QED
      BY <2>1, <2>2, <2>3, <2>4
  <1>8. QED
    BY <1>1, <1>2, <1>5, <1>7 DEF Sound

LEMMA CommitNext ==
    ASSUME AccountsInv, NEW r \in Request, Persists, SaveCommits(r)
    PROVE  NextAsk(r)
  <1>1. req[r] \in Ask
    BY Held DEF SaveCommits, At
  <1>2. PICK q \in Ask : q = req[r]
    BY <1>1
  <1>3. [q EXCEPT !.at = "cache"] \in Ask
    BY DEF Ask
  <1>4. PICK p \in Ask : p = [q EXCEPT !.at = "cache"]
    BY <1>3
  <1>5. req' = [req EXCEPT ![r] = p]
    BY <1>2, <1>4 DEF SaveCommits, Goes
  <1>6. QED
    BY <1>2, <1>4, <1>5, CommitSound DEF NextAsk

LEMMA CreateNext ==
    ASSUME AccountsInv, NEW r \in Request, Persists, NEW a \in Account,
           ResolveCreates(r, a)
    PROVE  NextAsk(r)
  <1>1. req[r] \in Ask
    BY Held DEF ResolveCreates, At
  <1>2. PICK q \in Ask : q = req[r]
    BY <1>1
  <1>3. q.at = "resolve" /\ q.op = "resolve" /\ q.key \in Key
    BY <1>2, Held DEF ResolveCreates, At, Sound
  <1>4. /\ rows'[a] = [mail |-> q.mail, ids |-> {q.key}] /\ rows'[a] \in Row
        /\ Exists(a)' /\ index'[q.key] = a /\ (q.mail # NoKey => q.mail \in loose')
    BY <1>2, <1>3, CreateOwns DEF AccountsInv
  <1>5. PICK row \in Row : row = rows'[a]
    BY <1>4
  <1>6. [q EXCEPT !.at = "cache", !.acct = a, !.row = row] \in Ask
    BY DEF Ask
  <1>7. PICK p \in Ask : p = [q EXCEPT !.at = "cache", !.acct = a, !.row = row]
    BY <1>6
  <1>8. /\ p.at = "cache" /\ p.op = "resolve" /\ p.acct = a /\ p.key = q.key
        /\ p.row = [mail |-> q.mail, ids |-> {q.key}]
    BY <1>3, <1>4, <1>5, <1>7 DEF Ask
  <1>9. Owns(p.acct, p.row)' /\ Backed(p)'
    BY <1>4, <1>8 DEF Owns, Backed, Keys, Proved, LeadsTo
  <1>10. Sound(p)'
    BY <1>3, <1>4, <1>8, <1>9 DEF Sound
  <1>11. req' = [req EXCEPT ![r] = p]
    BY <1>2, <1>5, <1>7 DEF ResolveCreates, Goes
  <1>12. QED
    BY <1>10, <1>11 DEF NextAsk

LEMMA FoundNext ==
    ASSUME AccountsInv, NEW r \in Request, Persists, ResolveFound(r)
    PROVE  NextAsk(r)
  <1> DEFINE q == req[r]
  <1>1. /\ q \in Ask /\ q.row \in Row /\ q.at = "resolve" /\ q.op = "resolve"
        /\ q.key \in Key
    BY Held DEF ResolveFound, At, Sound
  <1>2. CASE index[q.key] # NoAccount /\ q.acct \in {NoAccount, index[q.key]}
    <2> DEFINE p == [q EXCEPT !.at = "load", !.acct = index[q.key], !.row = Blank]
    <2>1. index[q.key] \in Account
      BY <1>1, <1>2 DEF AccountsInv, AccountsTypeOK
    <2>2. p \in Ask
      BY <1>1, <2>1, BlankRow DEF Ask
    <2>3. p.at = "load" /\ p.op = "resolve" /\ p.acct = index[q.key] /\ p.key = q.key
      BY <1>1 DEF Ask
    <2>4. Sound(p)
      BY <1>1, <2>1, <2>3 DEF Sound, LeadsTo
    <2>5. req' = [req EXCEPT ![r] = p]
      BY <1>2 DEF ResolveFound, Goes
    <2>6. QED
      BY <2>2, <2>4, <2>5, SoundNow
  <1>3. CASE index[q.key] # NoAccount /\ q.acct \notin {NoAccount, index[q.key]}
    BY <1>3, IdleNow DEF ResolveFound, Goes
  <1>4. CASE index[q.key] = NoAccount
    <2> DEFINE p == [q EXCEPT !.at = "save", !.op = "bymail", !.row = Linked(@, q.key)]
    <2>1. Linked(q.row, q.key) \in Row /\ q.key \in Keys(Linked(q.row, q.key))
      BY <1>1, RowOps
    <2>2. p \in Ask
      BY <1>1, <2>1 DEF Ask, Op
    <2>3. /\ p.at = "save" /\ p.op = "bymail" /\ p.acct = q.acct /\ p.key = q.key
          /\ p.row = Linked(q.row, q.key)
      BY <1>1 DEF Ask
    <2>4. q.acct \in Account
      BY <1>1, <1>4 DEF ResolveFound, Ask
    <2>5. Sound(p)
      BY <1>1, <2>1, <2>3, <2>4 DEF Sound
    <2>6. req' = [req EXCEPT ![r] = p]
      BY <1>4 DEF ResolveFound, Goes
    <2>7. QED
      BY <2>2, <2>5, <2>6, SoundNow
  <1>5. QED
    BY <1>2, <1>3, <1>4

LEMMA RestNext ==
    ASSUME AccountsInv, NEW r \in Request, Persists,
           UnlinkBot(r) \/ SaveRefused(r) \/ CacheCopy(r) \/ UnlinkDrop(r)
    PROVE  NextAsk(r)
  <1> DEFINE q == req[r]
  <1>1. q \in Ask /\ Sound(q)
    BY Held DEF UnlinkBot, SaveRefused, CacheCopy, UnlinkDrop, At
  <1>2. CASE UnlinkBot(r)
    <2> DEFINE p == [q EXCEPT !.at = "load"]
    <2>1. p \in Ask
      BY <1>1 DEF Ask
    <2>2. /\ p.at = "load" /\ p.op = q.op /\ p.acct = q.acct /\ p.key = q.key
          /\ q.op = "unlink"
      BY <1>1, <1>2 DEF Ask, UnlinkBot, At, Sound
    <2>3. Sound(p)
      BY <1>1, <1>2, <2>2 DEF Sound, UnlinkBot, At
    <2>4. QED
      BY <1>2, <2>1, <2>3, SoundNow DEF UnlinkBot, Goes
  <1>3. CASE SaveRefused(r) \/ CacheCopy(r)
    <2>1. \/ req' = [req EXCEPT ![r] = Idle]
          \/ /\ q.op = "unlink"
             /\ req' = [req EXCEPT ![r] = [q EXCEPT !.at = "drop"]]
          \/ /\ q.op = "join" /\ q.at = "cache"
             /\ req' = [req EXCEPT ![r] = [q EXCEPT !.at = "save", !.op = "welcome"]]
      BY <1>3 DEF SaveRefused, CacheCopy, Answers, GivesUp, Goes, At
    <2>2. CASE /\ q.op = "unlink"
               /\ req' = [req EXCEPT ![r] = [q EXCEPT !.at = "drop"]]
      <3> DEFINE p == [q EXCEPT !.at = "drop"]
      <3>1. p \in Ask
        BY <1>1 DEF Ask
      <3>2. p.at = "drop" /\ p.op = "unlink" /\ p.key = q.key
        BY <1>1, <2>2 DEF Ask
      <3>3. Sound(p)
        BY <1>1, <2>2, <3>2 DEF Sound
      <3>4. QED
        BY <2>2, <3>1, <3>3, SoundNow
    <2>3. CASE /\ q.op = "join" /\ q.at = "cache"
               /\ req' = [req EXCEPT ![r] = [q EXCEPT !.at = "save", !.op = "welcome"]]
      <3> DEFINE p == [q EXCEPT !.at = "save", !.op = "welcome"]
      <3>1. p \in Ask
        BY <1>1 DEF Ask, Op
      <3>2. /\ p.at = "save" /\ p.op = "welcome" /\ p.key = q.key /\ p.mail = q.mail
            /\ p.acct = q.acct
        BY <1>1 DEF Ask
      <3>3. Backed(p)
        BY <1>1, <2>3, <3>2 DEF Sound, Backed, Proved
      <3>4. Sound(p)
        BY <1>1, <2>3, <3>2, <3>3 DEF Sound
      <3>5. QED
        BY <2>3, <3>1, <3>4, SoundNow
    <2>4. QED
      BY <2>1, <2>2, <2>3, IdleNow
  <1>4. CASE UnlinkDrop(r)
    BY <1>4, IdleNow DEF UnlinkDrop, Goes
  <1>5. QED
    BY <1>2, <1>3, <1>4

LEMMA StepNext ==
    ASSUME AccountsInv, NEW r \in Request, AskStep(r) \/ WorkStep(r)
    PROVE  NextAsk(r)
  <1>1. Persists
    BY StepPersists
  <1>2. QED
    BY <1>1, AskNext, LoadNext, DecideNext, CommitNext, CreateNext, FoundNext, RestNext
    DEF WorkStep

-----------------------------------------------------------------------------
(* Sessions, rows and cached copies *)

LEMMA SessionsStep ==
    ASSUME AccountsInv, NEW r \in Request, AskStep(r) \/ WorkStep(r)
    PROVE  \/ UNCHANGED signedIn
           \/ /\ Answers(r) /\ req[r] \in Ask
              /\ req[r].acct \in Account /\ Backed(req[r])
  <1>1. CASE AskStep(r)
    BY <1>1 DEF AskStep, NewAnonymous, TouchOwn, SignInFind, LinkOwn, BotLink,
       UnlinkCheck, ResolveFind, histories
  <1>2. CASE LoadResolved(r)
    <2>1. req[r] \in Ask /\ Sound(req[r]) /\ req[r].at = "load" /\ req[r].op = "resolve"
      BY <1>2, Held DEF LoadResolved, At
    <2>2. req[r].acct \in Account /\ Backed(req[r])
      BY <2>1, AccountsAssumption DEF Sound, Backed, Proved
    <2>3. QED
      BY <1>2, <2>1, <2>2 DEF LoadResolved, GivesUp
  <1>3. CASE SaveRefused(r)
    <2>1. req[r] \in Ask /\ Sound(req[r]) /\ req[r].at = "save"
      BY <1>3, Held DEF SaveRefused, At
    <2>2. IgnoresRefusal(req[r]) => Backed(req[r])
      BY <2>1, AccountsAssumption DEF Sound, Backed, Proved, IgnoresRefusal
    <2>3. QED
      BY <1>3, <2>1, <2>2 DEF SaveRefused, GivesUp, Sound
  <1>4. CASE CacheCopy(r)
    <2>1. req[r] \in Ask /\ Sound(req[r]) /\ req[r].at = "cache"
      BY <1>4, Held DEF CacheCopy, At
    <2>2. QED
      BY <1>4, <2>1 DEF CacheCopy, Sound
  <1>5. CASE WorkStep(r) /\ ~LoadResolved(r) /\ ~SaveRefused(r) /\ ~CacheCopy(r)
    BY <1>5 DEF WorkStep, UnlinkBot, LoadOwn, LoadLogin, LoadJoin, DecideKnown,
       DecideByMail, DecideJoin, SaveCommits, ResolveCreates, ResolveFound, UnlinkDrop,
       GivesUp, histories
  <1>6. QED
    BY <1>1, <1>2, <1>3, <1>4, <1>5

LEMMA SessionsLead ==
    ASSUME AccountsInv, NEW r \in Request, AskStep(r) \/ WorkStep(r)
    PROVE  ProofLeadsToOneAccount'
  <1>1. Persists
    BY StepPersists
  <1>2. \A k \in Key, b \in Account : b \in signedIn'[k] => LeadsTo(k, b)
    <2>1. \A k \in Key, b \in Account : b \in signedIn[k] => LeadsTo(k, b)
      BY DEF AccountsInv, ProofLeadsToOneAccount, LeadsTo
    <2>2. CASE UNCHANGED signedIn
      BY <2>1, <2>2
    <2>3. CASE Answers(r) /\ req[r].acct \in Account /\ Backed(req[r])
      <3>1. \A k \in Key, b \in Account : b \in signedIn'[k] =>
              b \in signedIn[k] \/ (k \in Proved(req[r]) /\ b = req[r].acct)
        BY <2>3 DEF Answers
      <3>2. \A k \in Key : k # NoKey
        BY AccountsAssumption
      <3>3. QED
        BY <2>1, <2>3, <3>1, <3>2 DEF Backed
    <2>4. QED
      BY <2>2, <2>3, SessionsStep
  <1>3. \A k \in Key : signedIn'[k] \subseteq Account
    <2>1. \A k \in Key : signedIn[k] \subseteq Account
      BY DEF AccountsInv, AccountsTypeOK
    <2>2. QED
      BY <2>1, SessionsStep DEF Answers
  <1>4. \A k \in Key, b \in Account : b \in signedIn'[k] => k \in loose' \/ index'[k] = b
    BY <1>1, <1>2 DEF Persists, LeadsTo
  <1>5. QED
    BY <1>3, <1>4 DEF ProofLeadsToOneAccount

\* A row that existed and is not written still is its account's own.
LEMMA OwnsPersists ==
    ASSUME Persists, NEW a \in Account, NEW row \in Row, Owns(a, row)
    PROVE  Owns(a, row)'
  BY RowOps DEF Persists, Owns, Keys, Row, Key

LEMMA RowsOwn ==
    ASSUME AccountsInv
    PROVE  /\ \A a \in Account : Exists(a) => rows[a] \in Row /\ Owns(a, rows[a])
           /\ \A a \in Account : cached[a] # NoRow =>
                cached[a] \in Row /\ Exists(a) /\ Owns(a, cached[a])
  BY DEF AccountsInv, AccountsTypeOK, RowsAreIndexed, CachedCopiesAreOwn, Exists, Owns,
     LeadsTo

LEMMA RowsStep ==
    ASSUME AccountsInv, NEW r \in Request, AskStep(r) \/ WorkStep(r)
    PROVE  RowsAreIndexed'
  <1>1. Persists
    BY StepPersists
  <1>2. SUFFICES ASSUME NEW a \in Account, rows'[a] # NoRow
                 PROVE  \A k \in Keys(rows'[a]) : k \in loose' \/ index'[k] = a
    BY DEF RowsAreIndexed, Exists
  <1>3. CASE rows'[a] = rows[a]
    <2>1. rows[a] \in Row /\ Owns(a, rows[a])
      BY <1>2, <1>3, RowsOwn DEF Exists
    <2>2. PICK row \in Row : row = rows[a]
      BY <2>1
    <2>3. Owns(a, row)'
      BY <1>1, <2>1, <2>2, OwnsPersists
    <2>4. QED
      BY <1>3, <2>2, <2>3 DEF Owns, LeadsTo
  <1>4. CASE SaveCommits(r) /\ rows'[a] # rows[a]
    <2>1. req[r] \in Ask /\ req[r].row \in Row /\ req[r].acct \in Account
      BY <1>4, Held DEF SaveCommits, At, Sound
    <2>2. a = req[r].acct /\ rows'[a] = req[r].row
      BY <1>4, <2>1 DEF SaveCommits, AccountsInv, AccountsTypeOK
    <2>3. Keys(req[r].row) \subseteq Key
      BY <2>1 DEF Keys, Row, Key
    <2>4. QED
      BY <1>4, <2>1, <2>2, <2>3, SaveOwns DEF AccountsInv
  <1>5. ASSUME NEW b \in Account, ResolveCreates(r, b), rows'[a] # rows[a]
        PROVE  \A k \in Keys(rows'[a]) : k \in loose' \/ index'[k] = a
    <2>1. req[r].key \in Key
      BY <1>5, Held DEF ResolveCreates, At, Sound
    <2>2. a = b
      BY <1>5 DEF ResolveCreates, AccountsInv, AccountsTypeOK
    <2>3. /\ rows'[a] = [mail |-> req[r].mail, ids |-> {req[r].key}]
          /\ index'[req[r].key] = a
          /\ req[r].mail # NoKey => req[r].mail \in loose'
      BY <1>5, <2>1, <2>2, CreateOwns DEF AccountsInv
    <2>4. Keys(rows'[a]) = {req[r].key} \cup ({req[r].mail} \ {NoKey})
      BY <2>3 DEF Keys
    <2>5. QED
      BY <2>3, <2>4
  <1>6. CASE UnlinkDrop(r)
    BY <1>3, <1>6 DEF UnlinkDrop
  <1>7. QED
    BY <1>3, <1>4, <1>5, <1>6, QuietSteps

\* Only CacheCopy writes the cache.
LEMMA CachedWrites ==
    ASSUME NEW r \in Request, AskStep(r) \/ WorkStep(r)
    PROVE  CacheCopy(r) \/ UNCHANGED cached
  <1>1. CASE AskStep(r)
    BY <1>1 DEF AskStep, NewAnonymous, TouchOwn, SignInFind, LinkOwn, BotLink,
       UnlinkCheck, ResolveFind, stores
  <1>2. CASE WorkStep(r)
    BY <1>2 DEF WorkStep, UnlinkBot, LoadOwn, LoadLogin, LoadJoin, LoadResolved,
       DecideKnown, DecideByMail, DecideJoin, SaveCommits, SaveRefused,
       ResolveCreates, ResolveFound, UnlinkDrop, stores
  <1>3. QED
    BY <1>1, <1>2

LEMMA CachedStep ==
    ASSUME AccountsInv, NEW r \in Request, AskStep(r) \/ WorkStep(r)
    PROVE  CachedCopiesAreOwn'
  <1>1. Persists
    BY StepPersists
  <1>2. SUFFICES ASSUME NEW a \in Account, cached'[a] # NoRow
                 PROVE  /\ Exists(a)'
                        /\ \A k \in Keys(cached'[a]) : k \in loose' \/ index'[k] = a
    BY DEF CachedCopiesAreOwn, Exists
  <1>3. CASE cached'[a] = cached[a]
    <2>1. cached[a] \in Row /\ Exists(a) /\ Owns(a, cached[a])
      BY <1>2, <1>3, RowsOwn
    <2>2. PICK row \in Row : row = cached[a]
      BY <2>1
    <2>3. Owns(a, row)' /\ Exists(a)'
      BY <1>1, <2>1, <2>2, OwnsPersists DEF Persists
    <2>4. QED
      BY <1>3, <2>2, <2>3 DEF Owns, LeadsTo
  <1>4. CASE CacheCopy(r) /\ cached'[a] # cached[a]
    <2>1. /\ req[r] \in Ask /\ req[r].row \in Row /\ req[r].acct \in Account
          /\ Exists(req[r].acct) /\ Owns(req[r].acct, req[r].row)
      BY <1>4, Held DEF CacheCopy, At, Sound
    <2>2. a = req[r].acct /\ cached'[a] = req[r].row
      BY <1>4, <2>1 DEF CacheCopy, WritesCache, AccountsInv, AccountsTypeOK
    <2>3. PICK row \in Row : row = req[r].row
      BY <2>1
    <2>4. Owns(a, row)' /\ Exists(a)'
      BY <1>1, <2>1, <2>2, <2>3, OwnsPersists DEF Persists
    <2>5. QED
      BY <2>2, <2>3, <2>4 DEF Owns, LeadsTo
  <1>5. QED
    BY <1>3, <1>4, CachedWrites

-----------------------------------------------------------------------------
(* Types *)

LEMMA TypesStep ==
    ASSUME AccountsInv, NEW r \in Request, AskStep(r) \/ WorkStep(r)
    PROVE  AccountsTypeOK'
  <1> USE DEF AccountsInv, AccountsTypeOK
  <1>1. req' \in [Request -> Ask \cup {Idle}]
    BY StepNext DEF NextAsk
  <1>2. asked' \in 0..MaxAsked
    <2>1. asked' = asked \/ (asked' = asked + 1 /\ asked < MaxAsked)
      <3>1. CASE AskStep(r)
        BY <3>1 DEF AskStep, NewAnonymous, TouchOwn, SignInFind, LinkOwn, BotLink,
           UnlinkCheck, ResolveFind, Begins
      <3>2. CASE WorkStep(r)
        BY <3>2 DEF WorkStep, UnlinkBot, LoadOwn, LoadLogin, LoadJoin, LoadResolved,
           DecideKnown, DecideByMail, DecideJoin, SaveCommits, SaveRefused,
           ResolveCreates, ResolveFound, CacheCopy, UnlinkDrop, Answers, GivesUp, Goes
      <3>3. QED
        BY <3>1, <3>2
    <2>2. QED
      BY <2>1, AccountsAssumption
  <1>3. links' \in [Chat -> Account \cup {NoAccount}]
    <2>1. CASE AskStep(r)
      BY <2>1 DEF AskStep, NewAnonymous, TouchOwn, SignInFind, LinkOwn, BotLink,
         UnlinkCheck, ResolveFind, stores
    <2>2. CASE WorkStep(r)
      BY <2>2 DEF WorkStep, UnlinkBot, LoadOwn, LoadLogin, LoadJoin, LoadResolved,
         DecideKnown, DecideByMail, DecideJoin, SaveCommits, SaveRefused,
         ResolveCreates, ResolveFound, CacheCopy, UnlinkDrop, stores
    <2>3. QED
      BY <2>1, <2>2
  <1>4. signedIn' \in [Key -> SUBSET Account]
    BY SessionsStep DEF Answers
  <1>5. /\ rows' \in [Account -> Row \cup {NoRow}]
        /\ index' \in [Key -> Account \cup {NoAccount}]
        /\ loose' \subseteq Key
    <2>1. CASE SaveCommits(r)
      <3>1. req[r].row \in Row /\ req[r].acct \in Account
        BY <2>1, Held DEF SaveCommits, At, Sound
      <3>2. QED
        BY <2>1, <3>1 DEF SaveCommits, Indexes, histories
    <2>2. ASSUME NEW a \in Account, ResolveCreates(r, a)
          PROVE  /\ rows' \in [Account -> Row \cup {NoRow}]
                 /\ index' \in [Key -> Account \cup {NoAccount}]
                 /\ loose' \subseteq Key
      <3>1. req[r].key \in Key /\ req[r].mail \in Email \cup {NoKey}
        BY <2>2, Held DEF ResolveCreates, At, Sound, Ask
      <3>2. [mail |-> req[r].mail, ids |-> {req[r].key}] \in Row
        BY <3>1 DEF Row
      <3>3. QED
        BY <2>2, <3>1, <3>2 DEF ResolveCreates, Key
    <2>3. CASE UnlinkDrop(r)
      <3>1. req[r].key \in Key
        BY <2>3, Held, AccountsAssumption DEF UnlinkDrop, At, Sound, Key
      <3>2. QED
        BY <2>3, <3>1 DEF UnlinkDrop
    <2>4. QED
      BY <2>1, <2>2, <2>3, QuietSteps
  <1>6. cached' \in [Account -> Row \cup {NoRow}]
    <2>1. CASE CacheCopy(r)
      <3>1. req[r].row \in Row
        BY <2>1, Held DEF CacheCopy, At
      <3>2. QED
        BY <2>1, <3>1 DEF CacheCopy, WritesCache
    <2>2. QED
      BY <2>1, CachedWrites
  <1>7. QED
    BY <1>1, <1>2, <1>3, <1>4, <1>5, <1>6

-----------------------------------------------------------------------------
(* The invariant and what follows from it *)

LEMMA InvStep ==
    ASSUME AccountsInv, AccountsNext
    PROVE  AccountsInv'
  <1>1. PICK r \in Request : AskStep(r) \/ WorkStep(r)
    BY DEF AccountsNext
  <1>2. Persists
    BY <1>1, StepPersists
  <1>3. ASSUME NEW s \in Request, NEW p \in Ask, p = req'[s]
        PROVE  Sound(p)'
    <2>1. PICK q \in Ask \cup {Idle} :
            req' = [req EXCEPT ![r] = q] /\ (q # Idle => Sound(q)')
      BY <1>1, StepNext DEF NextAsk
    <2>2. req \in [Request -> Ask \cup {Idle}] /\ p # Idle
      BY AccountsAssumption DEF AccountsInv, AccountsTypeOK
    <2>3. CASE s = r
      <3>1. p = q
        BY <1>3, <2>1, <2>2, <2>3
      <3>2. QED
        BY <2>1, <2>2, <3>1
    <2>4. CASE s # r
      <3>1. p = req[s] /\ Sound(req[s])
        BY <1>3, <2>1, <2>2, <2>4 DEF AccountsInv
      <3>2. Sound(p)
        BY <3>1
      <3>3. QED
        BY <1>2, <3>2, OthersStaySound
    <2>5. QED
      BY <2>3, <2>4
  <1>4. AccountsTypeOK'
    BY <1>1, TypesStep
  <1>5. \A s \in Request : (req[s] # Idle => Sound(req[s]))'
    <2>1. SUFFICES ASSUME NEW s \in Request, req'[s] # Idle
                   PROVE  Sound(req[s])'
      OBVIOUS
    <2>2. PICK p \in Ask : p = req'[s]
      BY <1>4, <2>1 DEF AccountsTypeOK
    <2>3. Sound(p)'
      BY <1>3, <2>2
    <2>4. QED
      BY <2>2, <2>3 DEF Sound, Exists, Owns, Backed, LeadsTo
  <1>6. QED
    BY <1>1, <1>4, <1>5, RowsStep, CachedStep, SessionsLead DEF AccountsInv

LEMMA InvInit ==
    ASSUME AccountsInit
    PROVE  AccountsInv
  BY AccountsAssumption DEF AccountsInit, AccountsInv, AccountsTypeOK, RowsAreIndexed,
     CachedCopiesAreOwn, ProofLeadsToOneAccount, Exists

LEMMA InvStutter ==
    ASSUME AccountsInv, UNCHANGED accountVars
    PROVE  AccountsInv'
  BY DEF accountVars, stores, histories, AccountsInv, AccountsTypeOK, RowsAreIndexed,
     CachedCopiesAreOwn, ProofLeadsToOneAccount, Exists, Sound, Owns, Backed, LeadsTo

\* Every reachable state satisfies the invariant: what is bound stays bound, and
\* each handler's view of its account holds when it saves or answers, although
\* other handlers ran between its read and its write.
THEOREM AccountsInvariant == AccountsSpec => []AccountsInv
  <1>1. AccountsInit => AccountsInv
    BY InvInit
  <1>2. AccountsInv /\ [AccountsNext]_accountVars => AccountsInv'
    BY InvStep, InvStutter
  <1>3. QED
    BY <1>1, <1>2, PTL DEF AccountsSpec

\* The stores, the requests and the histories keep their types.
THEOREM AccountsTypes == AccountsSpec => []AccountsTypeOK
  <1>1. AccountsInv => AccountsTypeOK
    BY DEF AccountsInv
  <1>2. QED
    BY <1>1, AccountsInvariant, PTL

\* Racing sign-ins, resolutions and links never let one proof into two
\* accounts (a code, a wallet, a provider's account), but for keys whose index
\* row was removed by an unlink or never written by resolve.
THEOREM OneAccountPerProof == AccountsSpec => []ProofLeadsToOneAccount
  <1>1. AccountsInv => ProofLeadsToOneAccount
    BY DEF AccountsInv
  <1>2. QED
    BY <1>1, AccountsInvariant, PTL

\* Rows, and the copies in Valkey they are saved from, list no key that leads
\* to another account.
THEOREM RowsAndCopiesOwn == AccountsSpec => [](RowsAreIndexed /\ CachedCopiesAreOwn)
  <1>1. AccountsInv => RowsAreIndexed /\ CachedCopiesAreOwn
    BY DEF AccountsInv
  <1>2. QED
    BY <1>1, AccountsInvariant, PTL

\* What a handler may read from Valkey and save again is as much the account's own
\* as its row, however old the copy is.
THEOREM CopiesAreOwn == AccountsSpec => []CachedCopiesAreOwn
  <1>1. QED
    BY RowsAndCopiesOwn, PTL

LEMMA IndexStep ==
    ASSUME AccountsInv, NEW r \in Request, AskStep(r) \/ WorkStep(r),
           NEW k \in Key, index[k] # NoAccount, index'[k] # index[k]
    PROVE  index'[k] = NoAccount /\ k \in Chat
  <1>1. index \in [Key -> Account \cup {NoAccount}]
    BY DEF AccountsInv, AccountsTypeOK
  <1>2. ~SaveCommits(r)
    BY DEF SaveCommits, MaySave, Indexes
  <1>3. \A a \in Account : ~ResolveCreates(r, a)
    BY <1>1 DEF ResolveCreates
  <1>4. UnlinkDrop(r)
    BY <1>2, <1>3, QuietSteps
  <1>5. req[r].key \in Chat
    BY <1>4, Held DEF UnlinkDrop, At, Sound
  <1>6. QED
    BY <1>1, <1>4, <1>5 DEF UnlinkDrop

\* An index row never passes from one account to another, and only an unlink
\* removes one, a chat's: the refusals of save_account hold whatever the copy
\* that is saved was read from.
THEOREM IdentitiesStay == AccountsSpec => IdentityStaysPut
  <1>1. AccountsInv /\ [AccountsNext]_accountVars
          => [\A k \in Key : index[k] # NoAccount /\ index'[k] # index[k] =>
                index'[k] = NoAccount /\ k \in Chat]_accountVars
    BY IndexStep DEF AccountsNext
  <1>2. QED
    BY <1>1, AccountsInvariant, PTL DEF AccountsSpec, IdentityStaysPut

-----------------------------------------------------------------------------
(* Accounts implement the registry of identities *)

LEMMA CommitIsBind ==
    ASSUME AccountsInv, NEW r \in Request, SaveCommits(r)
    PROVE  /\ Keys(req[r].row) \subseteq Key /\ req[r].acct \in Account
           /\ Registry!Bind(Keys(req[r].row), req[r].acct)
  <1>1. req[r] \in Ask /\ req[r].at = "save" /\ Sound(req[r])
    BY Held DEF SaveCommits, At
  <1>2. Keys(req[r].row) \subseteq Key /\ req[r].acct \in Account
    BY <1>1 DEF Ask, Row, Keys, Key, Sound
  <1>3. UNCHANGED <<signedIn, loose>>
    BY DEF SaveCommits, histories
  <1>4. QED
    BY <1>2, <1>3 DEF SaveCommits, MaySave, Indexes, Registry!Bind

LEMMA CreateIsFound ==
    ASSUME AccountsInv, NEW r \in Request, NEW a \in Account, ResolveCreates(r, a)
    PROVE  \E k \in Key, other \in Key :
             Registry!Bind({k}, a) \/ Registry!Found(k, a, other)
  <1>1. req[r] \in Ask /\ req[r].key \in Key
    BY Held DEF ResolveCreates, At, Sound
  <1>2. index \in [Key -> Account \cup {NoAccount}]
    BY DEF AccountsInv, AccountsTypeOK
  <1>3. /\ index[req[r].key] = NoAccount /\ signedIn' = signedIn
        /\ index' = [index EXCEPT ![req[r].key] = a]
        /\ loose' = loose \cup ({req[r].mail} \ {NoKey})
    BY DEF ResolveCreates
  <1>4. CASE req[r].mail = NoKey
    <2>1. loose' = loose
      BY <1>3, <1>4
    <2>2. index' = [k \in Key |-> IF k \in {req[r].key} THEN a ELSE index[k]]
      BY <1>1, <1>2, <1>3
    <2>3. Registry!Bind({req[r].key}, a)
      BY <1>3, <2>1, <2>2 DEF Registry!Bind
    <2>4. QED
      BY <1>1, <2>3
  <1>5. CASE req[r].mail # NoKey
    <2>1. req[r].mail \in Key
      BY <1>1, <1>5 DEF Ask, Key
    <2>2. loose' = loose \cup {req[r].mail}
      BY <1>3, <1>5
    <2>3. Registry!Found(req[r].key, a, req[r].mail)
      BY <1>3, <2>2 DEF Registry!Found
    <2>4. QED
      BY <1>1, <2>1, <2>3
  <1>6. QED
    BY <1>4, <1>5

LEMMA DropIsRelease ==
    ASSUME AccountsInv, NEW r \in Request, UnlinkDrop(r)
    PROVE  UNCHANGED Registry!registryVars \/ \E k \in Chat : Registry!Release(k)
  <1>1. req[r].key \in Chat
    BY Held DEF UnlinkDrop, At, Sound
  <1>2. index \in [Key -> Account \cup {NoAccount}]
    BY DEF AccountsInv, AccountsTypeOK
  <1>3. CASE index[req[r].key] = NoAccount
    <2>1. index' = index
      BY <1>2, <1>3 DEF UnlinkDrop
    <2>2. QED
      BY <1>3, <2>1 DEF UnlinkDrop, Registry!registryVars
  <1>4. CASE index[req[r].key] # NoAccount
    BY <1>1, <1>4 DEF UnlinkDrop, Registry!Release
  <1>5. QED
    BY <1>3, <1>4

\* Whoever is let in is let into the account the key leads to by now.
LEMMA AnswerIsAdmit ==
    ASSUME AccountsInv, NEW r \in Request, Answers(r), UNCHANGED <<index, loose>>,
           Backed(req[r])
    PROVE  Registry!Admit(Proved(req[r]) \cap Key, req[r].acct)
  <1>1. \A k \in Proved(req[r]) \cap Key : k \in loose \/ index[k] = req[r].acct
    BY AccountsAssumption DEF Backed, LeadsTo
  <1>2. signedIn' = [k \in Key |-> IF k \in Proved(req[r]) \cap Key
                                   THEN signedIn[k] \cup {req[r].acct} ELSE signedIn[k]]
    BY DEF Answers
  <1>3. QED
    BY <1>1, <1>2 DEF Registry!Admit

LEMMA RegistryStep ==
    ASSUME AccountsInv, NEW r \in Request, AskStep(r) \/ WorkStep(r)
    PROVE  [Registry!RegistryNext]_(Registry!registryVars)
  <1>1. CASE SaveCommits(r)
    BY <1>1, CommitIsBind DEF Registry!RegistryNext
  <1>2. ASSUME NEW a \in Account, ResolveCreates(r, a)
        PROVE  Registry!RegistryNext
    <2>1. PICK k \in Key, other \in Key :
             Registry!Bind({k}, a) \/ Registry!Found(k, a, other)
      BY <1>2, CreateIsFound
    <2>2. {k} \in SUBSET Key
      OBVIOUS
    <2>3. QED
      BY <2>1, <2>2 DEF Registry!RegistryNext
  <1>3. CASE UnlinkDrop(r)
    BY <1>3, DropIsRelease DEF Registry!RegistryNext
  <1>4. CASE ~SaveCommits(r) /\ ~UnlinkDrop(r) /\ \A a \in Account : ~ResolveCreates(r, a)
    <2>1. UNCHANGED <<index, loose>>
      BY <1>4, QuietSteps
    <2>2. CASE UNCHANGED signedIn
      BY <2>1, <2>2 DEF Registry!registryVars
    <2>3. CASE Answers(r) /\ req[r].acct \in Account /\ Backed(req[r])
      <3>1. Registry!Admit(Proved(req[r]) \cap Key, req[r].acct)
        BY <2>1, <2>3, AnswerIsAdmit
      <3>2. Proved(req[r]) \cap Key \in SUBSET Key
        OBVIOUS
      <3>3. QED
        BY <2>3, <3>1, <3>2 DEF Registry!RegistryNext
    <2>4. QED
      BY <2>2, <2>3, SessionsStep
  <1>5. QED
    BY <1>1, <1>2, <1>3, <1>4

\* However handlers race, fail or save from old copies, what they do to the
\* index and the sessions they hand out is what a registry of identities does.
THEOREM AccountsImplementRegistry == AccountsSpec => ImplementsRegistry
  <1>1. AccountsInit => Registry!RegistryInit
    BY DEF AccountsInit, Registry!RegistryInit
  <1>2. AccountsInv /\ [AccountsNext]_accountVars
          => [Registry!RegistryNext]_(Registry!registryVars)
    <2>1. UNCHANGED accountVars => UNCHANGED Registry!registryVars
      BY DEF accountVars, stores, histories, Registry!registryVars
    <2>2. QED
      BY <2>1, RegistryStep DEF AccountsNext
  <1>3. QED
    BY <1>1, <1>2, AccountsInvariant, PTL DEF AccountsSpec, ImplementsRegistry, Registry!RegistrySpec
=============================================================================
