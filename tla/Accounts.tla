------------------------------ MODULE Accounts ------------------------------
(***************************************************************************)
(* Accounts and the identities that lead to them.  An account is one Redb  *)
(* row; the identity index maps every email and every identity of a        *)
(* provider to an account.  Each handler reads an account (from the Valkey *)
(* cache or from Redb), changes its copy, saves the whole row with its     *)
(* index rows in one transaction, and then writes its copy to the cache.   *)
(* Handlers run as concurrent tasks and interleave between these steps.    *)
(***************************************************************************)
EXTENDS Integers

CONSTANTS
    Account,     \* ids of accounts, taken by new accounts as they come
    Email,       \* emails, in their canonical form
    External,    \* identities of other providers
    Chat,        \* those of External that are chats a bot can link
    Request,     \* requests in flight together
    MaxAsked,    \* bound on the requests ever begun
    NoAccount, NoKey, NoRow,
    Idle         \* a request slot without a request

VARIABLES
    rows,        \* PLAYERS_TABLE
    index,       \* IDENTITY_INDEX_TABLE
    cached,      \* wou_player:{id}: the cached copy of a row
    links,       \* wou_{ns}_link:{chat}: the account a bot linked a chat to
    req,         \* what a request has read, and its next step
    asked,       \* requests begun so far
    signedIn,    \* history: accounts given sessions for a proof of a key
    loose        \* history: keys an index row was removed or left out for

stores == <<rows, index, cached, links>>
histories == <<signedIn, loose>>
accountVars == <<stores, req, asked, histories>>

Key == Email \cup External

Row == [mail : Email \cup {NoKey}, ids : SUBSET Key]

Op == {"new", "login", "bymail", "join", "welcome", "link", "bot", "unlink",
       "touch", "resolve"}

Ask == [at : {"load", "decide", "unbind", "resolve", "save", "cache", "drop"},
        op : Op, acct : Account \cup {NoAccount}, own : Account \cup {NoAccount},
        key : Key \cup {NoKey}, mail : Email \cup {NoKey}, row : Row]

ASSUME AccountsAssumption ==
    /\ MaxAsked \in Nat
    /\ Chat \subseteq External /\ Email \cap External = {}
    /\ NoAccount \notin Account /\ NoKey \notin Key
    /\ NoRow \notin Row /\ Idle \notin Ask

Blank == [mail |-> NoKey, ids |-> {}]

\* The keys save_account indexes for a row.
Keys(row) == row.ids \cup ({row.mail} \ {NoKey})

Exists(a) == rows[a] # NoRow

\* A random id: no account has it and no other request has drawn it.
IsNew(a) == ~Exists(a) /\ \A r \in Request : req[r] # Idle => req[r].acct # a

\* get_account_by_id: the cached copy; the row, if that is gone or unreadable.
Copies(a) == {rows[a], cached[a]} \ {NoRow}

Linked(row, k) == [row EXCEPT !.ids = @ \cup {k}]

WithMail(row, m) == IF m = NoKey THEN row ELSE [row EXCEPT !.mail = m]

MailFits(row, m) == m = NoKey \/ row.mail \in {NoKey, m}

\* The row of an account that a proof of a new key is merged into.
Joined(q, row) ==
    WithMail(Linked(row, q.key), IF q.key \in Email THEN q.key ELSE q.mail)

-----------------------------------------------------------------------------
AccountsInit ==
    /\ rows = [a \in Account |-> NoRow]
    /\ index = [k \in Key |-> NoAccount]
    /\ cached = [a \in Account |-> NoRow]
    /\ links = [x \in Chat |-> NoAccount]
    /\ req = [r \in Request |-> Idle]
    /\ asked = 0
    /\ signedIn = [k \in Key |-> {}]
    /\ loose = {}

At(r, stage) == req[r] # Idle /\ req[r].at = stage

Asked(stage, op, a, k) ==
    [at |-> stage, op |-> op, acct |-> a, own |-> NoAccount,
     key |-> k, mail |-> NoKey, row |-> Blank]

Begins(r, q) ==
    /\ req[r] = Idle /\ asked < MaxAsked
    /\ req' = [req EXCEPT ![r] = q]
    /\ asked' = asked + 1

Goes(r, q) == req' = [req EXCEPT ![r] = q] /\ UNCHANGED asked

GivesUp(r) == Goes(r, Idle) /\ UNCHANGED signedIn

\* The keys a request has proved, once it lets its caller in.
Proved(q) ==
    CASE q.op \in {"login", "join", "welcome"} -> {q.key, q.mail}
      [] q.op \in {"bymail", "resolve"} -> {q.key}
      [] OTHER -> {}

\* The handler answers; a sign-in hands out a session for the account.
Answers(r) ==
    /\ Goes(r, Idle)
    /\ signedIn' = [k \in Key |-> IF k \in Proved(req[r])
                                  THEN signedIn[k] \cup {req[r].acct}
                                  ELSE signedIn[k]]

-----------------------------------------------------------------------------
(* What a request asks for. *)

NewAnonymous(r, a) ==
    /\ IsNew(a)
    /\ Begins(r, Asked("save", "new", a, NoKey))
    /\ UNCHANGED <<stores, histories>>

\* A proof of k (a code, a signature, a provider's word), with a verified
\* email m if the provider has one; own is the account of the caller's session.
SignInFind(r, k, m, own) ==
    /\ k \in Email => m = NoKey
    /\ own # NoAccount => Exists(own)
    /\ Begins(r, [Asked(IF index[k] = NoAccount THEN "decide" ELSE "load",
                        "login", index[k], k) EXCEPT !.own = own, !.mail = m])
    /\ UNCHANGED <<stores, histories>>

\* A linked wallet or game account.  Providers are not told apart, so any
\* identity may come this way, a chat's too.
LinkOwn(r, a, k) ==
    /\ Exists(a)
    /\ Begins(r, Asked("load", "link", a, k))
    /\ UNCHANGED <<stores, histories>>

\* Profile, clan, social, newsletter, upload, wallets: a part of the row that
\* is not modelled changes, and the whole row is saved.
TouchOwn(r, a) ==
    /\ Exists(a)
    /\ Begins(r, Asked("load", "touch", a, NoKey))
    /\ UNCHANGED <<stores, histories>>

\* A chat sends the link code of account a.
BotLink(r, a, x) ==
    /\ Exists(a)
    /\ Begins(r, Asked("load", "bot", a, x))
    /\ links' = [links EXCEPT ![x] = a]
    /\ UNCHANGED <<rows, index, cached, histories>>

UnlinkCheck(r, a, x) ==
    /\ links[x] = a
    /\ Begins(r, Asked("unbind", "unlink", a, x))
    /\ UNCHANGED <<stores, histories>>

UnlinkBot(r) ==
    /\ At(r, "unbind")
    /\ links' = [links EXCEPT ![req[r].key] = NoAccount]
    /\ Goes(r, [req[r] EXCEPT !.at = "load"])
    /\ UNCHANGED <<rows, index, cached, histories>>

\* A game server resolves k; the account of the email is looked up beforehand.
ResolveFind(r, k, m) ==
    /\ LET b == IF m = NoKey THEN NoAccount ELSE index[m] IN
         \E row \in IF b = NoAccount THEN {Blank} ELSE Copies(b) :
           Begins(r, [Asked("resolve", "resolve", b, k) EXCEPT !.mail = m, !.row = row])
    /\ UNCHANGED <<stores, histories>>

-----------------------------------------------------------------------------
(* Reading the account, and what the request makes of its copy. *)

LoadOwn(r) ==
    LET q == req[r] IN
    /\ At(r, "load") /\ q.op \in {"link", "bot", "bymail", "unlink", "touch"}
    /\ \E row \in Copies(q.acct) :
         Goes(r, [q EXCEPT !.at = "save", !.row =
                     CASE q.op = "touch" -> row
                       [] q.op = "unlink" -> [row EXCEPT !.ids = @ \ {q.key}]
                       [] OTHER -> Linked(row, q.key)])
    /\ UNCHANGED <<stores, histories>>

LoadLogin(r) ==
    LET q == req[r] IN
    /\ At(r, "load") /\ q.op = "login"
    /\ \E row \in Copies(q.acct) :
         Goes(r, [q EXCEPT !.at = IF q.mail = NoKey THEN "save" ELSE "decide",
                           !.own = NoAccount, !.row = row])
    /\ UNCHANGED <<stores, histories>>

LoadJoin(r) ==
    LET q == req[r] IN
    /\ At(r, "load") /\ q.op = "join"
    /\ \E row \in Copies(q.acct) :
         \/ /\ MailFits(row, q.mail)
            /\ Goes(r, [q EXCEPT !.at = "save", !.row = Joined(q, row)])
            /\ UNCHANGED signedIn
         \/ ~MailFits(row, q.mail) /\ GivesUp(r)
    /\ UNCHANGED <<stores, loose>>

LoadResolved(r) ==
    LET q == req[r] IN
    /\ At(r, "load") /\ q.op = "resolve"
    /\ \E row \in Copies(q.acct) :
         \/ q.mail \in {NoKey, row.mail} /\ Answers(r)
         \/ /\ q.mail # NoKey /\ row.mail = NoKey
            /\ Goes(r, [q EXCEPT !.at = "save", !.row = WithMail(row, q.mail)])
            /\ UNCHANGED signedIn
         \/ ~MailFits(row, q.mail) /\ GivesUp(r)
    /\ UNCHANGED <<stores, loose>>

-----------------------------------------------------------------------------
(* Which account a sign-in ends in, after its key has been looked up. *)

\* The key leads to an account: the verified email must not contradict it.
DecideKnown(r) ==
    LET q == req[r] IN
    /\ At(r, "decide") /\ q.acct # NoAccount
    /\ \/ /\ index[q.mail] \in {NoAccount, q.acct} /\ MailFits(q.row, q.mail)
          /\ Goes(r, [q EXCEPT !.at = "save", !.row = WithMail(@, q.mail)])
          /\ UNCHANGED signedIn
       \/ /\ index[q.mail] \notin {NoAccount, q.acct} \/ ~MailFits(q.row, q.mail)
          /\ GivesUp(r)
    /\ UNCHANGED <<stores, loose>>

\* Only the verified email leads to an account.
DecideByMail(r) ==
    LET q == req[r] IN
    /\ At(r, "decide") /\ q.acct = NoAccount
    /\ q.mail # NoKey /\ index[q.mail] # NoAccount
    /\ Goes(r, [q EXCEPT !.at = "load", !.op = "bymail", !.own = NoAccount,
                         !.acct = index[q.mail]])
    /\ UNCHANGED <<stores, histories>>

\* Nothing leads anywhere: the caller's own account, or a new one.
DecideJoin(r) ==
    LET q == [req[r] EXCEPT !.op = "join", !.own = NoAccount] IN
    /\ At(r, "decide") /\ q.acct = NoAccount
    /\ q.mail # NoKey => index[q.mail] = NoAccount
    /\ \/ /\ req[r].own # NoAccount
          /\ Goes(r, [q EXCEPT !.at = "load", !.acct = req[r].own])
       \/ /\ req[r].own = NoAccount
          /\ \E a \in Account :
               /\ IsNew(a)
               /\ Goes(r, [q EXCEPT !.at = "save", !.acct = a, !.row = Joined(q, Blank)])
    /\ UNCHANGED <<stores, histories>>

-----------------------------------------------------------------------------
(* save_account: the row and its index rows in one transaction. *)

\* Mutant of MaySave: only the email is looked up before it is indexed.
MaySaveMail(a, row) == row.mail # NoKey => index[row.mail] \in {NoAccount, a}

MaySave(a, row) == \A k \in Keys(row) : index[k] \in {NoAccount, a}

\* Mutant of Indexes: linked identities are not indexed.
IndexesMail(a, row) ==
    index' = [k \in Key |-> IF k = row.mail THEN a ELSE index[k]]

Indexes(a, row) ==
    index' = [k \in Key |-> IF k \in Keys(row) THEN a ELSE index[k]]

SaveCommits(r) ==
    LET q == req[r] IN
    /\ At(r, "save") /\ MaySave(q.acct, q.row)
    /\ rows' = [rows EXCEPT ![q.acct] = q.row]
    /\ Indexes(q.acct, q.row)
    /\ Goes(r, [q EXCEPT !.at = "cache"])
    /\ UNCHANGED <<cached, links, histories>>

\* Mutant of IgnoresRefusal: the result of a first save is ignored too.
IgnoresAny(q) == TRUE

\* The welcome mail's second save, and the refresh of a wallet's account.
IgnoresRefusal(q) ==
    \/ q.op = "welcome"
    \/ q.op = "login" /\ q.key \in External /\ q.mail = NoKey

\* Mutant of SaveRefused: the copy is cached whether or not it was saved.
SaveRefusedCached(r) ==
    LET q == req[r] IN
    /\ At(r, "save") /\ ~MaySave(q.acct, q.row)
    /\ cached' = [cached EXCEPT ![q.acct] = q.row]
    /\ GivesUp(r)
    /\ UNCHANGED <<rows, index, links, loose>>

\* Other results that are ignored (touch, bot) belong to no sign-in.
SaveRefused(r) ==
    LET q == req[r] IN
    /\ At(r, "save") /\ ~MaySave(q.acct, q.row)
    /\ \/ IgnoresRefusal(q) /\ Answers(r)
       \/ q.op \notin {"welcome", "unlink"} /\ GivesUp(r)
       \/ q.op = "unlink" /\ Goes(r, [q EXCEPT !.at = "drop"]) /\ UNCHANGED signedIn
    /\ UNCHANGED <<stores, loose>>

\* The transaction of resolve_or_create_service_identity.  A new account gets
\* its identity indexed, but not its email.
ResolveCreates(r, a) ==
    LET q == req[r] IN
    /\ At(r, "resolve") /\ index[q.key] = NoAccount /\ q.acct = NoAccount
    /\ IsNew(a)
    /\ rows' = [rows EXCEPT ![a] = [mail |-> q.mail, ids |-> {q.key}]]
    /\ index' = [index EXCEPT ![q.key] = a]
    /\ loose' = loose \cup ({q.mail} \ {NoKey})
    /\ Goes(r, [q EXCEPT !.at = "cache", !.acct = a, !.row = rows'[a]])
    /\ UNCHANGED <<cached, links, signedIn>>

\* It writes nothing if the identity or the email leads to an account.
ResolveFound(r) ==
    LET q == req[r] IN
    /\ At(r, "resolve")
    /\ \/ /\ index[q.key] # NoAccount /\ q.acct \in {NoAccount, index[q.key]}
          /\ Goes(r, [q EXCEPT !.at = "load", !.acct = index[q.key], !.row = Blank])
       \/ /\ index[q.key] # NoAccount /\ q.acct \notin {NoAccount, index[q.key]}
          /\ Goes(r, Idle)
       \/ /\ index[q.key] = NoAccount /\ q.acct # NoAccount
          /\ Goes(r, [q EXCEPT !.at = "save", !.op = "bymail", !.row = Linked(@, q.key)])
    /\ UNCHANGED <<stores, histories>>

-----------------------------------------------------------------------------
(* After the save. *)

\* A failing SET is ignored.
WritesCache(q) ==
    \/ cached' = [cached EXCEPT ![q.acct] = q.row]
    \/ UNCHANGED cached

\* A merge with an email may be welcomed, which saves the same copy again.
CacheCopy(r) ==
    LET q == req[r] IN
    /\ At(r, "cache")
    /\ WritesCache(q)
    /\ \/ q.op # "unlink" /\ Answers(r)
       \/ /\ q.op = "join" /\ q.row.mail # NoKey
          /\ Goes(r, [q EXCEPT !.at = "save", !.op = "welcome"]) /\ UNCHANGED signedIn
       \/ /\ q.op = "unlink"
          /\ Goes(r, [q EXCEPT !.at = "drop"]) /\ UNCHANGED signedIn
    /\ UNCHANGED <<rows, index, links, loose>>

\* remove_identity_index does not look at the account the row leads to.
UnlinkDrop(r) ==
    LET k == req[r].key IN
    /\ At(r, "drop")
    /\ index' = [index EXCEPT ![k] = NoAccount]
    /\ loose' = IF index[k] = NoAccount THEN loose ELSE loose \cup {k}
    /\ Goes(r, Idle)
    /\ UNCHANGED <<rows, cached, links, signedIn>>

-----------------------------------------------------------------------------
AskStep(r) ==
    \/ \E a \in Account : NewAnonymous(r, a) \/ TouchOwn(r, a)
    \/ \E k \in Key, m \in Email \cup {NoKey}, own \in Account \cup {NoAccount} :
         SignInFind(r, k, m, own)
    \/ \E a \in Account, k \in External : LinkOwn(r, a, k)
    \/ \E a \in Account, x \in Chat : BotLink(r, a, x) \/ UnlinkCheck(r, a, x)
    \/ \E k \in External, m \in Email \cup {NoKey} : ResolveFind(r, k, m)

WorkStep(r) ==
    \/ UnlinkBot(r) \/ LoadOwn(r) \/ LoadLogin(r) \/ LoadJoin(r) \/ LoadResolved(r)
    \/ DecideKnown(r) \/ DecideByMail(r) \/ DecideJoin(r)
    \/ SaveCommits(r) \/ SaveRefused(r)
    \/ \E a \in Account : ResolveCreates(r, a)
    \/ ResolveFound(r) \/ CacheCopy(r) \/ UnlinkDrop(r)

AccountsNext == \E r \in Request : AskStep(r) \/ WorkStep(r)

AccountsSpec == AccountsInit /\ [][AccountsNext]_accountVars

-----------------------------------------------------------------------------
AccountsTypeOK ==
    /\ rows \in [Account -> Row \cup {NoRow}]
    /\ index \in [Key -> Account \cup {NoAccount}]
    /\ cached \in [Account -> Row \cup {NoRow}]
    /\ links \in [Chat -> Account \cup {NoAccount}]
    /\ req \in [Request -> Ask \cup {Idle}]
    /\ asked \in 0..MaxAsked
    /\ signedIn \in [Key -> SUBSET Account]
    /\ loose \subseteq Key

\* An index row never passes from one account to another: it has to be removed
\* first, and only rows of chats ever are.  (save_account's two refusals.)
IdentityStaysPut ==
    [][\A k \in Key : index[k] # NoAccount /\ index'[k] # index[k] =>
         index'[k] = NoAccount /\ k \in Chat]_accountVars

\* The index, and the sessions given for proofs, are a registry of identities,
\* whatever saves, resolutions, links and unlinks race: save_account binds all
\* keys of a row or none, and a session is for the account the proved key leads
\* to when the handler answers, not only when it looked.
Registry == INSTANCE IdentityRegistry
    WITH Revocable <- Chat, holder <- index, entered <- signedIn, waived <- loose

ImplementsRegistry == Registry!RegistrySpec

\* Whoever proves a key is let into one account only, whatever sign-ins,
\* resolutions and links race to bind it first.
ProofLeadsToOneAccount ==
    \A k \in Key \ loose : signedIn[k] \subseteq {index[k]}

\* What an account's row lists, the index leads back to that account: no row
\* lists what another account signs in with.
RowsAreIndexed ==
    \A a \in Account : Exists(a) => \A k \in Keys(rows[a]) \ loose : index[k] = a

\* The cached copy may be older than the row, but what it lists is as much the
\* account's own, so a save made from it is not refused.
CachedCopiesAreOwn ==
    \A a \in Account : cached[a] # NoRow =>
        Exists(a) /\ \A k \in Keys(cached[a]) \ loose : index[k] = a
=============================================================================
