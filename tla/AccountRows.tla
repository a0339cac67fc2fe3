---------------------------- MODULE AccountRows ----------------------------
(***************************************************************************)
(* Requests of the community handlers at work: each is a task with its own *)
(* slot, reads an account, changes other tables and sets in between, and   *)
(* then saves its whole copy of the account.  What the copy carries here   *)
(* is what these handlers change: the displayed clan tag and the two       *)
(* follow counts.  (Identities are the business of Accounts.)              *)
(***************************************************************************)
EXTENDS Integers

CONSTANTS
    Account,
    Tag,         \* clan tags
    Card,        \* collectibles of the legacy inventory
    Entry,       \* activities of the feed, each with an id of its own
    Slot,        \* requests in flight together
    MaxRequests, \* bound: requests over all
    MaxResets,   \* bound: resets begun over all
    MaxFaults,   \* bound: failures over all
    MaxCount,    \* bound: where the counts saturate
    NoTag, NoRow, Idle

VARIABLES
    rows,        \* PLAYERS_TABLE
    cached,      \* wou_player:{id}
    work,        \* what each slot is doing, and what it has read
    resetting,   \* what a reset at work has read, or Idle
    begun,       \* requests, resets and failures so far
    crossed,     \* history: what was at stake in requests that overlapped or failed
    skewed,      \* history: accounts and tags counted out of turn
    removed      \* history: accounts removed by a reset, and left alone since

rowVars == <<rows, cached>>
historyVars == <<begun, crossed, skewed, removed>>
pathVars == <<historyVars, resetting>>

Row == [tag : Tag \cup {NoTag}, following : 0..MaxCount, followers : 0..MaxCount]

Blank == [tag |-> NoTag, following |-> 0, followers |-> 0]

Op == {"create", "join", "leave", "follow", "unfollow", "post", "collect"}

\* at: the step a request is about to take; on: the tag, account, card or entry
\* it is about; acct: the account whose row it has read.
Job == [op : Op,
        at : {"table", "first", "second", "load", "reload", "save", "copy"},
        who : Account, on : Account \cup Tag \cup Card \cup Entry,
        acct : Account, row : Row, cards : SUBSET Card]

ASSUME RowsAssumption ==
    /\ {MaxRequests, MaxResets, MaxFaults} \subseteq Nat /\ MaxCount \in Nat \ {0}
    /\ NoTag \notin Tag /\ NoRow \notin Row /\ Idle \notin Job
    /\ Account \cap Tag = {}

-----------------------------------------------------------------------------
RowsInit ==
    /\ rows = [a \in Account |-> Blank]
    /\ cached = [a \in Account |-> Blank]
    /\ work = [s \in Slot |-> Idle]
    /\ resetting = Idle
    /\ begun = [requests |-> 0, resets |-> 0, faults |-> 0]
    /\ crossed = {}
    /\ skewed = {}
    /\ removed = {}

Busy(s) == work[s] # Idle

Jobs == {work[s] : s \in {s \in Slot : Busy(s)}}

Accounts(j) == {j.who} \cup (Account \cap {j.on})

\* What a request reads and writes back, or writes in two places: accounts, a
\* clan, an edge, a hoard of cards.
Stakes(j) ==
    CASE j.op \in {"create", "join", "leave"} -> {j.who, j.on}
      [] j.op \in {"follow", "unfollow"} -> {j.who, j.on, <<j.who, j.on>>}
      [] j.op = "collect" -> {<<j.who, "cards">>}
      [] OTHER -> {}

AtStake == UNION {Stakes(j) : j \in Jobs}

\* No request is at work on it, and no reset at all.
Quiet(x) == resetting = Idle /\ x \notin AtStake

\* get_account_by_id: the copy in the cache; the row, when the copy's time to
\* live is over, when the cache does not answer, or when there is none.
Copies(a) == {rows[a], cached[a]} \ {NoRow}

Asks(op, stage, a, x, row) ==
    [op |-> op, at |-> stage, who |-> a, on |-> x, acct |-> a, row |-> row, cards |-> {}]

\* A request begins.  Those it overlaps, and the reset it comes in the way of, are
\* remembered.
Begins(s, j) ==
    /\ ~Busy(s)
    /\ begun.requests < MaxRequests
    /\ begun' = [begun EXCEPT !.requests = @ + 1]
    /\ work' = [work EXCEPT ![s] = j]
    /\ crossed' = crossed \cup {x \in Stakes(j) : ~Quiet(x)}
    /\ skewed' = IF resetting = Idle THEN skewed ELSE skewed \cup (Tag \cap {j.on})
    /\ removed' = removed \ Accounts(j)
    /\ resetting' = IF resetting = Idle THEN Idle
                    ELSE [resetting EXCEPT !.clear = @ \ Accounts(j)]

More(n) == IF n < MaxCount THEN n + 1 ELSE n

\* Mutant of Less: the subtraction is a plain one.
LessPlain(n) == n - 1

Less(n) == IF n > 0 THEN n - 1 ELSE 0

At(s, stage) == Busy(s) /\ work[s].at = stage

Doing(s, op) == Busy(s) /\ work[s].op = op

Goes(s, stage) == work' = [work EXCEPT ![s].at = stage]

Ends(s) == work' = [work EXCEPT ![s] = Idle]

Orderly == UNCHANGED pathVars

Failure ==
    /\ begun.faults < MaxFaults
    /\ begun' = [begun EXCEPT !.faults = @ + 1]

\* A failure nobody makes good: what the request leaves half done is not held
\* against what it was about.
Marred(s) ==
    /\ Failure
    /\ crossed' = crossed \cup Stakes(work[s])
    /\ UNCHANGED <<skewed, removed, resetting>>

-----------------------------------------------------------------------------
\* After the follower's account comes the target's.
AfterSave(j) == IF j.op \in {"follow", "unfollow"} /\ j.acct = j.who THEN "reload" ELSE "end"

Follows(s, next) == IF next = "end" THEN Ends(s) ELSE Goes(s, next)

\* save_account: the row first.  A save refused is ignored by the handlers.
SaveRow(s) ==
    /\ At(s, "save")
    /\ \/ /\ rows' = [rows EXCEPT ![work[s].acct] = work[s].row]
          /\ Goes(s, "copy")
          /\ Orderly
       \/ /\ Marred(s)
          /\ Follows(s, AfterSave(work[s]))
          /\ UNCHANGED rows
    /\ UNCHANGED cached

\* Mutant of CopyRow: the copy in the cache is left to its time to live.
CopyLater(s) ==
    /\ At(s, "copy")
    /\ Orderly
    /\ Follows(s, AfterSave(work[s]))
    /\ UNCHANGED rowVars

\* Then its copy in the cache; a failure is logged.
CopyRow(s) ==
    /\ At(s, "copy")
    /\ \/ cached' = [cached EXCEPT ![work[s].acct] = work[s].row] /\ Orderly
       \/ Marred(s) /\ UNCHANGED cached
    /\ Follows(s, AfterSave(work[s]))
    /\ UNCHANGED rows

\* The request dies, or a command whose failure it answers with an error fails.
Dies(s) ==
    /\ Busy(s)
    /\ Marred(s)
    /\ Ends(s)
    /\ UNCHANGED rowVars

-----------------------------------------------------------------------------
RowsTypeOK ==
    /\ rows \in [Account -> Row \cup {NoRow}]
    /\ cached \in [Account -> Row \cup {NoRow}]
    /\ work \in [Slot -> Job \cup {Idle}]
    /\ begun \in [requests : 0..MaxRequests, resets : 0..MaxResets, faults : 0..MaxFaults]
    /\ skewed \subseteq Account \cup Tag
    /\ removed \subseteq Account
=============================================================================
