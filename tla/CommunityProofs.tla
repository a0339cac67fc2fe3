--------------------------- MODULE CommunityProofs ---------------------------
(***************************************************************************)
(* Proofs about Community, for every finite set of accounts that its       *)
(* counts can count, all sets of tags, cards and entries, any number of    *)
(* requests in flight, of resets and of failures.                          *)
(***************************************************************************)
EXTENDS Community, FiniteSetTheorems, TLAPS

-----------------------------------------------------------------------------
(* What a request at work is about, and what overlapping does to it. *)

ClanOps == {"create", "join", "leave"}

FollowOps == {"follow", "unfollow"}

\* What a request is about, and where it may stand.
JobShape(j) ==
    /\ j.op \in ClanOps => /\ j.on \in Tag /\ j.acct = j.who
                           /\ j.at \in {"table", "first", "load", "save", "copy"}
    /\ j.op \in FollowOps => j.on \in Account \ {j.who} /\ j.acct \in {j.who, j.on}
    /\ j.op = "post" => j.on \in Entry /\ j.at \in {"table", "first"}
    /\ j.op = "collect" => j.on \in Card /\ j.at \in {"load", "table"}

JobsShaped == \A s \in Slot : Busy(s) => JobShape(work[s])

\* A request has what it is about to itself, or that is remembered.
StakesAlone ==
    \A s \in Slot : Busy(s) =>
        \A x \in Stakes(work[s]) \ crossed :
            /\ resetting = Idle
            /\ \A q \in Slot : Busy(q) /\ x \in Stakes(work[q]) => q = s

\* The invariant all others rest on.
BaseInv == CommunityTypeOK /\ JobsShaped /\ StakesAlone

-----------------------------------------------------------------------------
(* The hoard of an account. *)

CardsInv ==
    /\ \A a \in Account : <<a, "cards">> \notin crossed =>
        /\ gained[a] \subseteq inventory[a]
        /\ \A s \in Slot : Doing(s, "collect") /\ At(s, "table") /\ work[s].who = a =>
                gained[a] \subseteq work[s].cards
    /\ resetting # Idle => resetting.owners \subseteq Gone

-----------------------------------------------------------------------------
(* An edge and its two ends. *)

FollowsOn(s, a, b) == Busy(s) /\ work[s].op \in FollowOps /\ work[s].who = a /\ work[s].on = b

NoneAt(a, b, stages) == \A s \in Slot : FollowsOn(s, a, b) => work[s].at \notin stages

EndsAgree(a, b) ==
    /\ \A s \in Slot : FollowsOn(s, a, b) /\ work[s].at # "table" =>
          (<<a, b>> \in edges <=> work[s].op = "follow")
    /\ NoneAt(a, b, {"first"}) => (b \in following[a] <=> <<a, b>> \in edges)
    /\ NoneAt(a, b, {"first", "second"}) => (a \in followers[b] <=> <<a, b>> \in edges)

\* While a reset is at work nobody else is, on this edge.
EndsInReset(a, b) ==
    LET swept == a \in Gone \/ b \in Gone IN
    /\ <<a, b>> \in edges <=> <<a, b>> \in resetting.edges
    /\ b \in following[a] <=> /\ <<a, b>> \in edges
                              /\ resetting.at = "keys" => a \in Gone \/ b \notin Gone
                              /\ resetting.at \in {"feed", "rows"} => ~swept
    /\ a \in followers[b] <=> /\ <<a, b>> \in edges
                              /\ resetting.at = "keys" => b \in Gone \/ a \notin Gone
                              /\ resetting.at \in {"feed", "rows"} => ~swept

EdgesInv ==
    \A a, b \in Account : <<a, b>> \notin crossed =>
        /\ resetting = Idle => EndsAgree(a, b)
        /\ resetting # Idle => EndsInReset(a, b)

-----------------------------------------------------------------------------
(* What a reset leaves of an account. *)

Untouched(a) == \A s \in Slot : Busy(s) => a \notin Accounts(work[s])

Erased(a) ==
    /\ rows[a] = NoRow /\ cached[a] = NoRow
    /\ \A e \in edges : a \notin {e[1], e[2]}
    /\ following[a] = {} /\ followers[a] = {}
    /\ \A b \in Account : a \notin following[b] \cup followers[b]
    /\ \A m \in members : m[2] # a
    /\ \A t \in Tag : clans[t] # NoClan => clans[t].leader # a
    /\ inventory[a] = {}
    /\ \A p \in posts \cup feed : p[2] # a

\* Of an account no request touches, the reset knows all there is,
ResetKnows(a) ==
    /\ \A e \in edges : a \in {e[1], e[2]} => e \in resetting.edges
    /\ \A m \in members : m[2] = a => m \in resetting.members
    /\ \A t \in Tag : clans[t] # NoClan /\ clans[t].leader = a => t \in resetting.led
    /\ inventory[a] # {} => a \in resetting.owners
    /\ \A p \in posts : p[2] = a => p \in resetting.posts
    /\ resetting.at \in {"keys", "feed"} => \A p \in feed : p[2] = a => p \in resetting.feed

\* and what it has taken out of the cache stays out.
SweptSoFar(a) ==
    /\ resetting.at = "keys" =>
          \A b \in Account \ Gone : a \notin following[b] \cup followers[b]
    /\ resetting.at \in {"feed", "rows"} =>
          /\ cached[a] = NoRow /\ following[a] = {} /\ followers[a] = {}
          /\ \A b \in Account : a \notin following[b] \cup followers[b]
    /\ resetting.at = "rows" => \A p \in feed : p[2] # a

ErasedInv ==
    /\ \A a \in removed : Erased(a) /\ Untouched(a)
    /\ resetting # Idle =>
          /\ \A a \in removed, p \in resetting.feed : p[2] # a
          /\ \A a \in resetting.clear :
                a \in Gone /\ Untouched(a) /\ ResetKnows(a) /\ SweptSoFar(a)

-----------------------------------------------------------------------------
(* An account's row and its copy. *)

UsesRow(s, a) == Busy(s) /\ work[s].op \in ClanOps \cup FollowOps /\ a \in {work[s].who, work[s].on}

CopiesTo(s, a) == At(s, "copy") /\ work[s].acct = a

Carries(s, a) == Busy(s) /\ work[s].at \in {"save", "copy"} /\ work[s].acct = a

CopyInv ==
    \A a \in Account \ crossed :
        /\ resetting = Idle =>
              /\ \A s \in Slot : CopiesTo(s, a) => rows[a] = work[s].row
              /\ (\A s \in Slot : ~CopiesTo(s, a)) => cached[a] = rows[a]
        /\ resetting # Idle =>
              /\ a \notin Gone => cached[a] = rows[a]
              /\ a \in Gone /\ resetting.at \in {"feed", "rows"} => cached[a] = NoRow

-----------------------------------------------------------------------------
(* The tag an account displays. *)

Worn(row, a) == row.tag # NoTag => <<row.tag, a>> \in members

\* Request s is leaving the clan whose tag account a still displays.
Leaving(s, a) ==
    /\ Doing(s, "leave") /\ work[s].who = a /\ work[s].on = rows[a].tag
    /\ work[s].at \in {"first", "load", "save"}

TagsInv ==
    \A a \in Account \ crossed :
        /\ rows[a] # NoRow => Worn(rows[a], a) \/ \E s \in Slot : Leaving(s, a)
        /\ \A s \in Slot :
              /\ Carries(s, a) => Worn(work[s].row, a)
              /\ (Doing(s, "create") \/ Doing(s, "join")) /\ At(s, "first") /\ work[s].who = a =>
                    <<work[s].on, a>> \in members

-----------------------------------------------------------------------------
(* A clan, its members and its copy. *)

OnClan(s, t) == Busy(s) /\ work[s].op \in ClanOps /\ work[s].on = t

CountsTrue(t) ==
    IF clans[t] = NoClan THEN MembersOf(t) = {} ELSE clans[t].count = Cardinality(MembersOf(t))

\* What a reset has read of a clan's members is so until it removes them.
TruthInv ==
    \A t \in Tag \ skewed :
        /\ CountsTrue(t)
        /\ resetting # Idle =>
              /\ \A s \in Slot : ~OnClan(s, t)
              /\ \A a \in Account : <<t, a>> \in members <=> <<t, a>> \in resetting.members

ClanCopyInv ==
    \A t \in Tag \ crossed :
        /\ resetting = Idle =>
              /\ \A s \in Slot : Doing(s, "create") /\ At(s, "first") /\ work[s].on = t =>
                    clans[t] = [leader |-> work[s].who, count |-> 1]
              /\ (\A s \in Slot : OnClan(s, t) => work[s].at # "first") => clanCopy[t] \in {NoClan, clans[t]}
        /\ resetting # Idle =>
              /\ clanCopy[t] \in {NoClan, clans[t]}
              /\ resetting.at \in {"feed", "rows"} /\ (t \in resetting.led \/ LostIn(t) > 0) => clanCopy[t] = NoClan

-----------------------------------------------------------------------------
(* The counts of an account. *)

OutCount(a) == Cardinality({b \in Account : <<a, b>> \in edges})

InCount(a) == Cardinality({b \in Account : <<b, a>> \in edges})

\* A follow or unfollow by account a whose edge has changed, and not yet a's count.
DueOut(s, a) ==
    /\ Busy(s) /\ work[s].op \in FollowOps /\ work[s].who = a
    /\ work[s].at \in {"first", "second", "load"} \/ (work[s].at = "save" /\ work[s].acct = a)

\* The same, of account a by another.
DueIn(s, a) ==
    /\ Busy(s) /\ work[s].op \in FollowOps /\ work[s].on = a
    /\ \/ work[s].at \in {"first", "second", "load", "reload"}
       \/ work[s].at = "save"
       \/ work[s].at = "copy" /\ work[s].acct = work[s].who

\* Who creates or joins a clan carries the row from the first step on.
Brings(s, a) == (Doing(s, "create") \/ Doing(s, "join")) /\ work[s].who = a

CountsInv ==
    \A a \in Account \ (crossed \cup skewed) :
        /\ rows[a] # NoRow =>
              /\ (\A s \in Slot : ~DueOut(s, a)) => rows[a].following = OutCount(a)
              /\ \A s \in Slot : DueOut(s, a) => Counted(s, rows[a].following) = OutCount(a)
              /\ (\A s \in Slot : ~DueIn(s, a)) => rows[a].followers = InCount(a)
              /\ \A s \in Slot : DueIn(s, a) => Counted(s, rows[a].followers) = InCount(a)
        /\ \A s \in Slot : Carries(s, a) \/ Brings(s, a) =>
              work[s].row.following = OutCount(a) /\ work[s].row.followers = InCount(a)

-----------------------------------------------------------------------------
(***************************************************************************)
(* Part one: how requests move, and types.                                 *)
(***************************************************************************)

Stage == {"table", "first", "second", "load", "reload", "save", "copy"}

LEMMA JobFields ==
    ASSUME RowsTypeOK, NEW s \in Slot, Busy(s)
    PROVE  /\ work[s] \in Job
           /\ work[s].op \in Op /\ work[s].at \in Stage
           /\ work[s].who \in Account /\ work[s].acct \in Account
           /\ work[s].row \in Row /\ work[s].cards \in SUBSET Card
  <1>1. work[s] \in Job
    BY DEF RowsTypeOK, Busy
  <1>2. QED
    BY <1>1 DEF Job, Stage

\* What a request carries from one step to the next.
SameCause(j, k) == j.op = k.op /\ j.who = k.who /\ j.on = k.on

LEMMA StakesOfCause ==
    ASSUME NEW j, NEW k, SameCause(j, k)
    PROVE  Stakes(j) = Stakes(k) /\ Accounts(j) = Accounts(k)
  BY DEF SameCause, Stakes, Accounts

LEMMA StakesAre ==
    ASSUME NEW j
    PROVE  /\ j.op \in ClanOps => Stakes(j) = {j.who, j.on}
           /\ j.op \in FollowOps => Stakes(j) = {j.who, j.on, <<j.who, j.on>>}
           /\ j.op = "collect" => Stakes(j) = {<<j.who, "cards">>}
           /\ j.op = "post" => Stakes(j) = {}
  BY DEF Stakes, ClanOps, FollowOps

\* Only the stage changes.
LEMMA GoesJob ==
    ASSUME RowsTypeOK, NEW s \in Slot, Busy(s), NEW stage \in Stage, Goes(s, stage)
    PROVE  /\ work' \in [Slot -> Job \cup {Idle}]
           /\ work' = [work EXCEPT ![s] = work'[s]]
           /\ work'[s] \in Job /\ work'[s] # Idle
           /\ SameCause(work'[s], work[s])
           /\ work'[s].at = stage
           /\ work'[s].acct = work[s].acct /\ work'[s].row = work[s].row
           /\ work'[s].cards = work[s].cards
  <1>1. work[s] \in Job
    BY JobFields
  <1>2. [work[s] EXCEPT !.at = stage] \in Job
    BY <1>1 DEF Job, Stage
  <1>3. work' = [work EXCEPT ![s] = [work[s] EXCEPT !.at = stage]] /\ work \in [Slot -> Job \cup {Idle}]
    BY DEF Goes, RowsTypeOK
  <1>4. work'[s] = [work[s] EXCEPT !.at = stage]
    BY <1>3
  <1>5. work' \in [Slot -> Job \cup {Idle}] /\ work' = [work EXCEPT ![s] = work'[s]]
    BY <1>2, <1>3, <1>4
  <1>6. QED
    BY <1>1, <1>2, <1>4, <1>5, RowsAssumption DEF SameCause, Job

\* A copy of a row is taken along to be saved.
LEMMA CarriesJob ==
    ASSUME RowsTypeOK, NEW s \in Slot, Busy(s), NEW stage \in Stage, NEW a \in Account, NEW row \in Row,
           work' = [work EXCEPT ![s].at = stage, ![s].acct = a, ![s].row = row]
    PROVE  /\ work' \in [Slot -> Job \cup {Idle}]
           /\ work' = [work EXCEPT ![s] = work'[s]]
           /\ work'[s] \in Job /\ work'[s] # Idle
           /\ SameCause(work'[s], work[s])
           /\ work'[s].at = stage /\ work'[s].acct = a /\ work'[s].row = row
  <1>1. work[s] \in Job
    BY JobFields
  <1> DEFINE j == [work[s] EXCEPT !.at = stage, !.acct = a, !.row = row]
  <1>2. j \in Job
    BY <1>1 DEF Job, Stage
  <1>3. work' = [work EXCEPT ![s] = j] /\ work \in [Slot -> Job \cup {Idle}]
    BY DEF RowsTypeOK
  <1>4. work'[s] = j
    BY <1>3
  <1>5. work' \in [Slot -> Job \cup {Idle}] /\ work' = [work EXCEPT ![s] = work'[s]]
    BY <1>2, <1>3, <1>4
  <1>6. j.at = stage /\ j.acct = a /\ j.row = row /\ SameCause(j, work[s])
    BY <1>1 DEF SameCause, Job
  <1>7. QED
    BY <1>2, <1>4, <1>5, <1>6, RowsAssumption

LEMMA EndsJob ==
    ASSUME RowsTypeOK, NEW s \in Slot, Ends(s)
    PROVE  /\ work' \in [Slot -> Job \cup {Idle}]
           /\ work' = [work EXCEPT ![s] = Idle]
           /\ work'[s] = Idle
  BY DEF Ends, RowsTypeOK

-----------------------------------------------------------------------------
(* A request moves on. *)

\* What every step of a request does to the state all requests share.
Moves(s) ==
    /\ Busy(s)
    /\ work' \in [Slot -> Job \cup {Idle}]
    /\ work' = [work EXCEPT ![s] = work'[s]]
    /\ work'[s] # Idle => JobShape(work'[s]) /\ SameCause(work'[s], work[s])
    /\ resetting' = resetting /\ removed' = removed
    /\ \/ crossed' = crossed
       \/ crossed' = crossed \cup Stakes(work[s])

BegunOK == begun \in [requests : 0..MaxRequests, resets : 0..MaxResets, faults : 0..MaxFaults]

LEMMA MarredIs ==
    ASSUME BegunOK, NEW s \in Slot, Marred(s)
    PROVE  /\ BegunOK'
           /\ crossed' = crossed \cup Stakes(work[s])
           /\ UNCHANGED <<skewed, removed, resetting>>
  BY RowsAssumption DEF BegunOK, Marred, Failure

LEMMA OrderlyIs ==
    ASSUME Orderly
    PROVE  UNCHANGED <<begun, crossed, skewed, removed, resetting>>
  BY DEF Orderly, pathVars, historyVars

LEMMA GoesMoves ==
    ASSUME BaseInv, NEW s \in Slot, Busy(s), NEW stage \in Stage, Goes(s, stage),
           work[s].op \in ClanOps => stage \in {"table", "first", "load", "save", "copy"},
           work[s].op = "post" => stage \in {"table", "first"},
           work[s].op = "collect" => stage \in {"load", "table"},
           resetting' = resetting, removed' = removed,
           crossed' = crossed \/ crossed' = crossed \cup Stakes(work[s])
    PROVE  Moves(s)
  <1>1. RowsTypeOK /\ JobShape(work[s])
    BY DEF BaseInv, CommunityTypeOK, JobsShaped
  <1>2. JobShape(work'[s])
    BY <1>1, GoesJob DEF JobShape, SameCause
  <1>3. QED
    BY <1>1, <1>2, GoesJob DEF Moves

LEMMA EndsMoves ==
    ASSUME BaseInv, NEW s \in Slot, Busy(s), Ends(s),
           resetting' = resetting, removed' = removed,
           crossed' = crossed \/ crossed' = crossed \cup Stakes(work[s])
    PROVE  Moves(s)
  BY EndsJob DEF Moves, BaseInv, CommunityTypeOK

LEMMA CarriesMoves ==
    ASSUME BaseInv, NEW s \in Slot, Busy(s), NEW a \in Account, NEW row \in Row,
           work' = [work EXCEPT ![s].at = "save", ![s].acct = a, ![s].row = row],
           work[s].op \in ClanOps => a = work[s].who,
           work[s].op \in FollowOps => a \in {work[s].who, work[s].on},
           work[s].op \in ClanOps \cup FollowOps,
           resetting' = resetting, removed' = removed,
           crossed' = crossed \/ crossed' = crossed \cup Stakes(work[s])
    PROVE  Moves(s)
  <1>1. RowsTypeOK /\ JobShape(work[s])
    BY DEF BaseInv, CommunityTypeOK, JobsShaped
  <1>2. /\ work' \in [Slot -> Job \cup {Idle}]
        /\ work' = [work EXCEPT ![s] = work'[s]]
        /\ SameCause(work'[s], work[s])
        /\ work'[s].at = "save" /\ work'[s].acct = a
    BY <1>1, CarriesJob DEF Stage
  <1>3. JobShape(work'[s])
    BY <1>1, <1>2 DEF JobShape, SameCause, ClanOps, FollowOps
  <1>4. QED
    BY <1>2, <1>3 DEF Moves

-----------------------------------------------------------------------------
(* Types, one lemma per action. *)

TablesOK == ClansTypeOK /\ SocialTypeOK /\ InventoryTypeOK

RestOK == BegunOK /\ skewed \subseteq Account \cup Tag

LEMMA TypesAre ==
    CommunityTypeOK <=> /\ rows \in [Account -> Row \cup {NoRow}]
                        /\ cached \in [Account -> Row \cup {NoRow}]
                        /\ work \in [Slot -> Job \cup {Idle}]
                        /\ removed \subseteq Account
                        /\ TablesOK /\ RestOK /\ ResetTypeOK
  BY DEF CommunityTypeOK, RowsTypeOK, TablesOK, RestOK, BegunOK

\* What a step of a request must still show for its types.
LEMMA MovesType ==
    ASSUME BaseInv, NEW s \in Slot, Moves(s), TablesOK', RestOK',
           rows' \in [Account -> Row \cup {NoRow}], cached' \in [Account -> Row \cup {NoRow}]
    PROVE  CommunityTypeOK'
  <1>1. work' \in [Slot -> Job \cup {Idle}] /\ removed' \subseteq Account /\ ResetTypeOK'
    BY TypesAre DEF Moves, BaseInv, ResetTypeOK
  <1>2. CommunityTypeOK' <=> /\ rows' \in [Account -> Row \cup {NoRow}]
                             /\ cached' \in [Account -> Row \cup {NoRow}]
                             /\ work' \in [Slot -> Job \cup {Idle}]
                             /\ removed' \subseteq Account
                             /\ TablesOK' /\ RestOK' /\ ResetTypeOK'
    BY DEF CommunityTypeOK, RowsTypeOK, TablesOK, RestOK, BegunOK
  <1>3. QED
    BY <1>1, <1>2

LEMMA ClanJobIs ==
    ASSUME BaseInv, NEW s \in Slot, Busy(s), work[s].op \in ClanOps
    PROVE  /\ work[s].on \in Tag /\ work[s].who \in Account /\ work[s].acct = work[s].who
           /\ work[s].row \in Row
           /\ work[s].at \in {"table", "first", "load", "save", "copy"}
  BY JobFields DEF BaseInv, CommunityTypeOK, JobsShaped, JobShape

LEMMA FollowJobIs ==
    ASSUME BaseInv, NEW s \in Slot, Busy(s), work[s].op \in FollowOps
    PROVE  /\ work[s].on \in Account /\ work[s].who \in Account /\ work[s].who # work[s].on
           /\ work[s].acct \in {work[s].who, work[s].on} /\ work[s].row \in Row
  BY JobFields DEF BaseInv, CommunityTypeOK, JobsShaped, JobShape

LEMMA OtherJobIs ==
    ASSUME BaseInv, NEW s \in Slot, Busy(s)
    PROVE  /\ work[s].op = "post" => work[s].on \in Entry /\ work[s].at \in {"table", "first"}
           /\ work[s].op = "collect" => work[s].on \in Card /\ work[s].at \in {"load", "table"}
           /\ work[s].op \in ClanOps \cup FollowOps \cup {"post", "collect"}
           /\ work[s].who \in Account
  BY JobFields DEF BaseInv, CommunityTypeOK, JobsShaped, JobShape, Op, ClanOps, FollowOps

LEMMA CreateClanStep ==
    ASSUME BaseInv, NEW s \in Slot, CreateClan(s), UNCHANGED <<socialVars, inventoryVars>>
    PROVE  Moves(s) /\ CommunityTypeOK'
  <1>1. Busy(s) /\ work[s].op = "create" /\ work[s].op \in ClanOps
    BY DEF CreateClan, Doing, ClanOps
  <1>2. UNCHANGED <<begun, crossed, skewed, removed, resetting, rows, cached>>
    BY DEF CreateClan, Refused, Orderly, pathVars, historyVars, rowVars
  <1>3. Moves(s)
    BY <1>1, <1>2, EndsMoves, GoesMoves DEF CreateClan, Refused, ClanOps, Stage
  <1>4. ClansTypeOK'
    <2>1. [leader |-> work[s].who, count |-> 1] \in Clan
      BY <1>1, ClanJobIs, RowsAssumption DEF Clan
    <2>2. QED
      BY <1>1, <2>1, ClanJobIs DEF CreateClan, Refused, clanVars, BaseInv, CommunityTypeOK, ClansTypeOK
  <1>5. TablesOK' /\ RestOK'
    BY <1>2, <1>4, TypesAre DEF BaseInv, TablesOK, RestOK, BegunOK, SocialTypeOK, InventoryTypeOK,
       socialVars, graphVars, postVars, inventoryVars
  <1>6. QED
    BY <1>2, <1>3, <1>5, TypesAre, MovesType DEF BaseInv

\* Tables no handler of this family writes keep their types.
LEMMA OtherTables ==
    ASSUME BaseInv
    PROVE  /\ UNCHANGED clanVars => ClansTypeOK'
           /\ UNCHANGED socialVars => SocialTypeOK'
           /\ UNCHANGED inventoryVars => InventoryTypeOK'
           /\ UNCHANGED begun => BegunOK'
  BY TypesAre DEF BaseInv, TablesOK, RestOK, BegunOK, ClansTypeOK, SocialTypeOK, InventoryTypeOK, clanVars,
     socialVars, graphVars, postVars, inventoryVars

LEMMA CountTypes ==
    ASSUME NEW n \in 0..MaxCount
    PROVE  More(n) \in 0..MaxCount /\ Less(n) \in 0..MaxCount /\ (n > 1 => n - 1 \in 0..MaxCount)
  BY RowsAssumption DEF More, Less

LEMMA JoinClanStep ==
    ASSUME BaseInv, NEW s \in Slot, JoinClan(s), UNCHANGED <<socialVars, inventoryVars>>
    PROVE  Moves(s) /\ CommunityTypeOK'
  <1>1. Busy(s) /\ work[s].op = "join" /\ work[s].op \in ClanOps
    BY DEF JoinClan, Doing, ClanOps
  <1>2. /\ UNCHANGED <<begun, crossed, removed, resetting, rows, cached>>
        /\ skewed' = skewed \/ skewed' = skewed \cup {work[s].on}
    BY DEF JoinClan, Miscounts, Refused, Orderly, pathVars, historyVars, rowVars
  <1>3. Moves(s)
    BY <1>1, <1>2, EndsMoves, GoesMoves DEF JoinClan, Refused, ClanOps, Stage
  <1>4. ClansTypeOK'
    <2>1. clans[work[s].on] # NoClan => [clans[work[s].on] EXCEPT !.count = More(@)] \in Clan
      BY <1>1, ClanJobIs, CountTypes DEF BaseInv, CommunityTypeOK, ClansTypeOK, Clan
    <2>2. clans[work[s].on] # NoClan =>
              clans' = [clans EXCEPT ![work[s].on] = [clans[work[s].on] EXCEPT !.count = More(@)]]
      BY DEF JoinClan, BaseInv, CommunityTypeOK, ClansTypeOK
    <2>3. QED
      BY <1>1, <2>1, <2>2, ClanJobIs DEF JoinClan, Refused, clanVars, BaseInv, CommunityTypeOK, ClansTypeOK
  <1>5. TablesOK' /\ RestOK'
    BY <1>1, <1>2, <1>4, ClanJobIs, OtherTables, TypesAre DEF BaseInv, TablesOK, RestOK
  <1>6. QED
    BY <1>2, <1>3, <1>5, TypesAre, MovesType DEF BaseInv

LEMMA LeaveClanStep ==
    ASSUME BaseInv, NEW s \in Slot, LeaveClan(s), UNCHANGED <<socialVars, inventoryVars>>
    PROVE  Moves(s) /\ CommunityTypeOK'
  <1> DEFINE t == work[s].on
  <1>1. Busy(s) /\ work[s].op = "leave" /\ work[s].op \in ClanOps
    BY DEF LeaveClan, Doing, ClanOps
  <1>2. /\ UNCHANGED <<begun, crossed, removed, resetting, rows, cached, clanCopy>>
        /\ skewed' = skewed \/ skewed' = skewed \cup {t}
    BY DEF LeaveClan, Miscounts, rowVars
  <1>3. Moves(s)
    BY <1>1, <1>2, GoesMoves DEF LeaveClan, ClanOps, Stage
  <1>4. ClansTypeOK'
    <2>1. clans[t] # NoClan => clans[t].count \in 0..MaxCount /\ clans[t] \in Clan
      BY <1>1, ClanJobIs DEF BaseInv, CommunityTypeOK, ClansTypeOK, Clan
    <2>2. clans[t] # NoClan /\ clans[t].count > 1 => [clans[t] EXCEPT !.count = @ - 1] \in Clan
      BY <2>1, CountTypes DEF Clan
    <2>3. \/ clans' = clans
          \/ clans' = [clans EXCEPT ![t] = NoClan]
          \/ /\ clans[t] # NoClan /\ clans[t].count > 1
             /\ clans' = [clans EXCEPT ![t] = [clans[t] EXCEPT !.count = @ - 1]]
      BY DEF LeaveClan, BaseInv, CommunityTypeOK, ClansTypeOK
    <2>4. members' \subseteq members
      BY DEF LeaveClan
    <2>5. QED
      BY <1>2, <2>2, <2>3, <2>4 DEF BaseInv, CommunityTypeOK, ClansTypeOK
  <1>5. TablesOK' /\ RestOK'
    BY <1>1, <1>2, <1>4, ClanJobIs, OtherTables, TypesAre DEF BaseInv, TablesOK, RestOK
  <1>6. QED
    BY <1>2, <1>3, <1>5, TypesAre, MovesType DEF BaseInv

\* The cached clan is written, or the failure is remembered.
LEMMA CopiedIs ==
    ASSUME BaseInv, NEW s \in Slot, Busy(s), work[s].op \in ClanOps,
           NEW clan \in Clan \cup {NoClan}, Copied(s, clan), UNCHANGED <<clans, members>>
    PROVE  /\ ClansTypeOK' /\ RestOK'
           /\ resetting' = resetting /\ removed' = removed /\ skewed' = skewed
           /\ \/ crossed' = crossed /\ clanCopy' = [clanCopy EXCEPT ![work[s].on] = clan]
              \/ crossed' = crossed \cup Stakes(work[s]) /\ clanCopy' = clanCopy
  <1>1. BegunOK /\ skewed \subseteq Account \cup Tag /\ ClansTypeOK
    BY TypesAre DEF BaseInv, RestOK, TablesOK
  <1>2. CASE clanCopy' = [clanCopy EXCEPT ![work[s].on] = clan] /\ Orderly
    BY <1>1, <1>2, OrderlyIs DEF ClansTypeOK, RestOK, BegunOK
  <1>3. CASE Marred(s) /\ UNCHANGED clanCopy
    BY <1>1, <1>3, MarredIs DEF ClansTypeOK, RestOK
  <1>4. QED
    BY <1>2, <1>3 DEF Copied

LEMMA WearsMoves ==
    ASSUME BaseInv, NEW s \in Slot, Busy(s), work[s].op \in ClanOps, Wears(s, "save"),
           resetting' = resetting, removed' = removed,
           crossed' = crossed \/ crossed' = crossed \cup Stakes(work[s])
    PROVE  /\ Moves(s) /\ work'[s] # Idle /\ work'[s].at = "save" /\ work'[s].acct = work[s].who
           /\ work'[s].row = [work[s].row EXCEPT !.tag = work[s].on]
  <1> DEFINE row == [work[s].row EXCEPT !.tag = work[s].on]
  <1>1. row \in Row /\ work[s].who \in Account /\ work[s].acct = work[s].who
    BY ClanJobIs DEF Row
  <1>2. work[s] \in Job /\ work \in [Slot -> Job \cup {Idle}] /\ RowsTypeOK
    BY JobFields DEF BaseInv, CommunityTypeOK, RowsTypeOK
  <1>3. [work[s] EXCEPT !.at = "save", !.row = row] = [work[s] EXCEPT !.at = "save", !.acct = work[s].who, !.row = row]
    BY <1>1, <1>2 DEF Job
  <1>4. work' = [work EXCEPT ![s].at = "save", ![s].acct = work[s].who, ![s].row = row]
    BY <1>2, <1>3 DEF Wears, Wearing
  <1>5. Moves(s)
    BY <1>1, <1>4, CarriesMoves
  <1>6. work'[s] = [work[s] EXCEPT !.at = "save", !.row = row]
    BY <1>2 DEF Wears, Wearing
  <1>7. work'[s].at = "save" /\ work'[s].acct = work[s].who /\ work'[s].row = row /\ work'[s] \in Job
    BY <1>1, <1>2, <1>6 DEF Job
  <1>8. QED
    BY <1>5, <1>7, RowsAssumption

LEMMA CacheClanStep ==
    ASSUME BaseInv, NEW s \in Slot, CacheClan(s), UNCHANGED <<socialVars, inventoryVars>>
    PROVE  Moves(s) /\ CommunityTypeOK'
  <1>1. Busy(s) /\ work[s].op = "create" /\ work[s].op \in ClanOps /\ UNCHANGED <<rows, cached, clans, members>>
    BY DEF CacheClan, Doing, ClanOps, rowVars
  <1>2. [leader |-> work[s].who, count |-> 1] \in Clan
    BY <1>1, ClanJobIs, RowsAssumption DEF Clan
  <1>3. /\ ClansTypeOK' /\ RestOK'
        /\ resetting' = resetting /\ removed' = removed
        /\ crossed' = crossed \/ crossed' = crossed \cup Stakes(work[s])
    BY <1>1, <1>2, CopiedIs DEF CacheClan
  <1>4. Moves(s)
    BY <1>1, <1>3, WearsMoves DEF CacheClan
  <1>5. TablesOK'
    BY <1>3, OtherTables DEF TablesOK
  <1>6. QED
    BY <1>1, <1>3, <1>4, <1>5, TypesAre, MovesType DEF BaseInv

LEMMA DropClanStep ==
    ASSUME BaseInv, NEW s \in Slot, DropClan(s), UNCHANGED <<socialVars, inventoryVars>>
    PROVE  Moves(s) /\ CommunityTypeOK'
  <1>1. Busy(s) /\ work[s].op \in ClanOps /\ UNCHANGED <<rows, cached, clans, members>>
    BY DEF DropClan, Doing, ClanOps, rowVars
  <1>2. /\ ClansTypeOK' /\ RestOK'
        /\ resetting' = resetting /\ removed' = removed
        /\ crossed' = crossed \/ crossed' = crossed \cup Stakes(work[s])
    BY <1>1, CopiedIs DEF DropClan
  <1>3. Moves(s)
    BY <1>1, <1>2, WearsMoves, GoesMoves DEF DropClan, Stage, ClanOps, Doing
  <1>4. TablesOK'
    BY <1>2, OtherTables DEF TablesOK
  <1>5. QED
    BY <1>1, <1>2, <1>3, <1>4, TypesAre, MovesType DEF BaseInv

LEMMA CopiesAreRows ==
    ASSUME BaseInv, NEW a \in Account, NEW row \in Copies(a)
    PROVE  row \in Row /\ row # NoRow /\ row \in {rows[a], cached[a]}
  BY TypesAre DEF BaseInv, Copies

\* A request that only reads, or only moves on.
LEMMA ReadingType ==
    ASSUME BaseInv, NEW s \in Slot, Moves(s), Orderly, UNCHANGED <<rowVars, resetTables>>
    PROVE  CommunityTypeOK'
  <1>1. TablesOK' /\ RestOK'
    BY OtherTables, OrderlyIs, TypesAre DEF resetTables, TablesOK, RestOK, BaseInv
  <1>2. QED
    BY <1>1, TypesAre, MovesType DEF BaseInv, rowVars

LEMMA LeaveLoadStep ==
    ASSUME BaseInv, NEW s \in Slot, LeaveLoad(s), UNCHANGED <<socialVars, inventoryVars>>
    PROVE  Moves(s) /\ CommunityTypeOK'
  <1>1. Busy(s) /\ work[s].op = "leave" /\ work[s].op \in ClanOps /\ Orderly
    BY DEF LeaveLoad, Doing, ClanOps
  <1>2. UNCHANGED <<crossed, removed, resetting>>
    BY <1>1, OrderlyIs
  <1>3. ASSUME NEW row \in Copies(work[s].who),
               work' = [work EXCEPT ![s].at = "save", ![s].row = [row EXCEPT !.tag = NoTag]]
        PROVE  Moves(s)
    <2> DEFINE bare == [row EXCEPT !.tag = NoTag]
    <2>1. bare \in Row /\ work[s].who \in Account /\ work[s].acct = work[s].who
      BY <1>1, ClanJobIs, CopiesAreRows DEF Row
    <2>2. work[s] \in Job /\ work \in [Slot -> Job \cup {Idle}]
      BY <1>1, JobFields DEF BaseInv, CommunityTypeOK, RowsTypeOK
    <2>3. [work[s] EXCEPT !.at = "save", !.row = bare]
              = [work[s] EXCEPT !.at = "save", !.acct = work[s].who, !.row = bare]
      BY <2>1, <2>2 DEF Job
    <2>4. work' = [work EXCEPT ![s].at = "save", ![s].acct = work[s].who, ![s].row = bare]
      BY <1>3, <2>2, <2>3
    <2>5. QED
      BY <1>1, <1>2, <2>1, <2>4, CarriesMoves
  <1>4. Moves(s)
    BY <1>1, <1>2, <1>3, EndsMoves DEF LeaveLoad
  <1>5. QED
    BY <1>1, <1>4, ReadingType DEF LeaveLoad, resetTables

-----------------------------------------------------------------------------

LEMMA FollowEdgeStep ==
    ASSUME BaseInv, NEW s \in Slot, FollowEdge(s), UNCHANGED <<clanVars, inventoryVars>>
    PROVE  Moves(s) /\ CommunityTypeOK'
  <1>1. Busy(s) /\ work[s].op \in FollowOps
    BY DEF FollowEdge, Doing, FollowOps
  <1>2. /\ UNCHANGED <<begun, crossed, removed, resetting, rows, cached, following, followers, posts, feed>>
        /\ skewed' = skewed \/ skewed' = skewed \cup {work[s].who, work[s].on}
        /\ edges' = edges \cup {<<work[s].who, work[s].on>>} \/ edges' = edges \ {<<work[s].who, work[s].on>>}
    BY DEF FollowEdge, rowVars, postVars, Follower, Target
  <1>3. Moves(s)
    BY <1>1, <1>2, GoesMoves DEF FollowEdge, FollowOps, ClanOps, Stage
  <1>4. SocialTypeOK'
    BY <1>1, <1>2, FollowJobIs DEF BaseInv, CommunityTypeOK, SocialTypeOK
  <1>5. TablesOK' /\ RestOK'
    BY <1>1, <1>2, <1>4, FollowJobIs, OtherTables, TypesAre DEF BaseInv, TablesOK, RestOK
  <1>6. QED
    BY <1>2, <1>3, <1>5, TypesAre, MovesType DEF BaseInv

\* A set of the cache is written, or the failure is remembered.
LEMMA SetsStep ==
    ASSUME BaseInv, NEW s \in Slot, FollowingSet(s) \/ FollowersSet(s), UNCHANGED <<clanVars, inventoryVars>>
    PROVE  /\ Moves(s) /\ CommunityTypeOK'
           /\ work[s].op \in FollowOps
           /\ crossed' = crossed \/ crossed' = crossed \cup Stakes(work[s])
  <1>1. Busy(s) /\ work[s].op \in FollowOps
    BY OtherJobIs, ClanJobIs DEF FollowingSet, FollowersSet, Doing, FollowOps, At
  <1>2. /\ UNCHANGED <<skewed, removed, resetting, rows, cached, edges, posts, feed>> /\ BegunOK'
        /\ crossed' = crossed \/ crossed' = crossed \cup Stakes(work[s])
    BY MarredIs, OrderlyIs, TypesAre DEF FollowingSet, FollowersSet, rowVars, postVars, BaseInv, RestOK, BegunOK
  <1>3. Moves(s)
    BY <1>1, <1>2, GoesMoves DEF FollowingSet, FollowersSet, FollowOps, ClanOps, Stage
  <1>4. SocialTypeOK'
    BY <1>1, <1>2, FollowJobIs DEF FollowingSet, FollowersSet, Follower, Target, Put, BaseInv, CommunityTypeOK, SocialTypeOK
  <1>5. TablesOK' /\ RestOK'
    BY <1>2, <1>4, OtherTables, TypesAre DEF BaseInv, TablesOK, RestOK
  <1>6. QED
    BY <1>1, <1>2, <1>3, <1>5, TypesAre, MovesType DEF BaseInv

LEMMA CountedRow ==
    ASSUME NEW row \in Row, NEW s \in Slot
    PROVE  /\ [row EXCEPT !.following = Counted(s, @)] \in Row
           /\ [row EXCEPT !.followers = Counted(s, @)] \in Row
  BY CountTypes DEF Row, Counted

\* What a follow does next: it takes a counted copy along, or passes over an
\* account that is gone.
LEMMA CountsStep ==
    ASSUME BaseInv, NEW s \in Slot, CountFollowing(s) \/ CountFollower(s),
           UNCHANGED <<clanVars, inventoryVars>>
    PROVE  Moves(s) /\ CommunityTypeOK' /\ work[s].op \in FollowOps
  <1>1. Busy(s) /\ work[s].op \in FollowOps /\ Orderly
    BY OtherJobIs, ClanJobIs DEF CountFollowing, CountFollower, Doing, FollowOps, At
  <1>2. UNCHANGED <<crossed, removed, resetting>>
    BY <1>1, OrderlyIs
  <1>3. ASSUME NEW a \in Account, a \in {work[s].who, work[s].on}, NEW row \in Row, Saves(s, a, row)
        PROVE  Moves(s)
    BY <1>1, <1>2, <1>3, CarriesMoves DEF Saves, FollowOps, ClanOps
  <1>4. ASSUME CountFollowing(s) PROVE Moves(s)
    <2>1. ASSUME NEW row \in Copies(Follower(s)),
                 Saves(s, Follower(s), [row EXCEPT !.following = Counted(s, @)])
          PROVE  Moves(s)
      BY <1>1, <1>3, <2>1, FollowJobIs, CopiesAreRows, CountedRow DEF Follower
    <2>2. QED
      BY <1>1, <1>2, <1>4, <2>1, GoesMoves DEF CountFollowing, FollowOps, ClanOps, Stage
  <1>5. ASSUME CountFollower(s) PROVE Moves(s)
    <2>1. ASSUME NEW row \in Copies(Target(s)),
                 Saves(s, Target(s), [row EXCEPT !.followers = Counted(s, @)])
          PROVE  Moves(s)
      BY <1>1, <1>3, <2>1, FollowJobIs, CopiesAreRows, CountedRow DEF Target
    <2>2. QED
      BY <1>1, <1>2, <1>5, <2>1, EndsMoves DEF CountFollower
  <1>6. QED
    BY <1>1, <1>4, <1>5, ReadingType DEF CountFollowing, CountFollower, resetTables

LEMMA PostStep ==
    ASSUME BaseInv, NEW s \in Slot, PostRow(s) \/ PostFeed(s), UNCHANGED <<clanVars, inventoryVars>>
    PROVE  Moves(s) /\ CommunityTypeOK' /\ work[s].op = "post"
  <1>1. Busy(s) /\ work[s].op = "post" /\ work[s].op \notin ClanOps
    BY DEF PostRow, PostFeed, Doing, ClanOps
  <1>2. /\ UNCHANGED <<skewed, removed, resetting, rows, cached, edges, following, followers>> /\ BegunOK'
        /\ crossed' = crossed \/ crossed' = crossed \cup Stakes(work[s])
    BY MarredIs, OrderlyIs, TypesAre DEF PostRow, PostFeed, rowVars, graphVars, BaseInv, RestOK, BegunOK
  <1>3. Moves(s)
    BY <1>1, <1>2, GoesMoves, EndsMoves DEF PostRow, PostFeed, Stage
  <1>4. SocialTypeOK'
    BY <1>1, <1>2, OtherJobIs DEF PostRow, PostFeed, BaseInv, CommunityTypeOK, SocialTypeOK
  <1>5. TablesOK' /\ RestOK'
    BY <1>2, <1>4, OtherTables, TypesAre DEF BaseInv, TablesOK, RestOK
  <1>6. QED
    BY <1>1, <1>2, <1>3, <1>5, TypesAre, MovesType DEF BaseInv

LEMMA CollectLoadStep ==
    ASSUME BaseInv, NEW s \in Slot, CollectLoad(s), UNCHANGED <<clanVars, socialVars>>
    PROVE  /\ Moves(s) /\ CommunityTypeOK' /\ work[s].op = "collect"
           /\ work'[s] # Idle /\ work'[s].at = "table" /\ work'[s].cards = inventory[work[s].who]
           /\ crossed' = crossed
  <1>1. Busy(s) /\ work[s].op = "collect" /\ work[s].op \notin ClanOps \cup FollowOps \cup {"post"} /\ Orderly
    BY DEF CollectLoad, Doing, ClanOps, FollowOps
  <1>2. UNCHANGED <<crossed, removed, resetting>>
    BY <1>1, OrderlyIs
  <1> DEFINE j == [work[s] EXCEPT !.at = "table", !.cards = inventory[work[s].who]]
  <1>3. work[s] \in Job /\ work \in [Slot -> Job \cup {Idle}] /\ JobShape(work[s])
    BY <1>1, JobFields DEF BaseInv, CommunityTypeOK, RowsTypeOK, JobsShaped
  <1>4. inventory[work[s].who] \in SUBSET Card
    BY <1>1, OtherJobIs DEF BaseInv, CommunityTypeOK, InventoryTypeOK
  <1>5. /\ j \in Job /\ SameCause(j, work[s]) /\ j.at = "table" /\ j.cards = inventory[work[s].who]
        /\ j.op = "collect" /\ j.on = work[s].on
    BY <1>1, <1>3, <1>4 DEF Job, SameCause
  <1>6. JobShape(j)
    BY <1>1, <1>3, <1>5 DEF JobShape, ClanOps, FollowOps
  <1>7. work' = [work EXCEPT ![s] = j]
    BY <1>3 DEF CollectLoad
  <1> HIDE DEF j
  <1>8. work'[s] = j /\ work' \in [Slot -> Job \cup {Idle}] /\ j # Idle
    BY <1>3, <1>5, <1>7, RowsAssumption
  <1>9. Moves(s)
    BY <1>1, <1>2, <1>5, <1>6, <1>7, <1>8 DEF Moves
  <1>10. QED
    BY <1>1, <1>2, <1>5, <1>8, <1>9, ReadingType DEF CollectLoad, resetTables

LEMMA CollectSaveStep ==
    ASSUME BaseInv, NEW s \in Slot, CollectSave(s), UNCHANGED <<clanVars, socialVars>>
    PROVE  Moves(s) /\ CommunityTypeOK'
  <1>1. Busy(s) /\ work[s].op = "collect" /\ Orderly /\ Ends(s) /\ UNCHANGED <<rows, cached>>
    BY DEF CollectSave, Collected, Doing, rowVars
  <1>2. UNCHANGED <<begun, crossed, skewed, removed, resetting>>
    BY <1>1, OrderlyIs
  <1>3. Moves(s)
    BY <1>1, <1>2, EndsMoves
  <1>4. InventoryTypeOK'
    BY <1>1, OtherJobIs, JobFields DEF CollectSave, Collected, BaseInv, CommunityTypeOK, InventoryTypeOK
  <1>5. TablesOK' /\ RestOK'
    BY <1>2, <1>4, OtherTables, TypesAre DEF BaseInv, TablesOK, RestOK
  <1>6. QED
    BY <1>1, <1>2, <1>3, <1>5, TypesAre, MovesType DEF BaseInv

\* Saving, or failing to, is a step of a clan or a follow request.
LEMMA SavingIs ==
    ASSUME BaseInv, NEW s \in Slot, Busy(s), work[s].at \in {"save", "copy"}
    PROVE  work[s].op \in ClanOps \cup FollowOps /\ work[s].acct \in Account /\ work[s].row \in Row
  BY OtherJobIs, JobFields DEF BaseInv, CommunityTypeOK

LEMMA FollowsMoves ==
    ASSUME BaseInv, NEW s \in Slot, Busy(s), work[s].at \in {"save", "copy"},
           Follows(s, AfterSave(work[s])),
           resetting' = resetting, removed' = removed,
           crossed' = crossed \/ crossed' = crossed \cup Stakes(work[s])
    PROVE  Moves(s)
  <1>1. CASE work[s].op \in FollowOps /\ work[s].acct = work[s].who
    BY <1>1, GoesMoves DEF Follows, AfterSave, FollowOps, ClanOps, Stage
  <1>2. CASE ~(work[s].op \in FollowOps /\ work[s].acct = work[s].who)
    BY <1>2, EndsMoves DEF Follows, AfterSave, FollowOps
  <1>3. QED
    BY <1>1, <1>2

LEMMA AccountSavedStep ==
    ASSUME BaseInv, NEW s \in Slot, AccountSaved(s)
    PROVE  Moves(s) /\ CommunityTypeOK' /\ UNCHANGED resetTables
  <1>1. Busy(s) /\ work[s].at \in {"save", "copy"} /\ UNCHANGED resetTables
    BY DEF AccountSaved, SaveRow, CopyRow, At
  <1>2. /\ UNCHANGED <<skewed, removed, resetting>> /\ BegunOK'
        /\ crossed' = crossed \/ crossed' = crossed \cup Stakes(work[s])
    BY MarredIs, OrderlyIs, TypesAre DEF AccountSaved, SaveRow, CopyRow, BaseInv, RestOK, BegunOK
  <1>3. Moves(s)
    <2>1. CASE Goes(s, "copy") /\ At(s, "save")
      BY <1>1, <1>2, <2>1, SavingIs, GoesMoves DEF Stage, ClanOps, FollowOps
    <2>2. CASE Follows(s, AfterSave(work[s]))
      BY <1>1, <1>2, <2>2, FollowsMoves
    <2>3. QED
      BY <2>1, <2>2 DEF AccountSaved, SaveRow, CopyRow
  <1>4. rows' \in [Account -> Row \cup {NoRow}] /\ cached' \in [Account -> Row \cup {NoRow}]
    BY <1>1, SavingIs, TypesAre DEF AccountSaved, SaveRow, CopyRow, BaseInv
  <1>5. TablesOK' /\ RestOK'
    BY <1>1, <1>2, OtherTables, TypesAre DEF BaseInv, TablesOK, RestOK, resetTables
  <1>6. QED
    BY <1>1, <1>3, <1>4, <1>5, MovesType

LEMMA DiesStep ==
    ASSUME BaseInv, NEW s \in Slot, RequestDies(s)
    PROVE  /\ Moves(s) /\ CommunityTypeOK'
           /\ UNCHANGED <<rowVars, resetTables>> /\ work'[s] = Idle
           /\ crossed' = crossed \cup Stakes(work[s]) /\ skewed' = skewed
  <1>1. /\ Busy(s) /\ Ends(s) /\ UNCHANGED <<rowVars, resetTables, skewed, removed, resetting>> /\ BegunOK'
        /\ crossed' = crossed \cup Stakes(work[s])
    BY MarredIs, TypesAre DEF RequestDies, Dies, BaseInv, RestOK
  <1>2. Moves(s)
    BY <1>1, EndsMoves
  <1>3. TablesOK' /\ RestOK'
    BY <1>1, OtherTables, TypesAre DEF BaseInv, TablesOK, RestOK, resetTables
  <1>4. QED
    BY <1>1, <1>2, <1>3, EndsJob, TypesAre, MovesType DEF BaseInv, rowVars, CommunityTypeOK

\* A request at work moves on, and keeps every type.
LEMMA WorkStep ==
    ASSUME BaseInv, NEW s \in Slot,
           ClanWorks(s) \/ SocialWorks(s) \/ CollectWorks(s) \/ AccountSaved(s) \/ RequestDies(s)
    PROVE  Moves(s) /\ CommunityTypeOK'
  <1>1. CASE ClanWorks(s)
    BY <1>1, CreateClanStep, JoinClanStep, LeaveClanStep, CacheClanStep, DropClanStep, LeaveLoadStep
    DEF ClanWorks, ClanStep
  <1>2. CASE SocialWorks(s)
    BY <1>2, FollowEdgeStep, SetsStep, CountsStep, PostStep DEF SocialWorks, SocialStep
  <1>3. CASE CollectWorks(s)
    BY <1>3, CollectLoadStep, CollectSaveStep DEF CollectWorks, InventoryStep
  <1>4. QED
    BY <1>1, <1>2, <1>3, AccountSavedStep, DiesStep

-----------------------------------------------------------------------------
(* A request begins. *)

\* A request as it begins.
Fresh(j) ==
    /\ j \in Job /\ JobShape(j) /\ j.cards = {}
    /\ j.op = "collect" => j.at = "load"
    /\ j.op # "collect" => j.at = "table"
    /\ j.op \in {"create", "join"} => j.row \in Copies(j.who)

Starts(s) == \E j : Fresh(j) /\ Begins(s, j) /\ UNCHANGED <<rowVars, resetTables>>

LEMMA AsksIs ==
    ASSUME NEW op \in Op, NEW stage \in Stage, NEW a \in Account,
           NEW x \in Account \cup Tag \cup Card \cup Entry, NEW row \in Row
    PROVE  /\ Asks(op, stage, a, x, row) \in Job
           /\ Asks(op, stage, a, x, row).op = op /\ Asks(op, stage, a, x, row).at = stage
           /\ Asks(op, stage, a, x, row).who = a /\ Asks(op, stage, a, x, row).on = x
           /\ Asks(op, stage, a, x, row).acct = a /\ Asks(op, stage, a, x, row).row = row
           /\ Asks(op, stage, a, x, row).cards = {}
  BY DEF Asks, Job, Stage

LEMMA BlankIsRow == Blank \in Row
  BY RowsAssumption DEF Blank, Row

LEMMA RequestStarts ==
    ASSUME BaseInv, NEW s \in Slot, ClanRequest(s) \/ SocialRequest(s) \/ CollectRequest(s)
    PROVE  Starts(s)
  <1>1. ASSUME NEW a \in Account, NEW t \in Tag, NEW op \in ClanOps, NEW row \in Row,
               op # "leave" => row \in Copies(a)
        PROVE  Fresh(Asks(op, "table", a, t, row))
    <2>1. op \in Op /\ "table" \in Stage /\ op \notin FollowOps \cup {"post", "collect"}
      BY DEF ClanOps, Op, Stage, FollowOps
    <2>2. QED
      BY <1>1, <2>1, AsksIs DEF Fresh, JobShape, ClanOps
  <1>2. ASSUME NEW a \in Account, NEW b \in Account, a # b, NEW op \in FollowOps
        PROVE  Fresh(Asks(op, "table", a, b, Blank))
    <2>1. op \in Op /\ "table" \in Stage /\ op \notin ClanOps \cup {"post", "collect"}
      BY DEF ClanOps, Op, Stage, FollowOps
    <2>2. QED
      BY <1>2, <2>1, AsksIs, BlankIsRow DEF Fresh, JobShape, FollowOps, ClanOps
  <1>3. ASSUME NEW a \in Account, NEW e \in Entry
        PROVE  Fresh(Asks("post", "table", a, e, Blank))
    <2>1. "post" \in Op /\ "table" \in Stage /\ "post" \notin ClanOps \cup FollowOps
      BY DEF ClanOps, Op, Stage, FollowOps
    <2>2. QED
      BY <2>1, AsksIs, BlankIsRow DEF Fresh, JobShape, ClanOps, FollowOps
  <1>4. ASSUME NEW a \in Account, NEW x \in Card
        PROVE  Fresh(Asks("collect", "load", a, x, Blank))
    <2>1. "collect" \in Op /\ "load" \in Stage /\ "collect" \notin ClanOps \cup FollowOps
      BY DEF ClanOps, Op, Stage, FollowOps
    <2>2. QED
      BY <2>1, AsksIs, BlankIsRow DEF Fresh, JobShape, ClanOps, FollowOps
  <1>5. CASE ClanRequest(s)
    <2>1. UNCHANGED <<rowVars, resetTables>>
      BY <1>5 DEF ClanRequest, AskCreate, AskJoin, AskLeave, resetTables
    <2>2. PICK a \in Account, t \in Tag : AskCreate(s, a, t) \/ AskJoin(s, a, t) \/ AskLeave(s, a, t)
      BY <1>5 DEF ClanRequest
    <2>3. ASSUME NEW op \in ClanOps, NEW row \in Copies(a), Begins(s, Asks(op, "table", a, t, row))
          PROVE  Starts(s)
      BY <1>1, <2>1, <2>3, CopiesAreRows DEF Starts
    <2>4. CASE AskLeave(s, a, t)
      <3>1. Fresh(Asks("leave", "table", a, t, Blank))
        BY <1>1, BlankIsRow DEF ClanOps
      <3>2. QED
        BY <2>1, <2>4, <3>1 DEF AskLeave, Starts
    <2>5. QED
      BY <2>2, <2>3, <2>4 DEF AskCreate, AskJoin, ClanOps
  <1>6. CASE SocialRequest(s)
    <2>1. UNCHANGED <<rowVars, resetTables>>
      BY <1>6 DEF SocialRequest, AskFollow, AskPost, resetTables
    <2>2. QED
      BY <1>2, <1>3, <1>6, <2>1 DEF SocialRequest, AskFollow, AskPost, Starts, FollowOps
  <1>7. CASE CollectRequest(s)
    <2>1. UNCHANGED <<rowVars, resetTables>>
      BY <1>7 DEF CollectRequest, AskCollect, resetTables
    <2>2. QED
      BY <1>4, <1>7, <2>1 DEF CollectRequest, AskCollect, Starts
  <1>8. QED
    BY <1>5, <1>6, <1>7

\* The shared state after request s has begun with j.
LEMMA BeginsIs ==
    ASSUME BaseInv, NEW s \in Slot, NEW j, Fresh(j), Begins(s, j)
    PROVE  /\ ~Busy(s) /\ work'[s] = j /\ j # Idle
           /\ work' = [work EXCEPT ![s] = j] /\ work' \in [Slot -> Job \cup {Idle}]
           /\ crossed' = crossed \cup {x \in Stakes(j) : ~Quiet(x)}
           /\ resetting = Idle => resetting' = Idle /\ skewed' = skewed
           /\ resetting # Idle => /\ resetting' = [resetting EXCEPT !.clear = @ \ Accounts(j)]
                                  /\ resetting' # Idle /\ resetting' \in Reset /\ resetting \in Reset
                                  /\ skewed' = skewed \cup (Tag \cap {j.on})
           /\ removed' = removed \ Accounts(j)
           /\ RestOK' /\ ResetTypeOK'
  <1>1. work \in [Slot -> Job \cup {Idle}] /\ RestOK /\ ResetTypeOK /\ j \in Job
    BY TypesAre DEF BaseInv, Fresh
  <1>2. resetting # Idle => resetting \in Reset /\ [resetting EXCEPT !.clear = @ \ Accounts(j)] \in Reset
    BY <1>1 DEF ResetTypeOK, Reset
  <1>3. BegunOK'
    BY <1>1, RowsAssumption DEF RestOK, BegunOK, Begins
  <1>4. skewed' \subseteq Account \cup Tag
    BY <1>1 DEF RestOK, Begins
  <1>5. QED
    BY <1>1, <1>2, <1>3, <1>4, RowsAssumption, ResetAssumption DEF Begins, RestOK, ResetTypeOK

LEMMA StartsType ==
    ASSUME BaseInv, NEW s \in Slot, Starts(s)
    PROVE  CommunityTypeOK' /\ JobsShaped'
  <1>1. PICK j : Fresh(j) /\ Begins(s, j) /\ UNCHANGED <<rowVars, resetTables>>
    BY DEF Starts
  <1>2. /\ work'[s] = j /\ work' = [work EXCEPT ![s] = j] /\ work' \in [Slot -> Job \cup {Idle}]
        /\ removed' \subseteq Account /\ RestOK' /\ ResetTypeOK'
    BY <1>1, BeginsIs, TypesAre DEF BaseInv
  <1>3. TablesOK'
    BY <1>1, OtherTables DEF TablesOK, resetTables
  <1>4. CommunityTypeOK'
    BY <1>1, <1>2, <1>3, TypesAre DEF BaseInv, CommunityTypeOK, RowsTypeOK, TablesOK, RestOK, BegunOK, rowVars
  <1>5. JobsShaped'
    BY <1>1, <1>2, TypesAre DEF BaseInv, JobsShaped, Busy, Fresh
  <1>6. QED
    BY <1>4, <1>5

-----------------------------------------------------------------------------
(* The reset moves on. *)

LEMMA ResetFields ==
    ASSUME BaseInv, resetting # Idle
    PROVE  /\ resetting \in Reset
           /\ resetting.at \in {"sets", "keys", "feed", "rows"}
           /\ resetting.humans \in SUBSET Account /\ Gone \in SUBSET Account
           /\ resetting.clear \in SUBSET Account
           /\ resetting.edges \in SUBSET (Account \X Account)
           /\ resetting.members \in SUBSET (Tag \X Account)
           /\ resetting.posts \in SUBSET (Entry \X Account)
           /\ resetting.led \in SUBSET Tag /\ resetting.owners \in SUBSET Account
           /\ resetting.feed \in SUBSET (Entry \X Account)
  BY TypesAre DEF BaseInv, ResetTypeOK, Reset, Gone

Humans == {a \in Human : rows[a] # NoRow}

LEMMA ResetReadsIs ==
    ASSUME BaseInv, ResetReads
    PROVE  /\ resetting = Idle /\ resetting' # Idle /\ resetting' \in Reset
           /\ resetting'.at = "sets" /\ resetting'.humans = Humans
           /\ resetting'.clear = Humans \ UNION {Accounts(j) : j \in Jobs}
           /\ resetting'.edges = edges /\ resetting'.members = members /\ resetting'.posts = posts
           /\ resetting'.led = {t \in Tag : clans[t] # NoClan /\ clans[t].leader \in Humans}
           /\ resetting'.owners = {a \in Humans : inventory[a] # {}} /\ resetting'.feed = feed
           /\ crossed' = crossed \cup AtStake /\ skewed' = skewed \cup (Tag \cap AtStake)
           /\ UNCHANGED <<removed, work, rowVars, resetTables>>
           /\ CommunityTypeOK'
  <1> DEFINE r == [at |-> "sets", humans |-> Humans, clear |-> Humans \ UNION {Accounts(j) : j \in Jobs},
                   edges |-> edges, members |-> members, posts |-> posts,
                   led |-> {t \in Tag : clans[t] # NoClan /\ clans[t].leader \in Humans},
                   owners |-> {a \in Humans : inventory[a] # {}}, feed |-> feed]
  <1>1. CommunityTypeOK /\ Humans \subseteq Account
    BY ResetAssumption DEF BaseInv, Humans
  <1>2. r \in Reset
    BY <1>1 DEF Reset, CommunityTypeOK, SocialTypeOK, ClansTypeOK
  <1>3. resetting' = r
    BY DEF ResetReads, Humans
  <1>4. /\ resetting'.at = "sets" /\ resetting'.humans = Humans
        /\ resetting'.clear = Humans \ UNION {Accounts(j) : j \in Jobs}
        /\ resetting'.edges = edges /\ resetting'.members = members /\ resetting'.posts = posts
        /\ resetting'.led = {t \in Tag : clans[t] # NoClan /\ clans[t].leader \in Humans}
        /\ resetting'.owners = {a \in Humans : inventory[a] # {}} /\ resetting'.feed = feed
    BY <1>3
  <1> HIDE DEF r
  <1>5. /\ resetting = Idle /\ crossed' = crossed \cup AtStake /\ skewed' = skewed \cup (Tag \cap AtStake)
        /\ UNCHANGED <<removed, work, rowVars, resetTables>>
    BY DEF ResetReads
  <1>6. BegunOK'
    BY TypesAre, RowsAssumption DEF BaseInv, RestOK, BegunOK, ResetReads
  <1>7. TablesOK' /\ RestOK'
    BY <1>5, <1>6, OtherTables, TypesAre DEF BaseInv, TablesOK, RestOK, resetTables
  <1>8. CommunityTypeOK'
    BY <1>2, <1>3, <1>5, <1>7, TypesAre DEF BaseInv, CommunityTypeOK, RowsTypeOK, TablesOK, RestOK, BegunOK,
       rowVars, ResetTypeOK
  <1>9. QED
    BY <1>2, <1>3, <1>4, <1>5, <1>8, ResetAssumption

Work == <<work, crossed, skewed, removed, begun>>

\* What stays of a reset's reading from stage to stage.
SameReset ==
    /\ resetting' \in Reset /\ resetting' # Idle
    /\ resetting'.humans = resetting.humans /\ resetting'.clear = resetting.clear
    /\ resetting'.edges = resetting.edges /\ resetting'.members = resetting.members
    /\ resetting'.posts = resetting.posts /\ resetting'.led = resetting.led
    /\ resetting'.owners = resetting.owners

LEMMA ResetGoesIs ==
    ASSUME BaseInv, resetting # Idle, NEW stage \in {"keys", "feed", "rows"}, ResetGoes(stage)
    PROVE  SameReset /\ resetting'.at = stage /\ resetting'.feed = resetting.feed
  <1>1. resetting \in Reset
    BY ResetFields
  <1>2. resetting' = [resetting EXCEPT !.at = stage]
    BY DEF ResetGoes
  <1>3. resetting' \in Reset
    BY <1>1, <1>2 DEF Reset
  <1>4. QED
    BY <1>1, <1>2, <1>3, ResetAssumption DEF SameReset, Reset

\* What a step of the reset must still show for its types.
LEMMA ResetType ==
    ASSUME BaseInv, UNCHANGED Work, TablesOK', ResetTypeOK',
           rows' \in [Account -> Row \cup {NoRow}], cached' \in [Account -> Row \cup {NoRow}]
    PROVE  CommunityTypeOK'
  BY TypesAre DEF Work, BaseInv, CommunityTypeOK, RowsTypeOK, TablesOK, RestOK, BegunOK

LEMMA ResetSetsIs ==
    ASSUME BaseInv, ResetSets
    PROVE  /\ resetting # Idle /\ resetting.at = "sets"
           /\ SameReset /\ resetting'.at = "keys" /\ resetting'.feed = feed
           /\ UNCHANGED Work /\ UNCHANGED <<rowVars, clanVars, edges, postVars, inventoryVars>>
           /\ \A a \in Account : following'[a] = IF a \in Gone THEN following[a] ELSE following[a] \ Gone
           /\ \A a \in Account : followers'[a] = IF a \in Gone THEN followers[a] ELSE followers[a] \ Gone
           /\ CommunityTypeOK'
  <1>1. /\ resetting # Idle /\ resetting.at = "sets" /\ UNCHANGED Work
        /\ UNCHANGED <<rowVars, clanVars, edges, postVars, inventoryVars>>
    BY DEF ResetSets, ResetAt, Work, historyVars
  <1>2. resetting \in Reset /\ feed \in SUBSET (Entry \X Account)
    BY <1>1, ResetFields DEF BaseInv, CommunityTypeOK, SocialTypeOK
  <1>3. resetting' = [resetting EXCEPT !.at = "keys", !.feed = feed]
    BY DEF ResetSets
  <1>4. resetting' \in Reset
    BY <1>2, <1>3 DEF Reset
  <1>5. SameReset /\ resetting'.at = "keys" /\ resetting'.feed = feed
    BY <1>2, <1>3, <1>4, ResetAssumption DEF SameReset, Reset
  <1>6. /\ \A a \in Account : following'[a] = IF a \in Gone THEN following[a] ELSE following[a] \ Gone
        /\ \A a \in Account : followers'[a] = IF a \in Gone THEN followers[a] ELSE followers[a] \ Gone
    BY DEF ResetSets
  <1>7. SocialTypeOK'
    BY <1>1 DEF ResetSets, BaseInv, CommunityTypeOK, SocialTypeOK, postVars
  <1>8. TablesOK'
    BY <1>1, <1>7, OtherTables DEF TablesOK
  <1>9. CommunityTypeOK'
    BY <1>1, <1>4, <1>8, ResetType, TypesAre DEF BaseInv, rowVars, ResetTypeOK
  <1>10. QED
    BY <1>1, <1>5, <1>6, <1>9

LEMMA ResetKeysIs ==
    ASSUME BaseInv, ResetKeys
    PROVE  /\ resetting # Idle /\ resetting.at = "keys"
           /\ SameReset /\ resetting'.at = "feed" /\ resetting'.feed = resetting.feed
           /\ UNCHANGED Work /\ UNCHANGED <<rows, clans, members, edges, postVars, inventoryVars>>
           /\ \A a \in Account : cached'[a] = IF a \in Gone THEN NoRow ELSE cached[a]
           /\ \A a \in Account : following'[a] = IF a \in Gone THEN {} ELSE following[a]
           /\ \A a \in Account : followers'[a] = IF a \in Gone THEN {} ELSE followers[a]
           /\ \A t \in Tag : clanCopy'[t] = IF t \in resetting.led \/ LostIn(t) > 0 THEN NoClan
                                            ELSE clanCopy[t]
           /\ CommunityTypeOK'
  <1>1. /\ resetting # Idle /\ resetting.at = "keys" /\ UNCHANGED Work
        /\ UNCHANGED <<rows, clans, members, edges, postVars, inventoryVars>>
    BY DEF ResetKeys, ResetAt, Work, historyVars
  <1>2. SameReset /\ resetting'.at = "feed" /\ resetting'.feed = resetting.feed
    BY <1>1, ResetGoesIs DEF ResetKeys
  <1>3. /\ \A a \in Account : cached'[a] = IF a \in Gone THEN NoRow ELSE cached[a]
        /\ \A a \in Account : following'[a] = IF a \in Gone THEN {} ELSE following[a]
        /\ \A a \in Account : followers'[a] = IF a \in Gone THEN {} ELSE followers[a]
        /\ \A t \in Tag : clanCopy'[t] = IF t \in resetting.led \/ LostIn(t) > 0 THEN NoClan ELSE clanCopy[t]
    BY DEF ResetKeys
  <1>4. SocialTypeOK'
    BY <1>1 DEF ResetKeys, BaseInv, CommunityTypeOK, SocialTypeOK, postVars
  <1>5. ClansTypeOK'
    BY <1>1 DEF ResetKeys, BaseInv, CommunityTypeOK, ClansTypeOK
  <1>6. cached' \in [Account -> Row \cup {NoRow}]
    BY TypesAre DEF ResetKeys, BaseInv
  <1>7. TablesOK'
    BY <1>1, <1>4, <1>5, OtherTables DEF TablesOK
  <1>8. CommunityTypeOK'
    BY <1>1, <1>2, <1>6, <1>7, ResetType, TypesAre DEF BaseInv, ResetTypeOK, SameReset
  <1>9. QED
    BY <1>1, <1>2, <1>3, <1>8

LEMMA ResetFeedIs ==
    ASSUME BaseInv, ResetFeed
    PROVE  /\ resetting # Idle /\ resetting.at = "feed"
           /\ SameReset /\ resetting'.at = "rows" /\ resetting'.feed = resetting.feed
           /\ UNCHANGED Work /\ UNCHANGED <<rowVars, clanVars, graphVars, posts, inventoryVars>>
           /\ \/ feed' = feed /\ \A p \in resetting.feed : p[2] \notin Gone
              \/ feed' = {p \in resetting.feed : p[2] \notin Gone}
           /\ CommunityTypeOK'
  <1>1. /\ resetting # Idle /\ resetting.at = "feed" /\ UNCHANGED Work
        /\ UNCHANGED <<rowVars, clanVars, graphVars, posts, inventoryVars>>
    BY DEF ResetFeed, ResetAt, Work, historyVars
  <1>2. SameReset /\ resetting'.at = "rows" /\ resetting'.feed = resetting.feed
    BY <1>1, ResetGoesIs DEF ResetFeed
  <1>3. \/ feed' = feed /\ \A p \in resetting.feed : p[2] \notin Gone
        \/ feed' = {p \in resetting.feed : p[2] \notin Gone}
    BY DEF ResetFeed
  <1>4. SocialTypeOK'
    BY <1>1, <1>3, ResetFields DEF BaseInv, CommunityTypeOK, SocialTypeOK, graphVars
  <1>5. TablesOK'
    BY <1>1, <1>4, OtherTables DEF TablesOK
  <1>6. CommunityTypeOK'
    BY <1>1, <1>2, <1>5, ResetType, TypesAre DEF BaseInv, ResetTypeOK, SameReset, rowVars
  <1>7. QED
    BY <1>1, <1>2, <1>3, <1>6

\* The accounts that form pairs with one and the same other are counted.
LEMMA PairsCount ==
    ASSUME NEW S, NEW x, \A m \in S : m[2] \in Account /\ m = <<x, m[2]>>
    PROVE  IsFiniteSet(S) /\ Cardinality(S) \in Nat /\ Cardinality(S) <= MaxCount
  <1> DEFINE second == [m \in S |-> m[2]]
  <1>1. second \in Injection(S, Account)
    BY DEF Injection, IsInjective
  <1>2. IsFiniteSet(S) /\ Cardinality(S) <= Cardinality(Account)
    BY <1>1, CountAssumption, FS_Injection
  <1>3. Cardinality(S) \in Nat /\ Cardinality(Account) \in Nat
    BY <1>2, CountAssumption, FS_CardinalityType
  <1>4. QED
    BY <1>2, <1>3, CountAssumption, RowsAssumption

LEMMA LostCounts ==
    ASSUME BaseInv, resetting # Idle, NEW t \in Tag
    PROVE  LostIn(t) \in Nat /\ IsFiniteSet({m \in LostMembers : m[1] = t})
  <1>1. \A m \in {m \in LostMembers : m[1] = t} : m[2] \in Account /\ m = <<t, m[2]>>
    BY ResetFields DEF LostMembers
  <1>2. QED
    BY <1>1, PairsCount DEF LostIn

LEMMA ClanLessType ==
    ASSUME BaseInv, resetting # Idle, NEW t \in Tag
    PROVE  ClanLess(t) \in Clan \cup {NoClan}
  <1>1. LostIn(t) \in Nat
    BY LostCounts
  <1>2. clans[t] \in Clan \cup {NoClan}
    BY DEF BaseInv, CommunityTypeOK, ClansTypeOK
  <1>3. ASSUME clans[t] # NoClan
        PROVE  [clans[t] EXCEPT !.count = IF @ > LostIn(t) THEN @ - LostIn(t) ELSE 0] \in Clan
    BY <1>1, <1>2, <1>3, RowsAssumption DEF Clan
  <1>4. QED
    BY <1>2, <1>3 DEF ClanLess

LEMMA ResetRowsIs ==
    ASSUME BaseInv, ResetRows
    PROVE  /\ resetting # Idle /\ resetting.at = "rows" /\ resetting' = Idle
           /\ UNCHANGED <<cached, work, clanCopy, following, followers, feed, begun>>
           /\ \A a \in Account : rows'[a] = IF a \in Gone THEN NoRow ELSE rows[a]
           /\ \A t \in Tag : clans'[t] = ClanLess(t)
           /\ members' = members \ LostMembers /\ edges' = edges \ LostEdges
           /\ posts' = posts \ {p \in resetting.posts : p[2] \in Gone}
           /\ \A a \in Account : inventory'[a] = IF a \in resetting.owners THEN {} ELSE inventory[a]
           /\ \A a \in Account : gained'[a] = IF a \in Gone THEN {} ELSE gained[a]
           /\ skewed' = skewed \cup {a \in Account : \E e \in LostEdges : a \in {e[1], e[2]}}
           /\ crossed' = crossed \cup {m[2] : m \in LostMembers}
           /\ removed' = removed \cup resetting.clear
           /\ CommunityTypeOK'
  <1>1. /\ resetting # Idle /\ resetting.at = "rows" /\ resetting' = Idle
        /\ UNCHANGED <<cached, work, clanCopy, following, followers, feed, begun>>
        /\ members' = members \ LostMembers /\ edges' = edges \ LostEdges
        /\ posts' = posts \ {p \in resetting.posts : p[2] \in Gone}
        /\ skewed' = skewed \cup {a \in Account : \E e \in LostEdges : a \in {e[1], e[2]}}
        /\ crossed' = crossed \cup {m[2] : m \in LostMembers}
        /\ removed' = removed \cup resetting.clear
    BY DEF ResetRows, ResetAt
  <1>2. /\ \A a \in Account : rows'[a] = IF a \in Gone THEN NoRow ELSE rows[a]
        /\ \A t \in Tag : clans'[t] = ClanLess(t)
        /\ \A a \in Account : inventory'[a] = IF a \in resetting.owners THEN {} ELSE inventory[a]
        /\ \A a \in Account : gained'[a] = IF a \in Gone THEN {} ELSE gained[a]
    BY DEF ResetRows
  <1>3. ClansTypeOK'
    <2>1. clans' = [t \in Tag |-> ClanLess(t)]
      BY DEF ResetRows
    <2>2. clans' \in [Tag -> Clan \cup {NoClan}]
      BY <1>1, <2>1, ClanLessType
    <2>3. QED
      BY <1>1, <2>2 DEF BaseInv, CommunityTypeOK, ClansTypeOK
  <1>4. SocialTypeOK'
    BY <1>1 DEF BaseInv, CommunityTypeOK, SocialTypeOK
  <1>5. InventoryTypeOK'
    BY DEF ResetRows, BaseInv, CommunityTypeOK, InventoryTypeOK
  <1>6. rows' \in [Account -> Row \cup {NoRow}] /\ cached' \in [Account -> Row \cup {NoRow}]
    BY <1>1, TypesAre DEF ResetRows, BaseInv
  <1>7. removed' \subseteq Account /\ skewed' \subseteq Account \cup Tag
    BY <1>1, ResetFields, TypesAre DEF BaseInv, RestOK
  <1>8. CommunityTypeOK'
    BY <1>1, <1>3, <1>4, <1>5, <1>6, <1>7, TypesAre
    DEF BaseInv, CommunityTypeOK, RowsTypeOK, TablesOK, RestOK, BegunOK, ResetTypeOK
  <1>9. QED
    BY <1>1, <1>2, <1>8

LEMMA ResetFailsIs ==
    ASSUME BaseInv, ResetFails
    PROVE  /\ resetting # Idle /\ resetting' = Idle
           /\ crossed' = crossed \cup Account \cup Tag \cup (Account \X Account)
           /\ UNCHANGED <<skewed, removed, rowVars, work, resetTables>>
           /\ CommunityTypeOK'
  <1>1. /\ resetting # Idle /\ resetting' = Idle
        /\ crossed' = crossed \cup Account \cup Tag \cup (Account \X Account)
        /\ UNCHANGED <<skewed, removed, rowVars, work, resetTables>>
    BY DEF ResetFails
  <1>2. BegunOK'
    BY TypesAre, RowsAssumption DEF BaseInv, RestOK, BegunOK, ResetFails, Failure
  <1>3. TablesOK'
    BY <1>1, OtherTables DEF TablesOK, resetTables
  <1>4. QED
    BY <1>1, <1>2, <1>3, TypesAre
    DEF BaseInv, CommunityTypeOK, RowsTypeOK, TablesOK, RestOK, BegunOK, ResetTypeOK, rowVars

LEMMA ResetStepType ==
    ASSUME BaseInv, ResetStep
    PROVE  /\ CommunityTypeOK' /\ work' = work /\ crossed \subseteq crossed'
           /\ resetting = Idle \/ resetting' = Idle \/ (resetting' # Idle /\ crossed' = crossed)
           /\ resetting = Idle => crossed' = crossed \cup AtStake
  BY ResetReadsIs, ResetSetsIs, ResetKeysIs, ResetFeedIs, ResetRowsIs, ResetFailsIs DEF ResetStep, Work, SameReset

-----------------------------------------------------------------------------
(* Who has what to itself. *)

LEMMA JobsAreBusy ==
    /\ \A s \in Slot : Busy(s) => \A x \in Stakes(work[s]) : x \in AtStake
    /\ \A x \in AtStake : \E s \in Slot : Busy(s) /\ x \in Stakes(work[s])
  BY DEF AtStake, Jobs

LEMMA MovesAlone ==
    ASSUME BaseInv, NEW s \in Slot, Moves(s)
    PROVE  JobsShaped' /\ StakesAlone' /\ (resetting' = resetting /\ crossed \subseteq crossed')
  <1>1. \A q \in Slot : q # s => work'[q] = work[q]
    BY TypesAre DEF BaseInv, Moves
  <1>2. \A q \in Slot : work'[q] # Idle => work[q] # Idle /\ Stakes(work'[q]) = Stakes(work[q])
    BY <1>1, StakesOfCause DEF Moves, Busy
  <1>3. resetting' = resetting /\ crossed \subseteq crossed'
    BY DEF Moves
  <1>4. JobsShaped'
    BY <1>1 DEF BaseInv, JobsShaped, Moves, Busy
  <1>5. StakesAlone'
    BY <1>2, <1>3 DEF BaseInv, StakesAlone, Busy
  <1>6. QED
    BY <1>3, <1>4, <1>5

LEMMA StartsAlone ==
    ASSUME BaseInv, NEW s \in Slot, Starts(s)
    PROVE  StakesAlone'
  <1>1. PICK j : Fresh(j) /\ Begins(s, j)
    BY DEF Starts
  <1>2. /\ ~Busy(s) /\ work'[s] = j /\ \A q \in Slot : q # s => work'[q] = work[q]
        /\ crossed' = crossed \cup {x \in Stakes(j) : ~Quiet(x)}
        /\ resetting = Idle => resetting' = Idle
    BY <1>1, BeginsIs, TypesAre DEF BaseInv
  <1> SUFFICES ASSUME NEW q \in Slot, work'[q] # Idle, NEW x \in Stakes(work'[q]), x \notin crossed'
               PROVE  /\ resetting' = Idle
                      /\ \A p \in Slot : work'[p] # Idle /\ x \in Stakes(work'[p]) => p = q
    BY DEF StakesAlone, Busy
  <1>3. CASE q = s
    <2>1. resetting = Idle /\ x \notin AtStake
      BY <1>2, <1>3 DEF Quiet
    <2>2. QED
      BY <1>2, <1>3, <2>1, JobsAreBusy DEF Busy
  <1>4. CASE q # s
    <2>1. work[q] # Idle /\ x \in Stakes(work[q]) /\ x \notin crossed
      BY <1>2, <1>4
    <2>2. x \notin Stakes(j)
      BY <1>2, <2>1, JobsAreBusy DEF Quiet, Busy
    <2>3. QED
      BY <1>2, <2>1, <2>2 DEF BaseInv, StakesAlone, Busy
  <1>5. QED
    BY <1>3, <1>4

LEMMA ResetAlone ==
    ASSUME BaseInv, ResetStep
    PROVE  JobsShaped' /\ StakesAlone'
  <1>1. work' = work /\ crossed \subseteq crossed'
    BY ResetStepType
  <1>2. JobsShaped'
    BY <1>1 DEF BaseInv, JobsShaped, Busy
  <1>3. ASSUME NEW s \in Slot, work[s] # Idle PROVE Stakes(work[s]) \subseteq crossed'
    <2>1. CASE resetting = Idle
      BY <1>3, <2>1, ResetStepType, JobsAreBusy DEF Busy
    <2>2. CASE resetting # Idle
      BY <1>1, <1>3, <2>2 DEF BaseInv, StakesAlone, Busy
    <2>3. QED
      BY <2>1, <2>2
  <1>4. StakesAlone'
    BY <1>1, <1>3 DEF StakesAlone, Busy
  <1>5. QED
    BY <1>2, <1>4

-----------------------------------------------------------------------------
(* Types and stakes, over all steps. *)

\* The steps of the community, by what they are proved to do.
LEMMA StepKinds ==
    ASSUME BaseInv, [CommunityNext]_vars
    PROVE  \/ \E s \in Slot : Starts(s) /\ (ClanRequest(s) \/ SocialRequest(s) \/ CollectRequest(s))
           \/ \E s \in Slot : /\ Moves(s) /\ CommunityTypeOK'
                              /\ \/ ClanWorks(s) \/ SocialWorks(s) \/ CollectWorks(s)
                                 \/ AccountSaved(s) \/ RequestDies(s)
           \/ ResetStep
           \/ UNCHANGED vars
  BY RequestStarts, WorkStep DEF CommunityNext

LEMMA BaseStep ==
    ASSUME BaseInv, [CommunityNext]_vars
    PROVE  BaseInv'
  <1>1. ASSUME NEW s \in Slot, Starts(s) PROVE BaseInv'
    BY <1>1, StartsType, StartsAlone DEF BaseInv
  <1>2. ASSUME NEW s \in Slot, Moves(s), CommunityTypeOK' PROVE BaseInv'
    BY <1>2, MovesAlone DEF BaseInv
  <1>3. CASE ResetStep
    BY <1>3, ResetStepType, ResetAlone DEF BaseInv
  <1>4. CASE UNCHANGED vars
    <2>1. CommunityTypeOK'
      BY <1>4 DEF vars, pathVars, historyVars, rowVars, resetTables, clanVars, socialVars, graphVars, postVars,
         inventoryVars, BaseInv, CommunityTypeOK, RowsTypeOK, ClansTypeOK, SocialTypeOK, InventoryTypeOK, ResetTypeOK
    <2>2. JobsShaped' /\ StakesAlone'
      BY <1>4 DEF vars, pathVars, historyVars, BaseInv, JobsShaped, StakesAlone, Busy
    <2>3. QED
      BY <2>1, <2>2 DEF BaseInv
  <1>5. QED
    BY <1>1, <1>2, <1>3, <1>4, StepKinds

LEMMA BaseInit ==
    ASSUME CommunityInit
    PROVE  BaseInv /\ \A s \in Slot : ~Busy(s)
  <1>1. \A s \in Slot : ~Busy(s)
    BY DEF CommunityInit, RowsInit, Busy
  <1>2. CommunityTypeOK
    BY BlankIsRow, RowsAssumption
    DEF CommunityInit, RowsInit, ClansInit, SocialInit, InventoryInit,
        CommunityTypeOK, RowsTypeOK, ClansTypeOK, SocialTypeOK, InventoryTypeOK, ResetTypeOK
  <1>3. QED
    BY <1>1, <1>2 DEF BaseInv, JobsShaped, StakesAlone

\* Requests are of the shape their handlers give them, each has what it is about
\* to itself or is remembered as crossed.
THEOREM BaseInvariant == CommunitySpec => []BaseInv
  <1>1. CommunityInit => BaseInv
    BY BaseInit
  <1>2. BaseInv /\ [CommunityNext]_vars => BaseInv'
    BY BaseStep
  <1>3. QED
    BY <1>1, <1>2, PTL DEF CommunitySpec

\* Every table, cache, request and reset holds what the handlers put there.
THEOREM CommunityTypes == CommunitySpec => []CommunityTypeOK
  <1>1. BaseInv => CommunityTypeOK
    BY DEF BaseInv
  <1>2. QED
    BY <1>1, BaseInvariant, PTL

-----------------------------------------------------------------------------
(***************************************************************************)
(* Part two: what was collected is kept.                                   *)
(***************************************************************************)

\* The other requests stay where they are.
LEMMA MovesOthers ==
    ASSUME BaseInv, NEW s \in Slot, Moves(s)
    PROVE  /\ \A q \in Slot : q # s => work'[q] = work[q]
           /\ Busy(s) /\ work[s] # Idle /\ work[s] \in Job /\ JobShape(work[s])
           /\ work'[s] # Idle => /\ work'[s] \in Job /\ JobShape(work'[s])
                                 /\ work'[s].op = work[s].op /\ work'[s].who = work[s].who
                                 /\ work'[s].on = work[s].on
           /\ resetting' = resetting /\ removed' = removed /\ crossed \subseteq crossed'
           /\ crossed' = crossed \/ crossed' = crossed \cup Stakes(work[s])
           /\ CommunityTypeOK
  <1>1. work \in [Slot -> Job \cup {Idle}] /\ work' \in [Slot -> Job \cup {Idle}] /\ Busy(s)
    BY TypesAre DEF BaseInv, Moves
  <1>2. \A q \in Slot : q # s => work'[q] = work[q]
    BY <1>1 DEF Moves
  <1>3. work'[s] # Idle => work'[s] \in Job /\ JobShape(work'[s]) /\ SameCause(work'[s], work[s])
    BY <1>1 DEF Moves
  <1>4. QED
    BY <1>1, <1>2, <1>3 DEF SameCause, Busy, BaseInv, JobsShaped, Moves

LEMMA StartsOthers ==
    ASSUME BaseInv, NEW s \in Slot, NEW j, Fresh(j), Begins(s, j)
    PROVE  /\ \A q \in Slot : q # s => work'[q] = work[q]
           /\ work[s] = Idle /\ work'[s] = j /\ j # Idle /\ j \in Job /\ JobShape(j)
           /\ crossed \subseteq crossed'
           /\ \A x \in Stakes(j) : x \notin crossed' => /\ resetting = Idle
                                                        /\ \A q \in Slot : Busy(q) => x \notin Stakes(work[q])
  <1>1. /\ ~Busy(s) /\ work'[s] = j /\ j # Idle /\ \A q \in Slot : q # s => work'[q] = work[q]
        /\ crossed' = crossed \cup {x \in Stakes(j) : ~Quiet(x)}
    BY BeginsIs, TypesAre DEF BaseInv
  <1>2. QED
    BY <1>1, JobsAreBusy DEF Fresh, Quiet, Busy

LEMMA CardsOfStarts ==
    ASSUME BaseInv, CardsInv, NEW s \in Slot, Starts(s)
    PROVE  CardsInv'
  <1>1. PICK j : Fresh(j) /\ Begins(s, j) /\ UNCHANGED <<rowVars, resetTables>>
    BY DEF Starts
  <1>2. /\ \A q \in Slot : q # s => work'[q] = work[q]
        /\ work'[s] = j /\ crossed \subseteq crossed' /\ UNCHANGED <<inventory, gained>>
        /\ ~(j.op = "collect" /\ j.at = "table")
    BY <1>1, StartsOthers DEF Fresh, resetTables, inventoryVars
  <1>3. resetting' # Idle => resetting # Idle /\ resetting'.owners = resetting.owners /\ resetting'.humans = resetting.humans
    BY <1>1, BeginsIs DEF Reset
  <1>4. QED
    BY <1>2, <1>3 DEF CardsInv, Doing, At, Busy, Gone

LEMMA CardsOfWork ==
    ASSUME BaseInv, CardsInv, NEW s \in Slot, Moves(s),
           ClanWorks(s) \/ SocialWorks(s) \/ CollectWorks(s) \/ AccountSaved(s) \/ RequestDies(s)
    PROVE  CardsInv'
  <1>1. /\ \A q \in Slot : q # s => work'[q] = work[q]
        /\ crossed \subseteq crossed' /\ resetting' = resetting /\ work[s] # Idle
        /\ work'[s] # Idle => work'[s].op = work[s].op /\ work'[s].who = work[s].who
    BY MovesOthers
  <1> DEFINE a == work[s].who
  <1>2. CASE work[s].op # "collect" /\ UNCHANGED <<inventory, gained>>
    BY <1>1, <1>2 DEF CardsInv, Doing, At, Busy, Gone
  <1>3. CASE CollectLoad(s) /\ UNCHANGED <<clanVars, socialVars>>
    <2>1. work[s].op = "collect" /\ work'[s].cards = inventory[a]
      BY <1>3, CollectLoadStep
    <2>2. UNCHANGED <<inventory, gained>>
      BY <1>3 DEF CollectLoad, inventoryVars
    <2>3. QED
      BY <1>1, <2>1, <2>2 DEF CardsInv, Doing, At, Busy, Gone
  <1>4. CASE CollectSave(s)
    <2>1. /\ work[s].op = "collect" /\ work[s].at = "table" /\ work'[s] = Idle /\ a \in Account
          /\ inventory' = [inventory EXCEPT ![a] = work[s].cards \cup {work[s].on}]
          /\ gained' = [gained EXCEPT ![a] = @ \cup {work[s].on}]
      BY <1>1, <1>4, EndsJob, OtherJobIs DEF CollectSave, Collected, Doing, At, Busy, BaseInv, CommunityTypeOK
    <2>2. inventory \in [Account -> SUBSET Card] /\ gained \in [Account -> SUBSET Card]
      BY DEF BaseInv, CommunityTypeOK, InventoryTypeOK
    <2>3. Stakes(work[s]) = {<<a, "cards">>}
      BY <2>1, StakesAre
    <2>4. ASSUME NEW b \in Account, <<b, "cards">> \notin crossed'
          PROVE  /\ gained'[b] \subseteq inventory'[b]
                 /\ \A q \in Slot : work'[q] # Idle /\ work'[q].op = "collect" /\ work'[q].at = "table" /\ work'[q].who = b =>
                        gained'[b] \subseteq work'[q].cards
      <3>1. CASE b # a
        BY <1>1, <2>1, <2>2, <2>4, <3>1 DEF CardsInv, Doing, At, Busy
      <3>2. CASE b = a
        <4>1. gained[a] \subseteq work[s].cards
          BY <1>1, <2>1, <2>4, <3>2 DEF CardsInv, Doing, At, Busy
        <4>2. \A q \in Slot : work[q] # Idle /\ work[q].op = "collect" /\ work[q].who = a => q = s
          BY <1>1, <2>3, <2>4, <3>2, StakesAre DEF BaseInv, StakesAlone, Busy
        <4>3. QED
          BY <1>1, <2>1, <2>2, <3>2, <4>1, <4>2
      <3>3. QED
        BY <3>1, <3>2
    <2>5. QED
      BY <1>1, <2>4 DEF CardsInv, Doing, At, Busy, Gone
  <1>5. CASE RequestDies(s)
    BY <1>1, <1>5, DiesStep DEF CardsInv, Doing, At, Busy, Gone, resetTables, inventoryVars
  <1>6. CASE AccountSaved(s)
    <2>1. work[s].op # "collect" /\ UNCHANGED <<inventory, gained>>
      BY <1>1, <1>6, SavingIs
      DEF AccountSaved, SaveRow, CopyRow, At, Busy, ClanOps, FollowOps, resetTables, inventoryVars
    <2>2. QED
      BY <1>2, <2>1
  <1>7. CASE ClanWorks(s)
    BY <1>2, <1>7 DEF ClanWorks, ClanStep, CreateClan, JoinClan, LeaveClan, CacheClan, DropClan, LeaveLoad, Doing, inventoryVars
  <1>8. CASE SocialWorks(s)
    <2>1. work[s].op # "collect"
      BY <1>8, SetsStep, CountsStep, PostStep DEF SocialWorks, SocialStep, FollowEdge, Doing, FollowOps
    <2>2. QED
      BY <1>2, <1>8, <2>1 DEF SocialWorks, inventoryVars
  <1>9. QED
    BY <1>3, <1>4, <1>5, <1>6, <1>7, <1>8 DEF CollectWorks, InventoryStep

LEMMA CardsOfReset ==
    ASSUME BaseInv, CardsInv, ResetStep
    PROVE  CardsInv'
  <1>1. work' = work /\ crossed \subseteq crossed'
    BY ResetStepType
  <1>2. CASE ResetReads
    <2>1. UNCHANGED <<inventory, gained>> /\ resetting'.owners \subseteq resetting'.humans
      BY <1>2, ResetReadsIs DEF resetTables, inventoryVars
    <2>2. QED
      BY <1>1, <2>1 DEF CardsInv, Doing, At, Busy, Gone
  <1>3. CASE ResetSets \/ ResetKeys \/ ResetFeed
    <2>1. UNCHANGED <<inventory, gained>> /\ resetting # Idle
          /\ resetting'.owners = resetting.owners /\ resetting'.humans = resetting.humans
      BY <1>3, ResetSetsIs, ResetKeysIs, ResetFeedIs DEF SameReset, inventoryVars
    <2>2. QED
      BY <1>1, <2>1 DEF CardsInv, Doing, At, Busy, Gone
  <1>4. CASE ResetRows
    <2>1. /\ resetting' = Idle /\ resetting # Idle
          /\ \A a \in Account : inventory'[a] = IF a \in resetting.owners THEN {} ELSE inventory[a]
          /\ \A a \in Account : gained'[a] = IF a \in Gone THEN {} ELSE gained[a]
      BY <1>4, ResetRowsIs
    <2>2. ASSUME NEW a \in Account, <<a, "cards">> \notin crossed'
          PROVE  /\ gained'[a] \subseteq inventory'[a]
                 /\ \A s \in Slot : work[s] # Idle /\ work[s].op = "collect" /\ work[s].at = "table" /\ work[s].who = a =>
                        gained'[a] \subseteq work[s].cards
      <3>1. CASE a \in Gone
        BY <2>1, <3>1
      <3>2. CASE a \notin Gone
        BY <1>1, <2>1, <2>2, <3>2 DEF CardsInv, Doing, At, Busy
      <3>3. QED
        BY <3>1, <3>2
    <2>3. QED
      BY <1>1, <2>1, <2>2 DEF CardsInv, Doing, At, Busy
  <1>5. CASE ResetFails
    <2>1. UNCHANGED <<inventory, gained>> /\ resetting' = Idle
      BY <1>5, ResetFailsIs DEF resetTables, inventoryVars
    <2>2. QED
      BY <1>1, <2>1 DEF CardsInv, Doing, At, Busy
  <1>6. QED
    BY <1>2, <1>3, <1>4, <1>5 DEF ResetStep

\* What an account was told it has claimed it keeps.
THEOREM ClaimedIsKept == CommunitySpec => []CardsKept
  <1>1. CommunityInit => CardsInv
    BY DEF CommunityInit, RowsInit, InventoryInit, CardsInv, Doing, Busy
  <1>2. BaseInv /\ CardsInv /\ [CommunityNext]_vars => CardsInv'
    <2>1. ASSUME CardsInv, UNCHANGED vars PROVE CardsInv'
      BY <2>1 DEF vars, pathVars, historyVars, resetTables, inventoryVars, CardsInv, Doing, At, Busy, Gone
    <2>2. QED
      BY <2>1, StepKinds, CardsOfStarts, CardsOfWork, CardsOfReset
  <1>3. CardsInv => CardsKept
    BY DEF CardsInv, CardsKept
  <1>4. QED
    BY <1>1, <1>2, <1>3, BaseInvariant, PTL DEF CommunitySpec

-----------------------------------------------------------------------------
(***************************************************************************)
(* Part three: an edge and its two ends.                                   *)
(***************************************************************************)

\* Who follows, or stops following, has the edge to itself.
LEMMA FollowsAlone ==
    ASSUME BaseInv, NEW a \in Account, NEW b \in Account, <<a, b>> \notin crossed,
           NEW s \in Slot, FollowsOn(s, a, b)
    PROVE  resetting = Idle /\ \A q \in Slot : FollowsOn(q, a, b) => q = s
  <1>1. \A q \in Slot : FollowsOn(q, a, b) => <<a, b>> \in Stakes(work[q]) /\ Busy(q)
    BY StakesAre DEF FollowsOn
  <1>2. QED
    BY <1>1 DEF BaseInv, StakesAlone

\* A request changes nothing of the edges it is not about.
LEMMA EdgesOfOthers ==
    ASSUME BaseInv, NEW s \in Slot, NEW a \in Account, NEW b \in Account, ~FollowsOn(s, a, b),
           ClanWorks(s) \/ SocialWorks(s) \/ CollectWorks(s) \/ AccountSaved(s) \/ RequestDies(s)
    PROVE  /\ <<a, b>> \in edges' <=> <<a, b>> \in edges
           /\ b \in following'[a] <=> b \in following[a]
           /\ a \in followers'[b] <=> a \in followers[b]
  <1>1. CASE UNCHANGED graphVars
    BY <1>1 DEF graphVars
  <1>2. CASE FollowEdge(s) /\ UNCHANGED <<clanVars, inventoryVars>>
    <2>1. Busy(s) /\ work[s].op \in FollowOps
      BY <1>2 DEF FollowEdge, Doing, FollowOps
    <2>2. <<work[s].who, work[s].on>> # <<a, b>>
      BY <2>1 DEF FollowsOn
    <2>3. QED
      BY <1>2, <2>2 DEF FollowEdge, Follower, Target
  <1>3. CASE (FollowingSet(s) \/ FollowersSet(s)) /\ UNCHANGED <<clanVars, inventoryVars>>
    <2>1. Busy(s) /\ work[s].op \in FollowOps
      BY <1>3, SetsStep DEF Moves
    <2>2. work[s].who # a \/ work[s].on # b
      BY <2>1 DEF FollowsOn
    <2>3. following \in [Account -> SUBSET Account] /\ followers \in [Account -> SUBSET Account]
      BY DEF BaseInv, CommunityTypeOK, SocialTypeOK
    <2>4. QED
      BY <1>3, <2>2, <2>3 DEF FollowingSet, FollowersSet, Follower, Target, Put
  <1>4. QED
    BY <1>1, <1>2, <1>3
    DEF ClanWorks, SocialWorks, SocialStep, CollectWorks, AccountSaved, RequestDies, resetTables, socialVars,
        CountFollowing, CountFollower, PostRow, PostFeed

\* A step of a request that has the edge to itself.
LEMMA EdgesOfOwn ==
    ASSUME BaseInv, EdgesInv, NEW s \in Slot, NEW a \in Account, NEW b \in Account, FollowsOn(s, a, b),
           <<a, b>> \notin crossed', resetting = Idle, Moves(s),
           ClanWorks(s) \/ SocialWorks(s) \/ CollectWorks(s) \/ AccountSaved(s) \/ RequestDies(s)
    PROVE  EndsAgree(a, b)'
  <1>1. /\ \A q \in Slot : q # s => work'[q] = work[q]
        /\ work[s] # Idle /\ Busy(s) /\ work[s].op \in FollowOps /\ work[s].who = a /\ work[s].on = b
        /\ work'[s] # Idle => work'[s].op = work[s].op /\ work'[s].who = a /\ work'[s].on = b
        /\ <<a, b>> \notin crossed
    BY MovesOthers DEF FollowsOn
  <1>2. \A q \in Slot : FollowsOn(q, a, b) => q = s
    BY <1>1, FollowsAlone
  <1>3. \A q \in Slot : FollowsOn(q, a, b)' => q = s /\ work'[s] # Idle
    BY <1>1, <1>2 DEF FollowsOn, Busy
  <1>4. EndsAgree(a, b)
    BY <1>1 DEF EdgesInv
  <1>5. /\ work[s].at # "table" => (<<a, b>> \in edges <=> work[s].op = "follow")
        /\ work[s].at # "first" => (b \in following[a] <=> <<a, b>> \in edges)
        /\ work[s].at \notin {"first", "second"} => (a \in followers[b] <=> <<a, b>> \in edges)
    BY <1>1, <1>2, <1>4 DEF EndsAgree, NoneAt, FollowsOn
  <1>6. crossed' = crossed
    <2>1. <<a, b>> \in Stakes(work[s])
      BY <1>1, StakesAre
    <2>2. QED
      BY <2>1, MovesOthers
  <1>7. ASSUME /\ work'[s] # Idle /\ work'[s].at # "table" => (<<a, b>> \in edges' <=> work[s].op = "follow")
               /\ (work'[s] # Idle /\ work'[s].at = "first") \/ (b \in following'[a] <=> <<a, b>> \in edges')
               /\ (work'[s] # Idle /\ work'[s].at \in {"first", "second"}) \/ (a \in followers'[b] <=> <<a, b>> \in edges')
        PROVE  EndsAgree(a, b)'
    <2>1. work'[s] # Idle => FollowsOn(s, a, b)'
      BY <1>1 DEF FollowsOn, Busy
    <2>2. (\A q \in Slot : FollowsOn(q, a, b) /\ work[q].at # "table" => (<<a, b>> \in edges <=> work[q].op = "follow"))'
      BY <1>1, <1>3, <1>7
    <2>3. NoneAt(a, b, {"first"})' => (b \in following'[a] <=> <<a, b>> \in edges')
      BY <1>7, <2>1 DEF NoneAt
    <2>4. NoneAt(a, b, {"first", "second"})' => (a \in followers'[b] <=> <<a, b>> \in edges')
      BY <1>7, <2>1 DEF NoneAt
    <2>5. QED
      BY <2>2, <2>3, <2>4 DEF EndsAgree
  <1>8. CASE FollowEdge(s)
    <2>1. work'[s].at = "first" /\ work'[s] # Idle
      BY <1>1, <1>8, GoesJob DEF FollowEdge, Stage, BaseInv, CommunityTypeOK
    <2>2. <<a, b>> \in edges' <=> work[s].op = "follow"
      BY <1>1, <1>8 DEF FollowEdge, Doing, Follower, Target
    <2>3. QED
      BY <1>7, <2>1, <2>2
  <1>9. following \in [Account -> SUBSET Account] /\ followers \in [Account -> SUBSET Account]
    BY DEF BaseInv, CommunityTypeOK, SocialTypeOK
  <1>10. ~Marred(s)
    <2>1. SUFFICES ASSUME Marred(s) PROVE FALSE
      OBVIOUS
    <2>2. <<a, b>> \in Stakes(work[s])
      BY <1>1, StakesAre
    <2>3. QED
      BY <2>1, <2>2, <1>1, <1>6 DEF Marred
  <1>11. CASE FollowingSet(s)
    <2>1. work[s].at = "first" /\ work'[s].at = "second" /\ work'[s] # Idle
      BY <1>1, <1>11, GoesJob DEF FollowingSet, Stage, BaseInv, CommunityTypeOK, At
    <2>2. following' = [following EXCEPT ![a] = Put(s, @, b)] /\ edges' = edges
      BY <1>1, <1>10, <1>11 DEF FollowingSet, Follower, Target
    <2>3. b \in following'[a] <=> work[s].op = "follow"
      BY <1>9, <2>2 DEF Put
    <2>4. QED
      BY <1>5, <1>7, <2>1, <2>2, <2>3
  <1>12. CASE FollowersSet(s)
    <2>1. work[s].at = "second" /\ work'[s].at = "load" /\ work'[s] # Idle
      BY <1>1, <1>12, GoesJob DEF FollowersSet, Stage, BaseInv, CommunityTypeOK, At
    <2>2. followers' = [followers EXCEPT ![b] = Put(s, @, a)] /\ edges' = edges /\ following' = following
      BY <1>1, <1>10, <1>12 DEF FollowersSet, Follower, Target
    <2>3. a \in followers'[b] <=> work[s].op = "follow"
      BY <1>9, <2>2 DEF Put
    <2>4. QED
      BY <1>5, <1>7, <2>1, <2>2, <2>3
  <1>13. CASE UNCHANGED graphVars /\ work[s].at \notin {"table", "first", "second"}
    BY <1>5, <1>7, <1>13 DEF graphVars
  <1>14. CASE RequestDies(s)
    BY <1>10, <1>14 DEF RequestDies, Dies
  <1>15. CASE AccountSaved(s)
    BY <1>13, <1>15 DEF AccountSaved, SaveRow, CopyRow, At, resetTables, socialVars
  <1>16. ~ClanWorks(s) /\ ~CollectWorks(s) /\ ~PostRow(s) /\ ~PostFeed(s)
    BY <1>1 DEF ClanWorks, ClanStep, CreateClan, JoinClan, LeaveClan, CacheClan, DropClan, LeaveLoad, Doing,
       CollectWorks, InventoryStep, CollectLoad, CollectSave, PostRow, PostFeed, FollowOps
  <1>17. CASE CountFollowing(s) \/ CountFollower(s)
    BY <1>13, <1>17 DEF CountFollowing, CountFollower, At, socialVars
  <1>18. QED
    BY <1>8, <1>11, <1>12, <1>14, <1>15, <1>16, <1>17 DEF SocialWorks, SocialStep

LEMMA EdgesOfWork ==
    ASSUME BaseInv, EdgesInv, NEW s \in Slot, Moves(s),
           ClanWorks(s) \/ SocialWorks(s) \/ CollectWorks(s) \/ AccountSaved(s) \/ RequestDies(s)
    PROVE  EdgesInv'
  <1> SUFFICES ASSUME NEW a \in Account, NEW b \in Account, <<a, b>> \notin crossed'
               PROVE  /\ resetting' = Idle => EndsAgree(a, b)'
                      /\ resetting' # Idle => EndsInReset(a, b)'
    BY DEF EdgesInv
  <1>1. /\ \A q \in Slot : q # s => work'[q] = work[q]
        /\ <<a, b>> \notin crossed /\ resetting' = resetting /\ work[s] # Idle
        /\ work'[s] # Idle => work'[s].op = work[s].op /\ work'[s].who = work[s].who /\ work'[s].on = work[s].on
    BY MovesOthers
  <1>2. CASE FollowsOn(s, a, b)
    BY <1>1, <1>2, FollowsAlone, EdgesOfOwn
  <1>3. CASE ~FollowsOn(s, a, b)
    <2>1. /\ <<a, b>> \in edges' <=> <<a, b>> \in edges
          /\ b \in following'[a] <=> b \in following[a]
          /\ a \in followers'[b] <=> a \in followers[b]
      BY <1>3, EdgesOfOthers
    <2>2. \A q \in Slot : /\ FollowsOn(q, a, b)' <=> FollowsOn(q, a, b)
                          /\ FollowsOn(q, a, b) => work'[q] = work[q]
      BY <1>1, <1>3 DEF FollowsOn, Busy
    <2>3. ASSUME EndsAgree(a, b) PROVE EndsAgree(a, b)'
      BY <2>1, <2>2, <2>3 DEF EndsAgree, NoneAt
    <2>4. ASSUME EndsInReset(a, b), resetting # Idle PROVE EndsInReset(a, b)'
      BY <1>1, <2>1, <2>4 DEF EndsInReset, Gone
    <2>5. QED
      BY <1>1, <2>3, <2>4 DEF EdgesInv
  <1>4. QED
    BY <1>2, <1>3

LEMMA EdgesOfStarts ==
    ASSUME BaseInv, EdgesInv, NEW s \in Slot, Starts(s)
    PROVE  EdgesInv'
  <1> SUFFICES ASSUME NEW a \in Account, NEW b \in Account, <<a, b>> \notin crossed'
               PROVE  /\ resetting' = Idle => EndsAgree(a, b)'
                      /\ resetting' # Idle => EndsInReset(a, b)'
    BY DEF EdgesInv
  <1>1. PICK j : Fresh(j) /\ Begins(s, j) /\ UNCHANGED <<rowVars, resetTables>>
    BY DEF Starts
  <1>2. /\ \A q \in Slot : q # s => work'[q] = work[q]
        /\ work'[s] = j /\ work[s] = Idle /\ <<a, b>> \notin crossed
        /\ UNCHANGED <<edges, following, followers>>
        /\ j.op # "collect" => j.at = "table"
    BY <1>1, StartsOthers DEF Fresh, resetTables, socialVars, graphVars
  <1>3. /\ resetting = Idle => resetting' = Idle
        /\ resetting # Idle => /\ resetting'.edges = resetting.edges /\ resetting'.humans = resetting.humans
                               /\ resetting'.at = resetting.at
    BY <1>1, BeginsIs DEF Reset
  <1>4. ASSUME EndsAgree(a, b) PROVE EndsAgree(a, b)'
    <2>1. \A q \in Slot : FollowsOn(q, a, b) => FollowsOn(q, a, b)' /\ work'[q] = work[q]
      BY <1>2 DEF FollowsOn, Busy
    <2>2. \A q \in Slot : FollowsOn(q, a, b)' /\ work'[q].at # "table" => FollowsOn(q, a, b) /\ work'[q] = work[q]
      BY <1>2 DEF FollowsOn, Busy, FollowOps
    <2>3. QED
      BY <1>2, <1>4, <2>1, <2>2 DEF EndsAgree, NoneAt
  <1>5. ASSUME EndsInReset(a, b), resetting # Idle PROVE EndsInReset(a, b)'
    BY <1>2, <1>3, <1>5 DEF EndsInReset, Gone
  <1>6. QED
    BY <1>2, <1>3, <1>4, <1>5, BeginsIs, <1>1 DEF EdgesInv

LEMMA EdgesOfReset ==
    ASSUME BaseInv, EdgesInv, ResetStep
    PROVE  EdgesInv'
  <1> SUFFICES ASSUME NEW a \in Account, NEW b \in Account, <<a, b>> \notin crossed'
               PROVE  /\ resetting' = Idle => EndsAgree(a, b)'
                      /\ resetting' # Idle => EndsInReset(a, b)'
    BY DEF EdgesInv
  <1>1. work' = work /\ <<a, b>> \notin crossed
    BY ResetStepType
  <1>2. CASE ResetReads
    <2>1. /\ resetting = Idle /\ resetting' # Idle /\ resetting'.at = "sets" /\ resetting'.edges = edges
          /\ UNCHANGED <<edges, following, followers>> /\ <<a, b>> \notin AtStake
      BY <1>2, ResetReadsIs DEF resetTables, socialVars, graphVars
    <2>2. \A q \in Slot : ~FollowsOn(q, a, b)
      BY <2>1, JobsAreBusy, StakesAre DEF FollowsOn
    <2>3. (b \in following[a] <=> <<a, b>> \in edges) /\ (a \in followers[b] <=> <<a, b>> \in edges)
      BY <1>1, <2>1, <2>2 DEF EdgesInv, EndsAgree, NoneAt
    <2>4. QED
      BY <2>1, <2>3 DEF EndsInReset
  <1>3. ASSUME resetting # Idle PROVE EndsInReset(a, b)
    BY <1>1, <1>3 DEF EdgesInv
  <1>4. CASE ResetSets
    BY <1>3, <1>4, ResetSetsIs DEF EndsInReset, SameReset, Gone
  <1>5. CASE ResetKeys
    BY <1>3, <1>5, ResetKeysIs DEF EndsInReset, SameReset, Gone
  <1>6. CASE ResetFeed
    BY <1>3, <1>6, ResetFeedIs DEF EndsInReset, SameReset, Gone, graphVars
  <1>7. CASE ResetRows
    <2>1. /\ resetting # Idle /\ resetting.at = "rows" /\ resetting' = Idle
          /\ UNCHANGED <<following, followers>> /\ edges' = edges \ LostEdges
      BY <1>7, ResetRowsIs
    <2>2. \A q \in Slot : ~FollowsOn(q, a, b)
      BY <1>1, <2>1, FollowsAlone
    <2>3. <<a, b>> \in LostEdges <=> <<a, b>> \in edges /\ (a \in Gone \/ b \in Gone)
      BY <1>3, <2>1 DEF EndsInReset, LostEdges
    <2>4. \A q \in Slot : ~FollowsOn(q, a, b)'
      BY <1>1, <2>2 DEF FollowsOn, Busy
    <2>5. /\ b \in following[a] <=> <<a, b>> \in edges /\ ~(a \in Gone \/ b \in Gone)
          /\ a \in followers[b] <=> <<a, b>> \in edges /\ ~(a \in Gone \/ b \in Gone)
      BY <1>3, <2>1 DEF EndsInReset
    <2>6. QED
      BY <2>1, <2>3, <2>4, <2>5 DEF EndsAgree
  <1>8. CASE ResetFails
    BY <1>8, ResetFailsIs
  <1>9. QED
    BY <1>2, <1>4, <1>5, <1>6, <1>7, <1>8 DEF ResetStep

\* The cached sets answer with the graph of the durable edges.
THEOREM GraphsAgree == CommunitySpec => []EdgesAgree
  <1>1. CommunityInit => EdgesInv
    BY BaseInit DEF CommunityInit, RowsInit, SocialInit, EdgesInv, EndsAgree, FollowsOn
  <1>2. BaseInv /\ EdgesInv /\ [CommunityNext]_vars => EdgesInv'
    <2>1. ASSUME EdgesInv, UNCHANGED vars PROVE EdgesInv'
      <3>1. UNCHANGED <<work, resetting, crossed, edges, following, followers>>
        BY <2>1 DEF vars, pathVars, historyVars, resetTables, socialVars, graphVars
      <3>2. ASSUME NEW a \in Account, NEW b \in Account
            PROVE  EndsAgree(a, b)' = EndsAgree(a, b) /\ EndsInReset(a, b)' = EndsInReset(a, b)
        BY <3>1 DEF EndsAgree, EndsInReset, NoneAt, FollowsOn, Busy, Gone
      <3>3. QED
        BY <2>1, <3>1, <3>2 DEF EdgesInv
    <2>2. QED
      BY <2>1, StepKinds, EdgesOfStarts, EdgesOfWork, EdgesOfReset
  <1>3. BaseInv /\ EdgesInv => EdgesAgree
    <2> SUFFICES ASSUME BaseInv, EdgesInv, NEW a \in Account, NEW b \in Account,
                        <<a, b>> \notin crossed, Quiet(<<a, b>>)
                 PROVE  (b \in following[a] <=> <<a, b>> \in edges) /\ (a \in followers[b] <=> <<a, b>> \in edges)
      BY DEF EdgesAgree
    <2>1. \A q \in Slot : ~FollowsOn(q, a, b)
      BY JobsAreBusy, StakesAre DEF FollowsOn, Quiet
    <2>2. QED
      BY <2>1 DEF EdgesInv, EndsAgree, NoneAt, Quiet
  <1>4. QED
    BY <1>1, <1>2, <1>3, BaseInvariant, PTL DEF CommunitySpec

-----------------------------------------------------------------------------
(***************************************************************************)
(* Part four: a reset leaves nothing of the accounts it removes.           *)
(***************************************************************************)

\* A step brings nothing of account a anywhere.
Spares(a) ==
    /\ rows[a] = NoRow => rows'[a] = NoRow
    /\ cached[a] = NoRow => cached'[a] = NoRow
    /\ \A e \in edges' : a \in {e[1], e[2]} => e \in edges
    /\ following'[a] \subseteq following[a] /\ followers'[a] \subseteq followers[a]
    /\ \A b \in Account : a \in following'[b] => a \in following[b]
    /\ \A b \in Account : a \in followers'[b] => a \in followers[b]
    /\ \A m \in members' : m[2] = a => m \in members
    /\ \A t \in Tag : clans'[t] # NoClan /\ clans'[t].leader = a => clans[t] # NoClan /\ clans[t].leader = a
    /\ inventory'[a] \subseteq inventory[a]
    /\ \A p \in posts' : p[2] = a => p \in posts

SparesFeed(a) == \A p \in feed' : p[2] = a => p \in feed

LEMMA SparedIsErased ==
    ASSUME NEW a \in Account, Erased(a), Spares(a), SparesFeed(a)
    PROVE  Erased(a)'
  BY DEF Erased, Spares, SparesFeed

LEMMA SparedIsKnown ==
    ASSUME NEW a \in Account, ResetKnows(a), SweptSoFar(a), Spares(a), SparesFeed(a), resetting # Idle,
           resetting'.edges = resetting.edges, resetting'.members = resetting.members,
           resetting'.led = resetting.led, resetting'.owners = resetting.owners,
           resetting'.posts = resetting.posts, resetting'.feed = resetting.feed,
           resetting'.at = resetting.at, resetting'.humans = resetting.humans
    PROVE  ResetKnows(a)' /\ SweptSoFar(a)'
  <1>1. ResetKnows(a)'
    BY DEF ResetKnows, Spares, SparesFeed
  <1>2. SweptSoFar(a)'
    BY DEF SweptSoFar, Spares, SparesFeed, Gone
  <1>3. QED
    BY <1>1, <1>2

LEMMA ClanWorkSpares ==
    ASSUME BaseInv, NEW s \in Slot, ClanWorks(s), NEW a \in Account, a \notin Accounts(work[s])
    PROVE  Spares(a) /\ SparesFeed(a)
  <1>1. Busy(s) /\ work[s].op \in ClanOps /\ UNCHANGED <<rows, cached, edges, following, followers, posts, feed, inventory>>
    BY DEF ClanWorks, ClanStep, CreateClan, JoinClan, LeaveClan, CacheClan, DropClan, LeaveLoad, Doing, ClanOps,
       Refused, rowVars, socialVars, graphVars, postVars, inventoryVars
  <1>2. a # work[s].who /\ work[s].on \in Tag
    BY <1>1, ClanJobIs DEF Accounts
  <1>3. clans \in [Tag -> Clan \cup {NoClan}]
    BY DEF BaseInv, CommunityTypeOK, ClansTypeOK
  <1>4. \A m \in members' : m[2] = a => m \in members
    BY <1>2 DEF ClanWorks, ClanStep, CreateClan, JoinClan, LeaveClan, CacheClan, DropClan, LeaveLoad, Refused, clanVars
  <1>5. ASSUME NEW t \in Tag, clans'[t] # NoClan, clans'[t].leader = a
        PROVE  clans[t] # NoClan /\ clans[t].leader = a
    <2>1. CASE UNCHANGED clans
      BY <1>5, <2>1
    <2>2. CASE CreateClan(s)
      BY <1>2, <1>3, <1>5, <2>2 DEF CreateClan, Refused, clanVars
    <2>3. CASE JoinClan(s)
      BY <1>2, <1>3, <1>5, <2>3 DEF JoinClan, Refused, clanVars, Clan
    <2>4. CASE LeaveClan(s)
      BY <1>2, <1>3, <1>5, <2>4 DEF LeaveClan, Clan
    <2>5. QED
      BY <2>1, <2>2, <2>3, <2>4 DEF ClanWorks, ClanStep, CacheClan, DropClan, LeaveLoad, clanVars
  <1>6. QED
    BY <1>1, <1>4, <1>5 DEF Spares, SparesFeed

LEMMA SocialWorkSpares ==
    ASSUME BaseInv, NEW s \in Slot, SocialWorks(s), NEW a \in Account, a \notin Accounts(work[s])
    PROVE  Spares(a) /\ SparesFeed(a)
  <1>1. UNCHANGED <<rows, cached, clans, members, inventory>> /\ Busy(s) /\ a # work[s].who /\ a # work[s].on
    BY DEF SocialWorks, SocialStep, FollowEdge, FollowingSet, FollowersSet, CountFollowing, CountFollower, PostRow, PostFeed,
       rowVars, clanVars, inventoryVars, Accounts, At
  <1>2. \A e \in edges' : a \in {e[1], e[2]} => e \in edges
    BY <1>1 DEF SocialWorks, SocialStep, FollowEdge, FollowingSet, FollowersSet, CountFollowing, CountFollower, PostRow,
       PostFeed, socialVars, graphVars, Follower, Target
  <1>3. /\ \A p \in posts' : p[2] = a => p \in posts
        /\ \A p \in feed' : p[2] = a => p \in feed
    BY <1>1 DEF SocialWorks, SocialStep, FollowEdge, FollowingSet, FollowersSet, CountFollowing, CountFollower, PostRow,
       PostFeed, socialVars, postVars
  <1>4. /\ following'[a] \subseteq following[a] /\ followers'[a] \subseteq followers[a]
        /\ \A b \in Account : a \in following'[b] => a \in following[b]
        /\ \A b \in Account : a \in followers'[b] => a \in followers[b]
    <2>1. CASE UNCHANGED <<following, followers>>
      BY <2>1
    <2>2. CASE FollowingSet(s) \/ FollowersSet(s)
      BY <1>1, <2>2 DEF FollowingSet, FollowersSet, Follower, Target, Put, BaseInv, CommunityTypeOK, SocialTypeOK
    <2>3. QED
      BY <2>1, <2>2 DEF SocialWorks, SocialStep, FollowEdge, CountFollowing, CountFollower, PostRow, PostFeed, socialVars,
         graphVars
  <1>5. QED
    BY <1>1, <1>2, <1>3, <1>4 DEF Spares, SparesFeed

LEMMA WorkSpares ==
    ASSUME BaseInv, NEW s \in Slot, NEW a \in Account, a \notin Accounts(work[s]), Busy(s),
           ClanWorks(s) \/ SocialWorks(s) \/ CollectWorks(s) \/ AccountSaved(s) \/ RequestDies(s)
    PROVE  Spares(a) /\ SparesFeed(a)
  <1>1. CASE CollectWorks(s)
    <2>1. UNCHANGED <<rows, cached, clans, members, edges, following, followers, posts, feed>>
      BY <1>1 DEF CollectWorks, InventoryStep, CollectLoad, CollectSave, Collected, rowVars, clanVars, socialVars, graphVars,
         postVars
    <2>2. inventory'[a] = inventory[a]
      BY <1>1 DEF CollectWorks, InventoryStep, CollectLoad, CollectSave, Collected, inventoryVars, Accounts,
         BaseInv, CommunityTypeOK, InventoryTypeOK
    <2>3. QED
      BY <2>1, <2>2 DEF Spares, SparesFeed
  <1>2. CASE AccountSaved(s)
    <2>1. UNCHANGED <<clans, members, edges, following, followers, posts, feed, inventory>>
      BY <1>2 DEF AccountSaved, resetTables, clanVars, socialVars, graphVars, postVars, inventoryVars
    <2>2. work[s].acct # a
      BY <1>2, SavingIs, ClanJobIs, FollowJobIs DEF AccountSaved, SaveRow, CopyRow, At, Accounts
    <2>3. rows'[a] = rows[a] /\ cached'[a] = cached[a]
      BY <1>2, <2>2, TypesAre DEF AccountSaved, SaveRow, CopyRow, BaseInv
    <2>4. QED
      BY <2>1, <2>3 DEF Spares, SparesFeed
  <1>3. CASE RequestDies(s)
    BY <1>3 DEF RequestDies, Dies, rowVars, resetTables, clanVars, socialVars, graphVars, postVars, inventoryVars, Spares,
       SparesFeed
  <1>4. QED
    BY <1>1, <1>2, <1>3, ClanWorkSpares, SocialWorkSpares

LEMMA ErasedOfWork ==
    ASSUME BaseInv, ErasedInv, NEW s \in Slot, Moves(s),
           ClanWorks(s) \/ SocialWorks(s) \/ CollectWorks(s) \/ AccountSaved(s) \/ RequestDies(s)
    PROVE  ErasedInv'
  <1>1. /\ \A q \in Slot : q # s => work'[q] = work[q]
        /\ Busy(s) /\ resetting' = resetting /\ removed' = removed /\ removed \subseteq Account
    BY MovesOthers DEF CommunityTypeOK, RowsTypeOK
  <1>2. \A q \in Slot : work'[q] # Idle => work[q] # Idle /\ Accounts(work'[q]) = Accounts(work[q])
    BY <1>1, StakesOfCause DEF Moves, Busy
  <1>3. ASSUME NEW a \in Account, Untouched(a) PROVE Spares(a) /\ SparesFeed(a) /\ Untouched(a)'
    BY <1>1, <1>2, <1>3, WorkSpares DEF Untouched, Busy
  <1>4. ASSUME NEW a \in removed PROVE Erased(a)' /\ Untouched(a)'
    BY <1>1, <1>3, SparedIsErased DEF ErasedInv
  <1>5. ASSUME resetting # Idle, NEW a \in resetting.clear
        PROVE  (a \in Gone /\ Untouched(a) /\ ResetKnows(a) /\ SweptSoFar(a))'
    <2>1. a \in Account
      BY <1>5, ResetFields
    <2>2. a \in Gone /\ Untouched(a) /\ ResetKnows(a) /\ SweptSoFar(a)
      BY <1>5 DEF ErasedInv
    <2>3. ResetKnows(a)' /\ SweptSoFar(a)'
      BY <1>1, <1>3, <1>5, <2>1, <2>2, SparedIsKnown
    <2>4. QED
      BY <1>1, <1>3, <2>1, <2>2, <2>3 DEF Gone
  <1>6. QED
    BY <1>1, <1>4, <1>5 DEF ErasedInv

LEMMA ErasedOfStarts ==
    ASSUME BaseInv, ErasedInv, NEW s \in Slot, Starts(s)
    PROVE  ErasedInv'
  <1>1. PICK j : Fresh(j) /\ Begins(s, j) /\ UNCHANGED <<rowVars, resetTables>>
    BY DEF Starts
  <1>2. /\ \A q \in Slot : q # s => work'[q] = work[q]
        /\ work'[s] = j /\ removed' = removed \ Accounts(j) /\ removed \subseteq Account
        /\ UNCHANGED <<rows, cached, clans, members, edges, following, followers, posts, feed, inventory>>
    BY <1>1, StartsOthers, BeginsIs, TypesAre
    DEF resetTables, rowVars, clanVars, socialVars, graphVars, postVars, inventoryVars, BaseInv
  <1>3. ASSUME NEW a, Untouched(a), a \notin Accounts(j) PROVE Untouched(a)'
    BY <1>2, <1>3 DEF Untouched, Busy
  <1>4. \A a \in Account : Spares(a) /\ SparesFeed(a)
    BY <1>2 DEF Spares, SparesFeed
  <1>5. resetting' # Idle => resetting # Idle
    BY <1>1, BeginsIs
  <1>6. resetting # Idle => /\ resetting'.edges = resetting.edges /\ resetting'.members = resetting.members
                            /\ resetting'.led = resetting.led /\ resetting'.owners = resetting.owners
                            /\ resetting'.posts = resetting.posts /\ resetting'.feed = resetting.feed
                            /\ resetting'.at = resetting.at /\ resetting'.humans = resetting.humans
                            /\ resetting'.clear = resetting.clear \ Accounts(j)
    BY <1>1, BeginsIs DEF Reset
  <1>7. ASSUME NEW a \in removed' PROVE Erased(a)' /\ Untouched(a)'
    BY <1>2, <1>3, <1>4, SparedIsErased DEF ErasedInv
  <1>8. ASSUME resetting' # Idle, NEW a \in resetting'.clear
        PROVE  (a \in Gone /\ Untouched(a) /\ ResetKnows(a) /\ SweptSoFar(a))'
    <2>1. a \in resetting.clear /\ a \in Account /\ resetting # Idle /\ a \notin Accounts(j)
      BY <1>5, <1>6, <1>8, ResetFields
    <2>2. a \in Gone /\ Untouched(a) /\ ResetKnows(a) /\ SweptSoFar(a)
      BY <2>1 DEF ErasedInv
    <2>3. ResetKnows(a)' /\ SweptSoFar(a)'
      BY <1>4, <1>6, <2>1, <2>2, SparedIsKnown
    <2>4. QED
      BY <1>3, <1>6, <2>1, <2>2, <2>3 DEF Gone
  <1>9. QED
    BY <1>2, <1>5, <1>6, <1>7, <1>8 DEF ErasedInv

\* What each step of the reset does to the accounts it, or an earlier one, removes.
LEMMA ResetSpares ==
    ASSUME BaseInv, ResetStep, NEW a \in Account
    PROVE  Spares(a) /\ (~ResetFeed => feed' = feed)
  <1>1. CASE ResetReads \/ ResetFails
    <2>1. UNCHANGED <<rows, cached, clans, members, edges, following, followers, posts, feed, inventory>>
      BY <1>1, ResetReadsIs, ResetFailsIs DEF resetTables, rowVars, clanVars, socialVars, graphVars, postVars, inventoryVars
    <2>2. QED
      BY <2>1 DEF Spares
  <1>2. CASE ResetSets
    BY <1>2, ResetSetsIs DEF Spares, rowVars, clanVars, postVars, inventoryVars
  <1>3. CASE ResetKeys
    BY <1>3, ResetKeysIs DEF Spares, postVars, inventoryVars
  <1>4. CASE ResetFeed
    BY <1>4, ResetFeedIs DEF Spares, rowVars, clanVars, graphVars, inventoryVars
  <1>5. CASE ResetRows
    <2>1. \A t \in Tag : clans'[t] # NoClan => clans[t] # NoClan /\ clans'[t].leader = clans[t].leader
      <3>1. clans \in [Tag -> Clan \cup {NoClan}]
        BY DEF BaseInv, CommunityTypeOK, ClansTypeOK
      <3>2. QED
        BY <1>5, <3>1, ResetRowsIs DEF ClanLess, Clan
    <2>2. QED
      BY <1>5, <2>1, ResetRowsIs DEF Spares
  <1>6. QED
    BY <1>1, <1>2, <1>3, <1>4, <1>5 DEF ResetStep

LEMMA ErasedOfReset ==
    ASSUME BaseInv, ErasedInv, ResetStep
    PROVE  ErasedInv'
  <1>1. work' = work /\ removed \subseteq Account
    BY ResetStepType, TypesAre DEF BaseInv
  <1>2. \A a : Untouched(a) => Untouched(a)'
    BY <1>1 DEF Untouched, Busy
  <1>3. ASSUME NEW a \in removed PROVE Erased(a)' /\ Untouched(a)'
    <2>1. SparesFeed(a)
      <3>1. CASE ResetFeed
        BY <3>1, ResetFeedIs DEF ErasedInv, SparesFeed
      <3>2. CASE ~ResetFeed
        BY <1>1, <3>2, ResetSpares DEF SparesFeed
      <3>3. QED
        BY <3>1, <3>2
    <2>2. QED
      BY <1>1, <1>2, <2>1, ResetSpares, SparedIsErased DEF ErasedInv
  <1>4. CASE ResetReads
    <2>1. /\ resetting'.humans = Humans /\ resetting'.at = "sets" /\ removed' = removed
          /\ resetting'.clear = Humans \ UNION {Accounts(j) : j \in Jobs}
          /\ resetting'.edges = edges /\ resetting'.members = members /\ resetting'.posts = posts
          /\ resetting'.led = {t \in Tag : clans[t] # NoClan /\ clans[t].leader \in Humans}
          /\ resetting'.owners = {a \in Humans : inventory[a] # {}} /\ resetting'.feed = feed
          /\ UNCHANGED <<clans, members, edges, posts, feed, inventory>>
      BY <1>4, ResetReadsIs DEF resetTables, clanVars, socialVars, graphVars, postVars, inventoryVars
    <2>2. \A a \in removed, p \in resetting'.feed : p[2] # a
      BY <2>1 DEF ErasedInv, Erased
    <2>3. ASSUME NEW a \in resetting'.clear
          PROVE  (a \in Gone /\ Untouched(a) /\ ResetKnows(a) /\ SweptSoFar(a))'
      <3>1. Untouched(a)
        BY <2>1, <2>3 DEF Untouched, Jobs
      <3>2. ResetKnows(a)' /\ SweptSoFar(a)'
        BY <2>1, <2>3 DEF ResetKnows, SweptSoFar
      <3>3. QED
        BY <1>2, <2>1, <2>3, <3>1, <3>2 DEF Gone
    <2>4. QED
      BY <1>3, <2>1, <2>2, <2>3 DEF ErasedInv
  <1>5. CASE ResetSets
    <2>1. removed' = removed /\ resetting # Idle /\ resetting'.clear = resetting.clear /\ resetting'.feed = feed
      BY <1>5, ResetSetsIs DEF SameReset, Work
    <2>2. ASSUME NEW a \in resetting.clear
          PROVE  (a \in Gone /\ Untouched(a) /\ ResetKnows(a) /\ SweptSoFar(a))'
      <3>1. a \in Account /\ a \in Gone /\ Untouched(a) /\ ResetKnows(a)
        BY <2>1, <2>2, ResetFields DEF ErasedInv
      <3>2. ResetKnows(a)'
        BY <1>5, <3>1, ResetSetsIs DEF ResetKnows, SameReset, clanVars, postVars, inventoryVars
      <3>3. SweptSoFar(a)'
        BY <1>5, <3>1, ResetSetsIs DEF SweptSoFar, SameReset, Gone
      <3>4. QED
        BY <1>2, <1>5, <3>1, <3>2, <3>3, ResetSetsIs DEF SameReset, Gone
    <2>3. \A a \in removed, p \in resetting'.feed : p[2] # a
      BY <2>1 DEF ErasedInv, Erased
    <2>4. QED
      BY <1>3, <2>1, <2>2, <2>3 DEF ErasedInv
  <1>6. CASE ResetKeys
    <2>1. removed' = removed /\ resetting # Idle /\ resetting'.clear = resetting.clear /\ resetting'.feed = resetting.feed
      BY <1>6, ResetKeysIs DEF SameReset, Work
    <2>2. ASSUME NEW a \in resetting.clear
          PROVE  (a \in Gone /\ Untouched(a) /\ ResetKnows(a) /\ SweptSoFar(a))'
      <3>1. a \in Account /\ a \in Gone /\ Untouched(a) /\ ResetKnows(a) /\ SweptSoFar(a)
        BY <2>1, <2>2, ResetFields DEF ErasedInv
      <3>2. ResetKnows(a)'
        BY <1>6, <3>1, ResetKeysIs DEF ResetKnows, SameReset, postVars, inventoryVars
      <3>3. SweptSoFar(a)'
        BY <1>6, <3>1, ResetKeysIs DEF SweptSoFar, SameReset, Gone
      <3>4. QED
        BY <1>2, <1>6, <3>1, <3>2, <3>3, ResetKeysIs DEF SameReset, Gone
    <2>3. QED
      BY <1>3, <2>1, <2>2 DEF ErasedInv
  <1>7. CASE ResetFeed
    <2>1. removed' = removed /\ resetting # Idle /\ resetting'.clear = resetting.clear /\ resetting'.feed = resetting.feed
      BY <1>7, ResetFeedIs DEF SameReset, Work
    <2>2. ASSUME NEW a \in resetting.clear
          PROVE  (a \in Gone /\ Untouched(a) /\ ResetKnows(a) /\ SweptSoFar(a))'
      <3>1. a \in Account /\ a \in Gone /\ Untouched(a) /\ ResetKnows(a) /\ SweptSoFar(a)
        BY <2>1, <2>2, ResetFields DEF ErasedInv
      <3>2. ResetKnows(a)'
        BY <1>7, <3>1, ResetFeedIs DEF ResetKnows, SameReset, clanVars, graphVars, inventoryVars
      <3>3. \A p \in feed' : p[2] # a
        BY <1>7, <3>1, ResetFeedIs DEF ResetKnows
      <3>4. SweptSoFar(a)'
        BY <1>7, <3>1, <3>3, ResetFeedIs DEF SweptSoFar, rowVars, graphVars
      <3>5. QED
        BY <1>2, <1>7, <3>1, <3>2, <3>4, ResetFeedIs DEF SameReset, Gone
    <2>3. QED
      BY <1>3, <2>1, <2>2 DEF ErasedInv
  <1>8. CASE ResetRows
    <2>1. removed' = removed \cup resetting.clear /\ resetting # Idle /\ resetting' = Idle /\ resetting.at = "rows"
      BY <1>8, ResetRowsIs
    <2>2. ASSUME NEW a \in resetting.clear PROVE Erased(a)' /\ Untouched(a)'
      <3>1. a \in Account /\ a \in Gone /\ Untouched(a) /\ ResetKnows(a) /\ SweptSoFar(a)
        BY <2>1, <2>2, ResetFields DEF ErasedInv
      <3>2. rows'[a] = NoRow /\ cached'[a] = NoRow
        BY <1>8, <2>1, <3>1, ResetRowsIs DEF SweptSoFar
      <3>3. \A e \in edges' : a \notin {e[1], e[2]}
        BY <1>8, <3>1, ResetRowsIs DEF ResetKnows, LostEdges
      <3>4. /\ following'[a] = {} /\ followers'[a] = {} /\ \A p \in feed' : p[2] # a
            /\ \A b \in Account : a \notin following'[b] \cup followers'[b]
        BY <1>8, <2>1, <3>1, ResetRowsIs DEF SweptSoFar
      <3>5. \A m \in members' : m[2] # a
        BY <1>8, <3>1, ResetRowsIs DEF ResetKnows, LostMembers
      <3>6. \A t \in Tag : clans'[t] # NoClan => clans'[t].leader # a
        <4>1. ASSUME NEW t \in Tag, clans'[t] # NoClan
              PROVE  t \notin resetting.led /\ clans[t] # NoClan /\ clans'[t].leader = clans[t].leader
          <5>1. clans[t] \in Clan \cup {NoClan} /\ clans'[t] = ClanLess(t)
            BY <1>8, ResetRowsIs DEF BaseInv, CommunityTypeOK, ClansTypeOK
          <5>2. QED
            BY <4>1, <5>1 DEF ClanLess, Clan
        <4>2. QED
          BY <3>1, <4>1 DEF ResetKnows
      <3>7. inventory'[a] = {} /\ \A p \in posts' : p[2] # a
        BY <1>8, <3>1, ResetRowsIs DEF ResetKnows
      <3>8. QED
        BY <1>2, <3>1, <3>2, <3>3, <3>4, <3>5, <3>6, <3>7 DEF Erased
    <2>3. QED
      BY <1>3, <2>1, <2>2 DEF ErasedInv
  <1>9. CASE ResetFails
    BY <1>3, <1>9, ResetFailsIs DEF ErasedInv
  <1>10. QED
    BY <1>4, <1>5, <1>6, <1>7, <1>8, <1>9 DEF ResetStep

\* A reset leaves nothing of the accounts it removes.
THEOREM NothingIsLeft == CommunitySpec => []ResetLeavesNothing
  <1>1. CommunityInit => ErasedInv
    BY DEF CommunityInit, RowsInit, ErasedInv
  <1>2. BaseInv /\ ErasedInv /\ [CommunityNext]_vars => ErasedInv'
    <2>1. ASSUME ErasedInv, UNCHANGED vars PROVE ErasedInv'
      <3>1. UNCHANGED <<rows, cached, work, resetting, removed, clans, members, edges, following, followers, posts, feed,
                        inventory>>
        BY <2>1 DEF vars, pathVars, historyVars, rowVars, resetTables, clanVars, socialVars, graphVars, postVars,
           inventoryVars
      <3>2. \A a : /\ Erased(a)' = Erased(a) /\ Untouched(a)' = Untouched(a)
                   /\ ResetKnows(a)' = ResetKnows(a) /\ SweptSoFar(a)' = SweptSoFar(a)
        BY <3>1 DEF Erased, Untouched, ResetKnows, SweptSoFar, Busy, Gone
      <3>3. QED
        BY <2>1, <3>1, <3>2 DEF ErasedInv, Gone
    <2>2. QED
      BY <2>1, StepKinds, ErasedOfStarts, ErasedOfWork, ErasedOfReset
  <1>3. ErasedInv => ResetLeavesNothing
    BY DEF ErasedInv, Erased, ResetLeavesNothing
  <1>4. QED
    BY <1>1, <1>2, <1>3, BaseInvariant, PTL DEF CommunitySpec

-----------------------------------------------------------------------------
(***************************************************************************)
(* Part five: an account's row, its copy, and the tag it displays.         *)
(***************************************************************************)

\* A request that saves an account is about it.
LEMMA CarriesUses ==
    ASSUME BaseInv, NEW s \in Slot, NEW a \in Account
    PROVE  /\ CopiesTo(s, a) => UsesRow(s, a)
           /\ Carries(s, a) => UsesRow(s, a)
           /\ Leaving(s, a) => UsesRow(s, a)
           /\ (Doing(s, "create") \/ Doing(s, "join")) /\ work[s].who = a => UsesRow(s, a)
           /\ UsesRow(s, a) => a \in Stakes(work[s])
  <1>1. CopiesTo(s, a) \/ Carries(s, a) => UsesRow(s, a)
    BY SavingIs, ClanJobIs, FollowJobIs DEF CopiesTo, Carries, UsesRow, At
  <1>2. UsesRow(s, a) => a \in Stakes(work[s])
    BY StakesAre DEF UsesRow
  <1>3. QED
    BY <1>1, <1>2 DEF Leaving, Doing, UsesRow, ClanOps

LEMMA RowAlone ==
    ASSUME BaseInv, NEW a \in Account, a \notin crossed, NEW s \in Slot, UsesRow(s, a)
    PROVE  resetting = Idle /\ \A q \in Slot : UsesRow(q, a) => q = s
  BY CarriesUses DEF BaseInv, StakesAlone, UsesRow

\* The row, the copy and the tag of account a, while request s has it to itself.
RowOK(a, s) ==
    /\ CopiesTo(s, a) => rows[a] = work[s].row
    /\ ~CopiesTo(s, a) => cached[a] = rows[a]
    /\ rows[a] # NoRow => Worn(rows[a], a) \/ Leaving(s, a)
    /\ Carries(s, a) => Worn(work[s].row, a)
    /\ (Doing(s, "create") \/ Doing(s, "join")) /\ At(s, "first") /\ work[s].who = a =>
          <<work[s].on, a>> \in members

LEMMA OwnRow ==
    ASSUME BaseInv, CopyInv, TagsInv, NEW a \in Account, a \notin crossed, NEW s \in Slot, UsesRow(s, a)
    PROVE  RowOK(a, s)
  <1>1. resetting = Idle /\ \A q \in Slot : UsesRow(q, a) => q = s
    BY RowAlone
  <1>2. \A q \in Slot : (CopiesTo(q, a) => q = s) /\ (Leaving(q, a) => q = s)
    BY <1>1, CarriesUses
  <1>3. QED
    BY <1>1, <1>2 DEF RowOK, CopyInv, TagsInv

\* A request changes nothing of the accounts it is not about.
LEMMA RowsOfOthers ==
    ASSUME BaseInv, NEW s \in Slot, NEW a \in Account, ~UsesRow(s, a), Busy(s),
           ClanWorks(s) \/ SocialWorks(s) \/ CollectWorks(s) \/ AccountSaved(s) \/ RequestDies(s)
    PROVE  /\ rows'[a] = rows[a] /\ cached'[a] = cached[a]
           /\ \A t : <<t, a>> \in members' <=> <<t, a>> \in members
  <1>1. CASE ClanWorks(s)
    <2>1. work[s].who # a /\ UNCHANGED <<rows, cached>>
      BY <1>1 DEF ClanWorks, ClanStep, CreateClan, JoinClan, LeaveClan, CacheClan, DropClan, LeaveLoad, Doing,
         Refused, rowVars, UsesRow, ClanOps
    <2>2. QED
      BY <1>1, <2>1 DEF ClanWorks, ClanStep, CreateClan, JoinClan, LeaveClan, CacheClan, DropClan, LeaveLoad, Refused,
         clanVars
  <1>2. CASE SocialWorks(s) \/ CollectWorks(s) \/ RequestDies(s)
    BY <1>2 DEF SocialWorks, SocialStep, FollowEdge, FollowingSet, FollowersSet, CountFollowing, CountFollower, PostRow,
       PostFeed, CollectWorks, InventoryStep, CollectLoad, CollectSave, Collected, RequestDies, Dies, rowVars, clanVars,
       resetTables
  <1>3. CASE AccountSaved(s)
    <2>1. work[s].acct # a
      BY <1>3, CarriesUses DEF AccountSaved, SaveRow, CopyRow, At, Carries
    <2>2. QED
      BY <1>3, <2>1, TypesAre DEF AccountSaved, SaveRow, CopyRow, BaseInv, resetTables, clanVars
  <1>4. QED
    BY <1>1, <1>2, <1>3

\* A step of a clan's request, on the account it has to itself.
LEMMA RowOfClanWork ==
    ASSUME BaseInv, NEW s \in Slot, NEW a \in Account, UsesRow(s, a), RowOK(a, s), ClanWorks(s), ~Marred(s)
    PROVE  RowOK(a, s)'
  <1>1. Busy(s) /\ work[s].op \in ClanOps
    BY DEF ClanWorks, ClanStep, CreateClan, JoinClan, LeaveClan, CacheClan, DropClan, LeaveLoad, Doing, ClanOps
  <1>2. /\ work[s].who = a /\ work[s].acct = a /\ work[s].on \in Tag /\ work[s].row \in Row
        /\ RowsTypeOK /\ work[s] # Idle /\ work \in [Slot -> Job \cup {Idle}]
    BY <1>1, ClanJobIs, RowsAssumption DEF UsesRow, Busy, BaseInv, CommunityTypeOK, RowsTypeOK
  <1>3. UNCHANGED <<rows, cached>>
    BY DEF ClanWorks, ClanStep, CreateClan, JoinClan, LeaveClan, CacheClan, DropClan, LeaveLoad, Refused, rowVars
  <1>4. CASE CreateClan(s) \/ JoinClan(s)
    <2>1. /\ work[s].at = "table" /\ work[s].op \in {"create", "join"} /\ members \subseteq members'
          /\ work'[s] = Idle \/ <<work[s].on, a>> \in members'
      BY <1>2, <1>4, EndsJob DEF CreateClan, JoinClan, Refused, Doing, At, clanVars
    <2>2. work'[s] # Idle => /\ work'[s].at = "first" /\ work'[s].op = work[s].op /\ work'[s].on = work[s].on
      BY <1>1, <1>2, <1>4, GoesJob, EndsJob DEF CreateClan, JoinClan, Refused, Stage, SameCause
    <2>3. QED
      BY <1>2, <1>3, <2>1, <2>2 DEF RowOK, CopiesTo, Worn, Leaving, Carries, Doing, At, Busy
  <1>5. CASE LeaveClan(s)
    <2>1. work[s].at = "table" /\ work[s].op = "leave" /\ members' = members \ {<<work[s].on, a>>}
      BY <1>2, <1>5 DEF LeaveClan, Doing, At
    <2>2. /\ work'[s] # Idle /\ work'[s].at = "first" /\ work'[s].op = "leave"
          /\ work'[s].on = work[s].on /\ work'[s].who = a
      BY <1>1, <1>2, <1>5, <2>1, GoesJob DEF LeaveClan, Stage, SameCause
    <2>3. QED
      BY <1>2, <1>3, <2>1, <2>2 DEF RowOK, CopiesTo, Worn, Leaving, Carries, Doing, At, Busy
  <1>6. CASE CacheClan(s) \/ (DropClan(s) /\ Wears(s, "save"))
    <2>1. work[s].at = "first" /\ Wears(s, "save") /\ members' = members /\ resetting' = resetting /\ removed' = removed
          /\ crossed' = crossed
      BY <1>6, OrderlyIs DEF CacheClan, DropClan, Copied, At, Marred
    <2>2. work[s].op \in {"create", "join"}
      <3>1. CASE CacheClan(s)
        BY <3>1 DEF CacheClan, Doing
      <3>2. CASE DropClan(s) /\ ~Doing(s, "join")
        <4>1. Goes(s, "load") /\ Wears(s, "save")
          BY <2>1, <3>2 DEF DropClan
        <4>2. work'[s].at = "load" /\ work'[s].at = "save"
          BY <1>1, <1>2, <2>1, <4>1, GoesJob, WearsMoves DEF Stage
        <4>3. QED
          BY <4>2
      <3>3. QED
        BY <1>6, <3>1, <3>2 DEF Doing
    <2>3. work'[s] # Idle /\ work'[s].at = "save" /\ work'[s].row = [work[s].row EXCEPT !.tag = work[s].on]
          /\ work'[s].op = work[s].op
      BY <1>1, <2>1, WearsMoves, MovesOthers
    <2>4. work'[s].row.tag = work[s].on /\ <<work[s].on, a>> \in members
      BY <1>1, <1>2, <2>1, <2>2, <2>3 DEF Row, RowOK, Doing, At
    <2>5. QED
      BY <1>2, <1>3, <2>1, <2>2, <2>3, <2>4 DEF RowOK, CopiesTo, Worn, Leaving, Carries, Doing, At, Busy
  <1>7. CASE DropClan(s) /\ ~Wears(s, "save")
    <2>1. work[s].at = "first" /\ work[s].op = "leave" /\ members' = members /\ Goes(s, "load")
      BY <1>7 DEF DropClan, Doing, At
    <2>2. /\ work'[s] # Idle /\ work'[s].at = "load" /\ work'[s].op = "leave"
          /\ work'[s].on = work[s].on /\ work'[s].who = a
      BY <1>1, <1>2, <2>1, GoesJob DEF Stage, SameCause
    <2>3. QED
      BY <1>2, <1>3, <2>1, <2>2 DEF RowOK, CopiesTo, Worn, Leaving, Carries, Doing, At, Busy
  <1>8. CASE LeaveLoad(s)
    <2>1. work[s].at = "load" /\ work[s].op = "leave" /\ members' = members /\ work[s] \in Job
      BY <1>1, <1>2, <1>8, JobFields DEF LeaveLoad, Doing, At, clanVars
    <2>2. cached[a] = rows[a]
      BY <2>1 DEF RowOK, CopiesTo, At
    <2>3. CASE Ends(s)
      <3>1. work'[s] = Idle
        BY <1>2, <2>3, EndsJob
      <3>2. rows[a] # NoRow => rows[a].tag # work[s].on \/ work'[s] # Idle
        <4>1. ASSUME NEW row \in Copies(a), row.tag = work[s].on,
                     work' = [work EXCEPT ![s].at = "save", ![s].row = [row EXCEPT !.tag = NoTag]]
              PROVE  work'[s] # Idle
          <5>1. work'[s] = [work[s] EXCEPT !.at = "save", !.row = [row EXCEPT !.tag = NoTag]]
            BY <1>2, <4>1
          <5>2. row \in Row /\ [row EXCEPT !.tag = NoTag] \in Row
            BY CopiesAreRows DEF Row
          <5>3. work'[s] \in Job
            BY <2>1, <5>1, <5>2 DEF Job
          <5>4. QED
            BY <5>3, RowsAssumption
        <4>2. QED
          BY <1>2, <1>8, <2>2, <4>1 DEF LeaveLoad, Copies
      <3>3. QED
        BY <1>2, <1>3, <2>1, <2>2, <3>1, <3>2 DEF RowOK, CopiesTo, Worn, Leaving, Carries, Doing, At, Busy
    <2>4. CASE ~Ends(s)
      <3>1. PICK row \in Copies(a) : work' = [work EXCEPT ![s].at = "save", ![s].row = [row EXCEPT !.tag = NoTag]]
        BY <1>2, <1>8, <2>4 DEF LeaveLoad
      <3>2. work'[s] = [work[s] EXCEPT !.at = "save", !.row = [row EXCEPT !.tag = NoTag]] /\ row \in Row
        BY <1>2, <3>1, CopiesAreRows
      <3>3. /\ work'[s] \in Job /\ work'[s].at = "save" /\ work'[s].row.tag = NoTag /\ work'[s].op = "leave"
            /\ work'[s].who = a /\ work'[s].on = work[s].on
        BY <1>2, <2>1, <3>2 DEF Job, Row
      <3>4. work'[s] # Idle
        BY <3>3, RowsAssumption
      <3>5. QED
        BY <1>2, <1>3, <2>1, <2>2, <3>3, <3>4 DEF RowOK, CopiesTo, Worn, Leaving, Carries, Doing, At, Busy
    <2>5. QED
      BY <2>3, <2>4
  <1>9. QED
    BY <1>4, <1>5, <1>6, <1>7, <1>8 DEF ClanWorks, ClanStep

\* A step of a follow, on one of the two accounts.
LEMMA RowOfFollowWork ==
    ASSUME BaseInv, NEW s \in Slot, NEW a \in Account, UsesRow(s, a), RowOK(a, s), SocialWorks(s), ~Marred(s)
    PROVE  RowOK(a, s)'
  <1>1. Busy(s) /\ work[s].op \in FollowOps /\ work[s] # Idle /\ work[s].op \notin ClanOps
    BY SetsStep, CountsStep, PostStep
    DEF UsesRow, SocialWorks, SocialStep, FollowEdge, Doing, FollowOps, ClanOps, Busy
  <1>2. /\ work[s].on \in Account /\ work[s].who \in Account /\ work[s].who # work[s].on
        /\ a \in {work[s].who, work[s].on} /\ RowsTypeOK
    BY <1>1, FollowJobIs DEF UsesRow, BaseInv, CommunityTypeOK
  <1>3. UNCHANGED <<rows, cached, members>>
    BY DEF SocialWorks, SocialStep, FollowEdge, FollowingSet, FollowersSet, CountFollowing, CountFollower, PostRow, PostFeed,
       rowVars, clanVars
  <1>4. work[s].at \in {"table", "first", "second", "load", "reload"}
    BY <1>1 DEF SocialWorks, SocialStep, FollowEdge, FollowingSet, FollowersSet, CountFollowing, CountFollower, PostRow,
       PostFeed, At, Doing, FollowOps
  <1>5. cached[a] = rows[a] /\ (rows[a] # NoRow => Worn(rows[a], a))
    BY <1>1, <1>4 DEF RowOK, CopiesTo, At, Leaving, Doing, ClanOps
  <1>6. ASSUME work'[s] = Idle \/ (work'[s].at \in {"first", "second", "load", "reload"} /\ work'[s].op = work[s].op)
        PROVE  RowOK(a, s)'
    BY <1>1, <1>3, <1>5, <1>6 DEF RowOK, CopiesTo, Carries, Worn, Doing, At, Busy, ClanOps
  <1>7. ASSUME NEW stage \in {"first", "second", "load", "reload"}, Goes(s, stage) PROVE RowOK(a, s)'
    BY <1>1, <1>2, <1>6, <1>7, GoesJob DEF Stage, SameCause
  <1>8. ASSUME NEW b \in Account, NEW row \in Row, Saves(s, b, row), b # a \/ Worn(row, a)
        PROVE  RowOK(a, s)'
    <2>1. /\ work'[s] # Idle /\ work'[s].at = "save" /\ work'[s].op = work[s].op
          /\ work'[s].acct = b /\ work'[s].row = row
      <3>1. work[s] \in Job /\ work \in [Slot -> Job \cup {Idle}]
        BY <1>1, <1>2, JobFields DEF RowsTypeOK
      <3>2. work'[s] = [work[s] EXCEPT !.at = "save", !.acct = b, !.row = row]
        BY <1>8, <3>1 DEF Saves
      <3>3. work'[s] \in Job
        BY <3>1, <3>2 DEF Job
      <3>4. QED
        BY <3>1, <3>2, <3>3, RowsAssumption DEF Job
    <2>2. QED
      BY <1>1, <1>3, <1>5, <1>8, <2>1 DEF RowOK, CopiesTo, Carries, Worn, Doing, At, Busy, ClanOps
  <1>9. CASE CountFollowing(s)
    <2>1. CASE Goes(s, "reload")
      BY <1>7, <2>1
    <2>2. ASSUME NEW row \in Copies(work[s].who),
                 Saves(s, work[s].who, [row EXCEPT !.following = Counted(s, @)])
          PROVE  RowOK(a, s)'
      <3>1. [row EXCEPT !.following = Counted(s, @)] \in Row /\ row \in Row /\ row \in {rows[work[s].who], cached[work[s].who]}
            /\ row # NoRow
        BY <1>2, CopiesAreRows, CountedRow
      <3>2. [row EXCEPT !.following = Counted(s, @)].tag = row.tag
        BY <3>1 DEF Row
      <3>3. QED
        BY <1>2, <1>5, <1>8, <2>2, <3>1, <3>2 DEF Worn
    <2>3. QED
      BY <1>9, <2>1, <2>2 DEF CountFollowing, Follower
  <1>10. CASE CountFollower(s)
    <2>1. CASE Ends(s)
      BY <1>2, <1>6, <2>1, EndsJob
    <2>2. ASSUME NEW row \in Copies(work[s].on),
                 Saves(s, work[s].on, [row EXCEPT !.followers = Counted(s, @)])
          PROVE  RowOK(a, s)'
      <3>1. [row EXCEPT !.followers = Counted(s, @)] \in Row /\ row \in Row /\ row \in {rows[work[s].on], cached[work[s].on]}
            /\ row # NoRow
        BY <1>2, CopiesAreRows, CountedRow
      <3>2. [row EXCEPT !.followers = Counted(s, @)].tag = row.tag
        BY <3>1 DEF Row
      <3>3. QED
        BY <1>2, <1>5, <1>8, <2>2, <3>1, <3>2 DEF Worn
    <2>3. QED
      BY <1>10, <2>1, <2>2 DEF CountFollower, Target
  <1>11. QED
    BY <1>1, <1>7, <1>9, <1>10
    DEF SocialWorks, SocialStep, FollowEdge, FollowingSet, FollowersSet, PostRow, PostFeed, Doing, FollowOps

LEMMA RowOfSaving ==
    ASSUME BaseInv, NEW s \in Slot, NEW a \in Account, UsesRow(s, a), RowOK(a, s), AccountSaved(s), ~Marred(s)
    PROVE  RowOK(a, s)'
  <1>1. /\ Busy(s) /\ work[s] # Idle /\ work[s].at \in {"save", "copy"} /\ members' = members
        /\ work[s].op \in ClanOps \cup FollowOps /\ work[s].acct \in Account /\ work[s].row \in Row
        /\ RowsTypeOK /\ rows \in [Account -> Row \cup {NoRow}] /\ cached \in [Account -> Row \cup {NoRow}]
    BY SavingIs, TypesAre DEF AccountSaved, SaveRow, CopyRow, At, Busy, resetTables, clanVars, BaseInv, CommunityTypeOK
  <1>2. CASE SaveRow(s)
    <2>1. work[s].at = "save" /\ rows' = [rows EXCEPT ![work[s].acct] = work[s].row] /\ cached' = cached /\ Goes(s, "copy")
      BY <1>2 DEF SaveRow, At
    <2>2. /\ work'[s] # Idle /\ work'[s].at = "copy" /\ work'[s].op = work[s].op
          /\ work'[s].acct = work[s].acct /\ work'[s].row = work[s].row
      BY <1>1, <2>1, GoesJob DEF Stage, SameCause
    <2>3. CASE work[s].acct = a
      <3>1. rows'[a] = work[s].row
        BY <1>1, <2>1, <2>3
      <3>2. Worn(work[s].row, a)
        BY <1>1, <2>1, <2>3 DEF RowOK, Carries
      <3>3. QED
        BY <1>1, <2>2, <2>3, <3>1, <3>2 DEF RowOK, CopiesTo, Carries, Worn, At, Busy
    <2>4. CASE work[s].acct # a
      <3>1. rows'[a] = rows[a] /\ work[s].op \in FollowOps
        BY <1>1, <2>1, <2>4, ClanJobIs, RowsAssumption DEF UsesRow
      <3>2. QED
        BY <1>1, <2>1, <2>2, <2>4, <3>1 DEF RowOK, CopiesTo, Carries, Worn, Leaving, Doing, At, Busy, FollowOps
    <2>5. QED
      BY <2>3, <2>4
  <1>3. CASE CopyRow(s)
    <2>1. work[s].at = "copy" /\ cached' = [cached EXCEPT ![work[s].acct] = work[s].row] /\ rows' = rows
          /\ Follows(s, AfterSave(work[s]))
      BY <1>3 DEF CopyRow, At
    <2>2. \/ work'[s] = Idle
          \/ work'[s].at = "reload" /\ work'[s].op = work[s].op /\ work[s].op \in FollowOps
      <3>1. CASE Ends(s)
        BY <1>1, <3>1, EndsJob
      <3>2. CASE Goes(s, "reload") /\ work[s].op \in FollowOps
        BY <1>1, <3>2, GoesJob DEF Stage, SameCause
      <3>3. QED
        BY <2>1, <3>1, <3>2 DEF Follows, AfterSave, FollowOps
    <2>3. cached'[a] = rows[a]
      <3>1. CASE work[s].acct = a
        BY <1>1, <2>1, <3>1 DEF RowOK, CopiesTo, At
      <3>2. CASE work[s].acct # a
        BY <1>1, <2>1, <3>2 DEF RowOK, CopiesTo, At
      <3>3. QED
        BY <3>1, <3>2
    <2>4. rows[a] # NoRow => Worn(rows[a], a)
      BY <1>1, <2>1 DEF RowOK, Leaving
    <2>5. QED
      BY <1>1, <2>1, <2>2, <2>3, <2>4 DEF RowOK, CopiesTo, Carries, Worn, Doing, At, Busy, FollowOps
  <1>4. QED
    BY <1>2, <1>3 DEF AccountSaved

LEMMA RowsOfWork ==
    ASSUME BaseInv, CopyInv, TagsInv, NEW s \in Slot, Moves(s),
           ClanWorks(s) \/ SocialWorks(s) \/ CollectWorks(s) \/ AccountSaved(s) \/ RequestDies(s)
    PROVE  CopyInv' /\ TagsInv'
  <1>1. /\ \A q \in Slot : q # s => work'[q] = work[q]
        /\ Busy(s) /\ resetting' = resetting /\ crossed \subseteq crossed' /\ work[s] # Idle
        /\ crossed' = crossed \/ crossed' = crossed \cup Stakes(work[s])
        /\ work'[s] # Idle => /\ JobShape(work'[s]) /\ work'[s].op = work[s].op
                              /\ work'[s].who = work[s].who /\ work'[s].on = work[s].on
    BY MovesOthers
  <1>2. ASSUME NEW a \in Account, a \notin crossed', UsesRow(s, a)
        PROVE  /\ resetting = Idle /\ RowOK(a, s)' /\ \A q \in Slot : UsesRow(q, a) => q = s
    <2>1. resetting = Idle /\ RowOK(a, s) /\ \A q \in Slot : UsesRow(q, a) => q = s
      BY <1>1, <1>2, RowAlone, OwnRow
    <2>2. ~Marred(s)
      BY <1>2, CarriesUses DEF Marred
    <2>3. ~CollectWorks(s) /\ ~RequestDies(s)
      BY <1>2, <2>2 DEF CollectWorks, InventoryStep, CollectLoad, CollectSave, Doing, UsesRow, ClanOps, FollowOps,
         RequestDies, Dies
    <2>4. QED
      BY <1>2, <2>1, <2>2, <2>3, RowOfClanWork, RowOfFollowWork, RowOfSaving
  <1>3. ASSUME NEW a \in Account, NEW q \in Slot
        PROVE  /\ CopiesTo(q, a)' => UsesRow(q, a) /\ (q # s => CopiesTo(q, a))
               /\ Carries(q, a)' => UsesRow(q, a) /\ (q # s => Carries(q, a))
               /\ q # s => /\ Leaving(q, a)' <=> Doing(q, "leave") /\ work[q].who = a /\ work[q].on = rows'[a].tag
                                                 /\ work[q].at \in {"first", "load", "save"}
                           /\ CopiesTo(q, a) => CopiesTo(q, a)'
    <2>1. CASE q # s
      BY <1>1, <2>1, CarriesUses DEF CopiesTo, Carries, Leaving, Doing, At, Busy
    <2>2. CASE q = s
      BY <1>1, <2>2, OtherJobIs DEF CopiesTo, Carries, UsesRow, JobShape, At, Busy, ClanOps, FollowOps
    <2>3. QED
      BY <2>1, <2>2
  <1>4. ASSUME NEW a \in Account, a \notin crossed'
        PROVE  /\ resetting' = Idle =>
                     /\ (\A q \in Slot : CopiesTo(q, a) => rows[a] = work[q].row)'
                     /\ (\A q \in Slot : ~CopiesTo(q, a))' => cached'[a] = rows'[a]
               /\ resetting' # Idle =>
                     /\ a \notin Gone' => cached'[a] = rows'[a]
                     /\ a \in Gone' /\ resetting'.at \in {"feed", "rows"} => cached'[a] = NoRow
    <2>1. CASE UsesRow(s, a)
      <3>1. resetting' = Idle /\ RowOK(a, s)' /\ \A q \in Slot : UsesRow(q, a) => q = s
        BY <1>1, <1>2, <1>4, <2>1
      <3>2. \A q \in Slot : CopiesTo(q, a)' => q = s
        BY <1>3, <3>1
      <3>3. QED
        BY <3>1, <3>2 DEF RowOK
    <2>2. CASE ~UsesRow(s, a)
      <3>1. rows'[a] = rows[a] /\ cached'[a] = cached[a]
        BY <1>1, <2>2, RowsOfOthers
      <3>2. \A q \in Slot : /\ CopiesTo(q, a)' => CopiesTo(q, a) /\ work'[q] = work[q]
                            /\ CopiesTo(q, a) => CopiesTo(q, a)'
        BY <1>1, <1>3, <2>2, CarriesUses
      <3>3. a \notin crossed /\ Gone' = Gone
        BY <1>1, <1>4 DEF Gone
      <3>4. QED
        BY <1>1, <3>1, <3>2, <3>3 DEF CopyInv
    <2>3. QED
      BY <2>1, <2>2
  <1>5. CopyInv'
    BY <1>4 DEF CopyInv
  <1>6. ASSUME NEW a \in Account, a \notin crossed'
        PROVE  /\ rows'[a] # NoRow => Worn(rows[a], a)' \/ \E q \in Slot : Leaving(q, a)'
               /\ \A q \in Slot : Carries(q, a)' => Worn(work[q].row, a)'
               /\ \A q \in Slot : ((Doing(q, "create") \/ Doing(q, "join")) /\ At(q, "first") /\ work[q].who = a)' =>
                     <<work'[q].on, a>> \in members'
    <2>1. CASE UsesRow(s, a)
      <3>1. RowOK(a, s)' /\ \A q \in Slot : UsesRow(q, a) => q = s
        BY <1>2, <1>6, <2>1
      <3>2. \A q \in Slot : (Carries(q, a) \/ ((Doing(q, "create") \/ Doing(q, "join")) /\ work[q].who = a))' => q = s
        <4>1. \A q \in Slot : q # s /\ ((Doing(q, "create") \/ Doing(q, "join")) /\ work[q].who = a)' => UsesRow(q, a)
          BY <1>1 DEF Doing, Busy, UsesRow, ClanOps
        <4>2. QED
          BY <1>3, <3>1, <4>1
      <3>3. QED
        BY <3>1, <3>2 DEF RowOK
    <2>2. CASE ~UsesRow(s, a)
      <3>1. rows'[a] = rows[a] /\ \A t : <<t, a>> \in members' <=> <<t, a>> \in members
        BY <1>1, <2>2, RowsOfOthers
      <3>2. a \notin crossed
        BY <1>1, <1>6
      <3>3. \A q \in Slot : Leaving(q, a) => Leaving(q, a)'
        BY <1>1, <2>2, <3>1, CarriesUses DEF Leaving, Doing, Busy
      <3>4. \A q \in Slot : Carries(q, a)' => Carries(q, a) /\ work'[q] = work[q]
        BY <1>1, <1>3, <2>2
      <3>5. \A q \in Slot : ((Doing(q, "create") \/ Doing(q, "join")) /\ At(q, "first") /\ work[q].who = a)' =>
                                 (Doing(q, "create") \/ Doing(q, "join")) /\ At(q, "first") /\ work[q].who = a
                                 /\ work'[q].on = work[q].on
        BY <1>1, <2>2 DEF Doing, At, Busy, UsesRow, ClanOps
      <3>6. QED
        BY <3>1, <3>2, <3>3, <3>4, <3>5 DEF TagsInv, Worn
    <2>3. QED
      BY <2>1, <2>2
  <1>7. TagsInv'
    BY <1>6 DEF TagsInv
  <1>8. QED
    BY <1>5, <1>7

LEMMA RowsOfStarts ==
    ASSUME BaseInv, CopyInv, TagsInv, NEW s \in Slot, Starts(s)
    PROVE  CopyInv' /\ TagsInv'
  <1>1. PICK j : Fresh(j) /\ Begins(s, j) /\ UNCHANGED <<rowVars, resetTables>>
    BY DEF Starts
  <1>2. /\ \A q \in Slot : q # s => work'[q] = work[q]
        /\ work'[s] = j /\ work[s] = Idle /\ crossed \subseteq crossed'
        /\ UNCHANGED <<rows, cached, members>> /\ j.at \in {"table", "load"} /\ (j.op # "collect" => j.at = "table")
    BY <1>1, StartsOthers DEF Fresh, resetTables, clanVars, rowVars
  <1>3. /\ resetting = Idle => resetting' = Idle
        /\ resetting # Idle => resetting' # Idle /\ resetting'.humans = resetting.humans /\ resetting'.at = resetting.at
    BY <1>1, BeginsIs DEF Reset
  <1>4. ASSUME NEW a \in Account, NEW q \in Slot
        PROVE  /\ CopiesTo(q, a)' <=> CopiesTo(q, a)
               /\ Carries(q, a)' <=> Carries(q, a)
               /\ Leaving(q, a)' <=> Leaving(q, a)
               /\ q # s => work'[q] = work[q]
               /\ ((Doing(q, "create") \/ Doing(q, "join")) /\ At(q, "first"))' => q # s
               /\ CopiesTo(q, a) \/ Carries(q, a) => q # s
    BY <1>2 DEF CopiesTo, Carries, Leaving, Doing, At, Busy
  <1>5. CopyInv'
    BY <1>2, <1>3, <1>4 DEF CopyInv, Gone
  <1>6. TagsInv'
    BY <1>2, <1>4 DEF TagsInv, Worn, Doing, At, Busy
  <1>7. QED
    BY <1>5, <1>6

LEMMA RowsOfReset ==
    ASSUME BaseInv, CopyInv, TagsInv, ResetStep
    PROVE  CopyInv' /\ TagsInv'
  <1>1. work' = work /\ crossed \subseteq crossed'
    BY ResetStepType
  <1>2. \A a \in Account, q \in Slot : (CopiesTo(q, a)' <=> CopiesTo(q, a)) /\ (Carries(q, a)' <=> Carries(q, a))
    BY <1>1 DEF CopiesTo, Carries, At, Busy
  <1>3. ASSUME UNCHANGED <<rows, members>> PROVE TagsInv'
    <2>1. \A a \in Account, q \in Slot : Leaving(q, a)' <=> Leaving(q, a)
      BY <1>1, <1>3 DEF Leaving, Doing, Busy
    <2>2. QED
      BY <1>1, <1>2, <1>3, <2>1 DEF TagsInv, Worn, Doing, At, Busy
  <1>4. CASE ResetReads
    <2>1. /\ resetting = Idle /\ resetting' # Idle /\ resetting'.at = "sets" /\ UNCHANGED <<rows, cached, members>>
          /\ crossed' = crossed \cup AtStake
      BY <1>4, ResetReadsIs DEF rowVars, resetTables, clanVars
    <2>2. \A a \in Account, q \in Slot : a \notin crossed' => ~CopiesTo(q, a)
      BY <2>1, CarriesUses, JobsAreBusy DEF UsesRow
    <2>3. CopyInv'
      BY <1>1, <2>1, <2>2 DEF CopyInv
    <2>4. QED
      BY <1>3, <2>1, <2>3
  <1>5. CASE ResetSets \/ ResetFeed
    <2>1. /\ resetting # Idle /\ resetting' # Idle /\ resetting'.humans = resetting.humans
          /\ UNCHANGED <<rows, cached, members>> /\ (resetting.at = "feed" \/ resetting'.at = "keys")
      BY <1>5, ResetSetsIs, ResetFeedIs DEF rowVars, clanVars, SameReset
    <2>2. CopyInv'
      BY <1>1, <2>1 DEF CopyInv, Gone
    <2>3. QED
      BY <1>3, <2>1, <2>2
  <1>6. CASE ResetKeys
    <2>1. /\ resetting # Idle /\ resetting' # Idle /\ resetting'.humans = resetting.humans
          /\ UNCHANGED <<rows, members>>
          /\ \A a \in Account : cached'[a] = IF a \in Gone THEN NoRow ELSE cached[a]
      BY <1>6, ResetKeysIs DEF SameReset
    <2>2. CopyInv'
      BY <1>1, <2>1 DEF CopyInv, Gone
    <2>3. QED
      BY <1>3, <2>1, <2>2
  <1>7. CASE ResetRows
    <2>1. /\ resetting # Idle /\ resetting' = Idle /\ resetting.at = "rows" /\ cached' = cached
          /\ \A a \in Account : rows'[a] = IF a \in Gone THEN NoRow ELSE rows[a]
          /\ members' = members \ LostMembers /\ crossed' = crossed \cup {m[2] : m \in LostMembers}
      BY <1>7, ResetRowsIs
    <2>2. \A a \in Account, q \in Slot : a \notin crossed => ~UsesRow(q, a)
      BY <2>1, RowAlone
    <2>3. CopyInv'
      BY <1>1, <1>2, <2>1, <2>2, CarriesUses DEF CopyInv
    <2>4. ASSUME NEW a \in Account, a \notin crossed' PROVE \A t : <<t, a>> \in members' <=> <<t, a>> \in members
      BY <2>1, <2>4
    <2>5. TagsInv'
      <3>1. SUFFICES ASSUME NEW a \in Account, a \notin crossed'
                     PROVE  /\ rows'[a] # NoRow => Worn(rows[a], a)'
                            /\ \A q \in Slot : ~Carries(q, a)' /\ ~((Doing(q, "create") \/ Doing(q, "join")) /\ work[q].who = a)'
        BY DEF TagsInv
      <3>2. a \notin crossed /\ \A q \in Slot : ~UsesRow(q, a)
        BY <1>1, <2>2, <3>1
      <3>3. rows[a] # NoRow => Worn(rows[a], a)
        BY <3>2, CarriesUses DEF TagsInv
      <3>4. rows'[a] # NoRow => Worn(rows[a], a)'
        BY <2>1, <2>4, <3>1, <3>3 DEF Worn
      <3>5. \A q \in Slot : ~((Doing(q, "create") \/ Doing(q, "join")) /\ work[q].who = a)'
        BY <1>1, <3>2 DEF Doing, Busy, UsesRow, ClanOps
      <3>6. QED
        BY <1>2, <3>2, <3>4, <3>5, CarriesUses
    <2>6. QED
      BY <2>3, <2>5
  <1>8. CASE ResetFails
    BY <1>8, ResetFailsIs DEF CopyInv, TagsInv
  <1>9. QED
    BY <1>4, <1>5, <1>6, <1>7, <1>8 DEF ResetStep

\* The cached copy of an account is its row, and the tag in it is a membership,
\* at every stage of every request on it, if nothing overlapped or failed there.
THEOREM RowsInvariant == CommunitySpec => [](CopyInv /\ TagsInv)
  <1>1. CommunityInit => CopyInv /\ TagsInv
    <2>1. Blank.tag = NoTag
      BY DEF Blank
    <2>2. CommunityInit => resetting = Idle /\ \A a \in Account : cached[a] = Blank /\ rows[a] = Blank
      BY DEF CommunityInit, RowsInit
    <2>3. QED
      BY <2>1, <2>2, BaseInit DEF CopyInv, TagsInv, CopiesTo, Carries, Doing, At, Worn
  <1>2. BaseInv /\ CopyInv /\ TagsInv /\ [CommunityNext]_vars => CopyInv' /\ TagsInv'
    <2>1. ASSUME CopyInv, TagsInv, UNCHANGED vars PROVE CopyInv' /\ TagsInv'
      <3>1. UNCHANGED <<rows, cached, work, resetting, crossed, members>>
        BY <2>1 DEF vars, pathVars, historyVars, rowVars, resetTables, clanVars
      <3>2. \A a \in Account, q \in Slot : /\ CopiesTo(q, a)' <=> CopiesTo(q, a)
                                           /\ Carries(q, a)' <=> Carries(q, a)
                                           /\ Leaving(q, a)' <=> Leaving(q, a)
        BY <3>1 DEF CopiesTo, Carries, Leaving, Doing, At, Busy
      <3>3. QED
        BY <2>1, <3>1, <3>2 DEF CopyInv, TagsInv, Worn, Doing, At, Busy, Gone
    <2>2. QED
      BY <2>1, StepKinds, RowsOfStarts, RowsOfWork, RowsOfReset
  <1>3. QED
    BY <1>1, <1>2, BaseInvariant, PTL DEF CommunitySpec

\* Whoever displays a tag is a member of that clan.
THEOREM TagsTellMembership == CommunitySpec => []DisplayedTagIsMembership
  <1>1. BaseInv /\ CopyInv /\ TagsInv => DisplayedTagIsMembership
    <2> SUFFICES ASSUME BaseInv, TagsInv, NEW a \in Account, a \notin crossed, Quiet(a), rows[a] # NoRow,
                        rows[a].tag # NoTag
                 PROVE  <<rows[a].tag, a>> \in members
      BY DEF DisplayedTagIsMembership
    <2>1. \A q \in Slot : ~Leaving(q, a)
      BY CarriesUses, JobsAreBusy DEF Quiet, UsesRow
    <2>2. QED
      BY <2>1 DEF TagsInv, Worn
  <1>2. QED
    BY <1>1, BaseInvariant, RowsInvariant, PTL

-----------------------------------------------------------------------------
(***************************************************************************)
(* Part six: what a clan tells of its members, and its copy of it.         *)
(***************************************************************************)

\* Counting one account more, or one less: below MaxCount no count saturates.
LEMMA Counting ==
    ASSUME NEW S \in SUBSET Account, NEW a \in Account
    PROVE  /\ IsFiniteSet(S) /\ Cardinality(S) \in 0..MaxCount /\ (Cardinality(S) = 0 <=> S = {})
           /\ a \notin S => /\ Cardinality(S \cup {a}) = Cardinality(S) + 1
                            /\ More(Cardinality(S)) = Cardinality(S) + 1
           /\ a \in S => /\ Cardinality(S \ {a}) = Cardinality(S) - 1 /\ Cardinality(S) > 0
                         /\ Less(Cardinality(S)) = Cardinality(S) - 1
  <1>1. IsFiniteSet(Account) /\ Cardinality(Account) \in Nat /\ Cardinality(Account) <= MaxCount
    BY CountAssumption, FS_CardinalityType
  <1>2. IsFiniteSet(S) /\ Cardinality(S) <= Cardinality(Account)
    BY <1>1, FS_Subset
  <1>3. Cardinality(S) \in Nat /\ (Cardinality(S) = 0 <=> S = {})
    BY <1>2, FS_CardinalityType, FS_EmptySet
  <1>4. ASSUME a \notin S PROVE Cardinality(S \cup {a}) = Cardinality(S) + 1 /\ Cardinality(S) < MaxCount
    <2>1. Cardinality(S \cup {a}) = Cardinality(S) + 1
      BY <1>2, <1>4, FS_AddElement
    <2>2. Cardinality(S \cup {a}) <= Cardinality(Account)
      BY <1>1, FS_Subset
    <2>3. QED
      BY <1>1, <1>3, <2>1, <2>2, RowsAssumption
  <1>5. ASSUME a \in S PROVE Cardinality(S \ {a}) = Cardinality(S) - 1 /\ Cardinality(S) > 0
    <2>1. Cardinality(S \ {a}) = Cardinality(S) - 1
      BY <1>2, <1>5, FS_RemoveElement
    <2>2. Cardinality(S) # 0
      BY <1>3, <1>5
    <2>3. QED
      BY <1>3, <2>1, <2>2
  <1>6. QED
    BY <1>1, <1>2, <1>3, <1>4, <1>5, RowsAssumption DEF More, Less

\* The pairs a clan loses are as many as the accounts in them.
LEMMA LostAreAccounts ==
    ASSUME BaseInv, resetting # Idle, NEW t \in Tag
    PROVE  LostIn(t) = Cardinality({a \in Account : <<t, a>> \in LostMembers})
  <1> DEFINE S == {m \in LostMembers : m[1] = t}
             T == {a \in Account : <<t, a>> \in LostMembers}
             second == [m \in S |-> m[2]]
  <1>1. \A m \in S : m[2] \in T /\ m = <<t, m[2]>>
    BY ResetFields DEF LostMembers
  <1>2. \A a \in T : <<t, a>> \in S /\ <<t, a>>[2] = a
    OBVIOUS
  <1>3. second \in Injection(S, T)
    BY <1>1 DEF Injection, IsInjective
  <1>4. second \in Surjection(S, T)
    BY <1>1, <1>2 DEF Surjection
  <1>5. ExistsBijection(S, T)
    BY <1>3, <1>4 DEF ExistsBijection, Bijection
  <1>6. IsFiniteSet(S) /\ LostIn(t) = Cardinality(S)
    BY LostCounts DEF LostIn
  <1>7. QED
    BY <1>5, <1>6, FS_Bijection

\* A request changes nothing of the clans it is not about.
LEMMA ClansOfOthers ==
    ASSUME BaseInv, NEW s \in Slot, NEW t \in Tag, ~OnClan(s, t), Busy(s),
           ClanWorks(s) \/ SocialWorks(s) \/ CollectWorks(s) \/ AccountSaved(s) \/ RequestDies(s)
    PROVE  /\ clans'[t] = clans[t] /\ clanCopy'[t] = clanCopy[t]
           /\ \A a : <<t, a>> \in members' <=> <<t, a>> \in members
  <1>1. clans \in [Tag -> Clan \cup {NoClan}] /\ clanCopy \in [Tag -> Clan \cup {NoClan}]
    BY DEF BaseInv, CommunityTypeOK, ClansTypeOK
  <1>2. CASE ClanWorks(s)
    <2>1. work[s].on # t
      BY <1>2 DEF ClanWorks, ClanStep, CreateClan, JoinClan, LeaveClan, CacheClan, DropClan, LeaveLoad, Doing, OnClan,
         ClanOps
    <2>2. QED
      BY <1>1, <1>2, <2>1 DEF ClanWorks, ClanStep, CreateClan, JoinClan, LeaveClan, CacheClan, DropClan, LeaveLoad,
         Refused, clanVars, Copied
  <1>3. CASE ~ClanWorks(s)
    BY <1>3 DEF SocialWorks, CollectWorks, AccountSaved, RequestDies, clanVars, resetTables
  <1>4. QED
    BY <1>2, <1>3

LEMMA SkewGrows ==
    ASSUME BaseInv, NEW s \in Slot,
           ClanWorks(s) \/ SocialWorks(s) \/ CollectWorks(s) \/ AccountSaved(s) \/ RequestDies(s)
    PROVE  skewed \subseteq skewed'
  BY DEF ClanWorks, ClanStep, CreateClan, JoinClan, LeaveClan, CacheClan, DropClan, LeaveLoad, Refused, Miscounts, Copied,
     SocialWorks, SocialStep, FollowEdge, FollowingSet, FollowersSet, CountFollowing, CountFollower, PostRow, PostFeed,
     CollectWorks, InventoryStep, CollectLoad, CollectSave, Collected, AccountSaved, SaveRow, CopyRow, RequestDies, Dies,
     Marred, Orderly, pathVars, historyVars

LEMMA TruthOfWork ==
    ASSUME BaseInv, TruthInv, NEW s \in Slot, Moves(s),
           ClanWorks(s) \/ SocialWorks(s) \/ CollectWorks(s) \/ AccountSaved(s) \/ RequestDies(s)
    PROVE  TruthInv'
  <1>1. /\ \A q \in Slot : q # s => work'[q] = work[q]
        /\ Busy(s) /\ work[s] # Idle /\ resetting' = resetting /\ skewed \subseteq skewed'
        /\ work'[s] # Idle => work'[s].op = work[s].op /\ work'[s].on = work[s].on
    BY MovesOthers, SkewGrows
  <1>2. \A t : \A q \in Slot : OnClan(q, t)' => OnClan(q, t)
    BY <1>1 DEF OnClan, Busy
  <1> SUFFICES ASSUME NEW t \in Tag, t \notin skewed'
               PROVE  /\ CountsTrue(t)'
                      /\ resetting' # Idle =>
                            /\ \A q \in Slot : ~OnClan(q, t)'
                            /\ \A a \in Account : <<t, a>> \in members' <=> <<t, a>> \in resetting'.members
    BY DEF TruthInv
  <1>3. /\ CountsTrue(t) /\ t \notin skewed
        /\ resetting # Idle => /\ \A q \in Slot : ~OnClan(q, t)
                               /\ \A a \in Account : <<t, a>> \in members <=> <<t, a>> \in resetting.members
    BY <1>1 DEF TruthInv
  <1>4. CASE clans'[t] = clans[t] /\ \A a : <<t, a>> \in members' <=> <<t, a>> \in members
    <2>1. MembersOf(t)' = MembersOf(t)
      BY <1>4 DEF MembersOf
    <2>2. QED
      BY <1>1, <1>2, <1>3, <1>4, <2>1 DEF CountsTrue
  <1>5. CASE ~OnClan(s, t)
    BY <1>1, <1>4, <1>5, ClansOfOthers
  <1>6. CASE OnClan(s, t) /\ (CreateClan(s) \/ JoinClan(s) \/ LeaveClan(s))
    <2> DEFINE a == work[s].who
    <2>1. /\ resetting' = Idle /\ work[s].on = t /\ a \in Account
          /\ clans \in [Tag -> Clan \cup {NoClan}] /\ MembersOf(t) \in SUBSET Account
      BY <1>1, <1>3, <1>6, ClanJobIs DEF OnClan, BaseInv, CommunityTypeOK, ClansTypeOK, MembersOf
    <2>2. a \in MembersOf(t) <=> <<t, a>> \in members
      BY <2>1 DEF MembersOf
    <2>3. clans[t] # NoClan => clans[t] \in Clan /\ clans[t].count \in 0..MaxCount
      BY <2>1 DEF Clan
    <2>4. CASE CreateClan(s)
      <3>1. CASE Refused(s)
        BY <1>4, <3>1 DEF Refused, clanVars
      <3>2. CASE clans[t] = NoClan /\ ~Refused(s)
        <4>1. clans' = [clans EXCEPT ![t] = [leader |-> a, count |-> 1]] /\ members' = members \cup {<<t, a>>}
          BY <2>1, <2>4, <3>2 DEF CreateClan
        <4>2. MembersOf(t) = {} /\ MembersOf(t)' = MembersOf(t) \cup {a}
          BY <1>3, <2>1, <3>2, <4>1 DEF CountsTrue, MembersOf
        <4>3. Cardinality(MembersOf(t)') = 1
          <5>1. Cardinality({} \cup {a}) = Cardinality({}) + 1
            BY FS_EmptySet, FS_AddElement
          <5>2. QED
            BY <4>2, <5>1, FS_EmptySet
        <4>4. clans'[t] # NoClan /\ clans'[t].count = 1
          <5>1. clans'[t] = [leader |-> a, count |-> 1]
            BY <2>1, <4>1
          <5>2. clans'[t] \in Clan
            BY <2>1, <5>1, RowsAssumption DEF Clan
          <5>3. QED
            BY <5>1, <5>2, ClansAssumption
        <4>5. QED
          BY <2>1, <4>3, <4>4 DEF CountsTrue
      <3>3. QED
        BY <2>1, <2>4, <3>1, <3>2 DEF CreateClan
    <2>5. CASE JoinClan(s)
      <3>1. CASE Refused(s)
        BY <1>4, <3>1 DEF Refused, clanVars
      <3>2. CASE clans[t] # NoClan /\ ~Refused(s)
        <4>1. /\ clans' = [clans EXCEPT ![t].count = More(@)] /\ members' = members \cup {<<t, a>>}
              /\ <<t, a>> \notin members
          BY <2>1, <2>5, <3>2 DEF JoinClan, Miscounts
        <4>2. MembersOf(t)' = MembersOf(t) \cup {a} /\ a \notin MembersOf(t)
          BY <2>1, <2>2, <4>1 DEF MembersOf
        <4>3. Cardinality(MembersOf(t)') = More(Cardinality(MembersOf(t)))
          BY <2>1, <4>2, Counting
        <4>4. clans'[t] # NoClan /\ clans'[t].count = More(clans[t].count)
          <5>1. clans'[t] = [clans[t] EXCEPT !.count = More(@)]
            BY <2>1, <4>1
          <5>2. clans'[t] \in Clan /\ clans'[t].count = More(clans[t].count)
            BY <2>3, <3>2, <5>1, CountTypes DEF Clan
          <5>3. QED
            BY <5>2, ClansAssumption
        <4>5. QED
          BY <1>3, <2>1, <3>2, <4>3, <4>4 DEF CountsTrue
      <3>3. QED
        BY <2>1, <2>5, <3>1, <3>2 DEF JoinClan
    <2>6. CASE LeaveClan(s)
      <3>1. MembersOf(t)' = MembersOf(t) \ {a}
        BY <2>1, <2>6 DEF LeaveClan, MembersOf
      <3>2. CASE clans[t] = NoClan
        BY <1>3, <2>1, <2>6, <3>1, <3>2 DEF LeaveClan, CountsTrue
      <3>3. CASE clans[t] # NoClan
        <4>1. a \in MembersOf(t)
          BY <2>1, <2>2, <2>6, <3>3 DEF LeaveClan, Miscounts
        <4>2. Cardinality(MembersOf(t)') = clans[t].count - 1 /\ clans[t].count > 0
          <5>1. Cardinality(MembersOf(t) \ {a}) = Cardinality(MembersOf(t)) - 1 /\ Cardinality(MembersOf(t)) > 0
            BY <2>1, <4>1, Counting
          <5>2. clans[t].count = Cardinality(MembersOf(t))
            BY <1>3, <3>3 DEF CountsTrue
          <5>3. QED
            BY <3>1, <5>1, <5>2
        <4>3. CASE clans[t].count > 1
          <5>1. clans'[t] = [clans[t] EXCEPT !.count = @ - 1]
            BY <2>1, <2>6, <3>3, <4>3 DEF LeaveClan
          <5>2. clans'[t] \in Clan /\ clans'[t].count = clans[t].count - 1
            BY <2>3, <3>3, <4>3, <5>1, CountTypes DEF Clan
          <5>3. QED
            BY <2>1, <4>2, <5>2, ClansAssumption DEF CountsTrue
        <4>4. CASE ~(clans[t].count > 1)
          <5>1. clans'[t] = NoClan
            BY <2>1, <2>6, <3>3, <4>4 DEF LeaveClan
          <5>2. Cardinality(MembersOf(t)') = 0 /\ MembersOf(t)' \in SUBSET Account
            BY <2>1, <2>3, <3>1, <3>3, <4>2, <4>4
          <5>3. MembersOf(t)' = {}
            BY <2>1, <5>2, Counting
          <5>4. QED
            BY <2>1, <5>1, <5>3 DEF CountsTrue
        <4>5. QED
          BY <4>3, <4>4
      <3>4. QED
        BY <3>2, <3>3
    <2>7. QED
      BY <1>6, <2>4, <2>5, <2>6
  <1>7. CASE ~(CreateClan(s) \/ JoinClan(s) \/ LeaveClan(s))
    <2>1. UNCHANGED <<clans, members>>
      BY <1>7 DEF ClanWorks, ClanStep, CacheClan, DropClan, LeaveLoad, SocialWorks, CollectWorks, AccountSaved, RequestDies,
         clanVars, resetTables
    <2>2. QED
      BY <1>4, <2>1
  <1>8. QED
    BY <1>5, <1>6, <1>7

LEMMA TruthOfStarts ==
    ASSUME BaseInv, TruthInv, NEW s \in Slot, Starts(s)
    PROVE  TruthInv'
  <1>1. PICK j : Fresh(j) /\ Begins(s, j) /\ UNCHANGED <<rowVars, resetTables>>
    BY DEF Starts
  <1>2. /\ \A q \in Slot : q # s => work'[q] = work[q]
        /\ work'[s] = j /\ UNCHANGED <<clans, members>>
        /\ resetting = Idle => resetting' = Idle /\ skewed' = skewed
        /\ resetting # Idle => skewed' = skewed \cup (Tag \cap {j.on}) /\ resetting'.members = resetting.members
    BY <1>1, StartsOthers, BeginsIs DEF resetTables, clanVars, Reset
  <1>3. \A t \in Tag : CountsTrue(t)' <=> CountsTrue(t)
    BY <1>2 DEF CountsTrue, MembersOf
  <1>4. ASSUME resetting # Idle, NEW t \in Tag, t \notin skewed', NEW q \in Slot, ~OnClan(q, t) PROVE ~OnClan(q, t)'
    BY <1>2, <1>4 DEF OnClan, Busy
  <1>5. QED
    BY <1>2, <1>3, <1>4 DEF TruthInv

LEMMA TruthOfReset ==
    ASSUME BaseInv, TruthInv, ResetStep
    PROVE  TruthInv'
  <1>1. work' = work
    BY ResetStepType
  <1>2. \A t : \A q \in Slot : OnClan(q, t)' <=> OnClan(q, t)
    BY <1>1 DEF OnClan, Busy
  <1>3. ASSUME UNCHANGED <<clans, members>> PROVE \A t \in Tag : CountsTrue(t)' <=> CountsTrue(t)
    BY <1>3 DEF CountsTrue, MembersOf
  <1>4. CASE ResetReads
    <2>1. UNCHANGED <<clans, members>> /\ resetting'.members = members /\ skewed' = skewed \cup (Tag \cap AtStake)
      BY <1>4, ResetReadsIs DEF resetTables, clanVars
    <2>2. \A t \in Tag, q \in Slot : OnClan(q, t) => t \in AtStake
      BY JobsAreBusy, StakesAre DEF OnClan
    <2>3. QED
      BY <1>2, <1>3, <2>1, <2>2 DEF TruthInv
  <1>5. CASE ResetSets \/ ResetKeys \/ ResetFeed
    <2>1. UNCHANGED <<clans, members>> /\ resetting # Idle /\ resetting'.members = resetting.members /\ skewed' = skewed
      BY <1>5, ResetSetsIs, ResetKeysIs, ResetFeedIs DEF SameReset, Work, clanVars
    <2>2. QED
      BY <1>2, <1>3, <2>1 DEF TruthInv
  <1>6. CASE ResetRows
    <2>1. /\ resetting # Idle /\ resetting' = Idle /\ members' = members \ LostMembers
          /\ \A t \in Tag : clans'[t] = ClanLess(t) /\ skewed \subseteq skewed'
      BY <1>6, ResetRowsIs
    <2>2. ASSUME NEW t \in Tag, t \notin skewed' PROVE CountsTrue(t)'
      <3> DEFINE T == {a \in Account : <<t, a>> \in LostMembers}
      <3>1. /\ CountsTrue(t) /\ clans[t] \in Clan \cup {NoClan}
            /\ \A a \in Account : <<t, a>> \in members <=> <<t, a>> \in resetting.members
        BY <2>1, <2>2 DEF TruthInv, BaseInv, CommunityTypeOK, ClansTypeOK
      <3>2. MembersOf(t)' = MembersOf(t) \ T /\ T \subseteq MembersOf(t) /\ MembersOf(t) \in SUBSET Account
        BY <2>1, <3>1 DEF MembersOf, LostMembers
      <3>3. CASE t \in resetting.led
        <4>1. T = MembersOf(t)
          BY <3>1, <3>3 DEF MembersOf, LostMembers
        <4>2. QED
          BY <2>1, <3>2, <3>3, <4>1 DEF CountsTrue, ClanLess
      <3>4. CASE t \notin resetting.led /\ clans[t] = NoClan
        BY <2>1, <3>1, <3>2, <3>4 DEF CountsTrue, ClanLess
      <3>5. CASE t \notin resetting.led /\ clans[t] # NoClan
        <4>1. /\ IsFiniteSet(MembersOf(t)) /\ Cardinality(MembersOf(t)) \in Nat
              /\ Cardinality(MembersOf(t)) = clans[t].count
          BY <3>1, <3>2, <3>5, Counting, FS_Subset, FS_CardinalityType, CountAssumption DEF CountsTrue
        <4>2. /\ Cardinality(MembersOf(t)') = Cardinality(MembersOf(t)) - Cardinality(MembersOf(t) \cap T)
              /\ MembersOf(t) \cap T = T /\ Cardinality(T) <= Cardinality(MembersOf(t))
          BY <3>2, <4>1, FS_Difference, FS_Subset
        <4>3. Cardinality(T) = LostIn(t) /\ LostIn(t) \in Nat
          <5>1. LostIn(t) = Cardinality({a \in Account : <<t, a>> \in LostMembers})
            BY <2>1, LostAreAccounts
          <5>2. QED
            BY <2>1, <5>1, LostCounts, Zenon
        <4>4. clans'[t] # NoClan /\ clans'[t].count = clans[t].count - LostIn(t)
          <5>1. CASE LostIn(t) = 0
            <6>1. clans'[t] = clans[t]
              BY <2>1, <3>5, <5>1 DEF ClanLess
            <6>2. clans[t].count \in Nat
              BY <4>1
            <6>3. QED
              BY <3>5, <5>1, <6>1, <6>2
          <5>2. CASE LostIn(t) # 0
            <6>1. clans'[t] = [clans[t] EXCEPT !.count = IF @ > LostIn(t) THEN @ - LostIn(t) ELSE 0]
              BY <2>1, <3>5, <5>2 DEF ClanLess
            <6>2. clans'[t] \in Clan \cup {NoClan} /\ clans[t] \in Clan
              BY <2>1, <3>1, <3>5, ClanLessType
            <6>3. clans'[t].count = clans[t].count - LostIn(t)
              BY <4>1, <4>2, <4>3, <6>1, <6>2 DEF Clan
            <6>4. clans'[t] \in Clan
              BY <4>1, <4>2, <4>3, <6>1, <6>2, RowsAssumption DEF Clan
            <6>5. QED
              BY <6>3, <6>4, ClansAssumption
          <5>3. QED
            BY <5>1, <5>2
        <4>5. QED
          BY <4>1, <4>2, <4>3, <4>4 DEF CountsTrue
      <3>6. QED
        BY <3>3, <3>4, <3>5
    <2>3. QED
      BY <2>1, <2>2 DEF TruthInv
  <1>7. CASE ResetFails
    <2>1. UNCHANGED <<clans, members, skewed>> /\ resetting' = Idle
      BY <1>7, ResetFailsIs DEF resetTables, clanVars
    <2>2. QED
      BY <1>3, <2>1 DEF TruthInv
  <1>8. QED
    BY <1>4, <1>5, <1>6, <1>7 DEF ResetStep

LEMMA TruthInit ==
    ASSUME CommunityInit
    PROVE  TruthInv /\ ClanCopyInv
  <1>1. /\ \A t \in Tag : clans[t] = NoClan /\ clanCopy[t] = NoClan
        /\ members = {} /\ resetting = Idle /\ \A s \in Slot : ~Busy(s)
    BY BaseInit DEF CommunityInit, RowsInit, ClansInit
  <1>2. QED
    BY <1>1 DEF TruthInv, CountsTrue, MembersOf, ClanCopyInv, Doing

LEMMA ClanAlone ==
    ASSUME BaseInv, NEW t \in Tag, t \notin crossed, NEW s \in Slot, OnClan(s, t)
    PROVE  /\ resetting = Idle /\ t \in Stakes(work[s])
           /\ \A q \in Slot : OnClan(q, t) => q = s
  BY StakesAre DEF BaseInv, StakesAlone, OnClan

\* The clan and its copy, while request s has it to itself.
ClanOK(t, s) ==
    /\ Doing(s, "create") /\ At(s, "first") => clans[t] = [leader |-> work[s].who, count |-> 1]
    /\ ~At(s, "first") => clanCopy[t] \in {NoClan, clans[t]}

LEMMA ClanOfOwn ==
    ASSUME BaseInv, NEW s \in Slot, NEW t \in Tag, OnClan(s, t), ClanOK(t, s), Moves(s), ~Marred(s),
           ClanWorks(s) \/ SocialWorks(s) \/ CollectWorks(s) \/ AccountSaved(s) \/ RequestDies(s)
    PROVE  ClanOK(t, s)'
  <1>1. /\ Busy(s) /\ work[s] # Idle /\ work[s].op \in ClanOps /\ work[s].on = t /\ RowsTypeOK
        /\ work'[s] # Idle => work'[s].op = work[s].op /\ work'[s].who = work[s].who
        /\ clans \in [Tag -> Clan \cup {NoClan}] /\ clanCopy \in [Tag -> Clan \cup {NoClan}]
    BY MovesOthers DEF OnClan, BaseInv, CommunityTypeOK, ClansTypeOK
  <1>2. CASE UNCHANGED <<clans, clanCopy>> /\ ~At(s, "first") /\ ~At(s, "first")'
    BY <1>2 DEF ClanOK
  <1>3. CASE Refused(s) /\ At(s, "table")
    <2>1. work'[s] = Idle /\ UNCHANGED <<clans, clanCopy>>
      BY <1>1, <1>3, EndsJob DEF Refused, clanVars
    <2>2. QED
      BY <1>2, <1>3, <2>1 DEF At, Busy
  <1>4. CASE (CreateClan(s) \/ JoinClan(s) \/ LeaveClan(s)) /\ ~Refused(s)
    <2>1. At(s, "table") /\ Goes(s, "first")
      BY <1>4 DEF CreateClan, JoinClan, LeaveClan
    <2>2. work'[s] # Idle /\ work'[s].at = "first"
      BY <1>1, <2>1, GoesJob DEF Stage
    <2>3. work[s].op = "create" => clans'[t] = [leader |-> work[s].who, count |-> 1]
      BY <1>1, <1>4 DEF CreateClan, JoinClan, LeaveClan, Doing
    <2>4. QED
      BY <1>1, <2>2, <2>3 DEF ClanOK, Doing, At, Busy
  <1>5. CASE CacheClan(s)
    <2>1. /\ clans[t] = [leader |-> work[s].who, count |-> 1] /\ clans' = clans
          /\ clanCopy' = [clanCopy EXCEPT ![t] = [leader |-> work[s].who, count |-> 1]]
      BY <1>1, <1>5 DEF CacheClan, ClanOK, Copied
    <2>2. clanCopy'[t] = clans'[t]
      BY <1>1, <2>1
    <2>3. work'[s].at = "save"
      BY <1>1, <1>5, WearsMoves DEF CacheClan, Moves
    <2>4. QED
      BY <2>2, <2>3 DEF ClanOK, At
  <1>6. CASE DropClan(s)
    <2>1. clans' = clans /\ clanCopy' = [clanCopy EXCEPT ![t] = NoClan]
      BY <1>1, <1>6 DEF DropClan, Copied
    <2>2. clanCopy'[t] = NoClan
      BY <1>1, <2>1
    <2>3. work'[s].at # "first"
      <3>1. CASE Wears(s, "save")
        BY <1>1, <1>6, <3>1, WearsMoves DEF Moves
      <3>2. CASE Goes(s, "load")
        BY <1>1, <3>2, GoesJob DEF Stage
      <3>3. QED
        BY <1>6, <3>1, <3>2 DEF DropClan
    <2>4. QED
      BY <2>2, <2>3 DEF ClanOK, At
  <1>7. CASE LeaveLoad(s)
    <2>1. At(s, "load") /\ UNCHANGED <<clans, clanCopy>>
      BY <1>7 DEF LeaveLoad, clanVars
    <2>2. work'[s] = Idle \/ work'[s].at = "save"
      <3>1. CASE Ends(s)
        BY <1>1, <3>1, EndsJob
      <3>2. ASSUME NEW row, work' = [work EXCEPT ![s].at = "save", ![s].row = [row EXCEPT !.tag = NoTag]]
            PROVE  work'[s].at = "save"
        <4>1. work[s] \in Job /\ work \in [Slot -> Job \cup {Idle}]
          BY <1>1, JobFields DEF RowsTypeOK
        <4>2. work'[s] = [work[s] EXCEPT !.at = "save", !.row = [row EXCEPT !.tag = NoTag]]
          BY <3>2, <4>1
        <4>3. QED
          BY <4>1, <4>2 DEF Job
      <3>3. QED
        BY <1>7, <3>1, <3>2 DEF LeaveLoad
    <2>3. QED
      BY <1>2, <2>1, <2>2 DEF At, Busy
  <1>8. CASE AccountSaved(s)
    <2>1. (At(s, "save") \/ At(s, "copy")) /\ UNCHANGED <<clans, clanCopy>>
      BY <1>8 DEF AccountSaved, SaveRow, CopyRow, resetTables, clanVars
    <2>2. work'[s] = Idle \/ work'[s].at = "copy"
      <3>1. CASE Ends(s)
        BY <1>1, <3>1, EndsJob
      <3>2. CASE Goes(s, "copy")
        BY <1>1, <3>2, GoesJob DEF Stage
      <3>3. ~Goes(s, "reload") \/ Ends(s) \/ Goes(s, "copy")
        BY <1>1, <1>8 DEF AccountSaved, SaveRow, CopyRow, Follows, AfterSave, ClanOps
      <3>4. QED
        BY <1>8, <3>1, <3>2, <3>3 DEF AccountSaved, SaveRow, CopyRow, Follows, AfterSave
    <2>3. QED
      BY <1>2, <2>1, <2>2 DEF At, Busy
  <1>9. ~SocialWorks(s) /\ ~CollectWorks(s) /\ ~RequestDies(s)
    BY <1>1, SetsStep, CountsStep, PostStep
    DEF SocialWorks, SocialStep, FollowEdge, CollectWorks, InventoryStep, CollectLoad, CollectSave, RequestDies, Dies,
        Doing, ClanOps, FollowOps
  <1>10. CreateClan(s) \/ JoinClan(s) \/ LeaveClan(s) => At(s, "table")
    BY DEF CreateClan, JoinClan, LeaveClan
  <1>11. CreateClan(s) \/ JoinClan(s) \/ LeaveClan(s) \/ CacheClan(s) \/ DropClan(s) \/ LeaveLoad(s) \/ AccountSaved(s)
    BY <1>9 DEF ClanWorks, ClanStep
  <1>12. QED
    BY <1>3, <1>4, <1>5, <1>6, <1>7, <1>8, <1>10, <1>11

LEMMA ClanCopyOfWork ==
    ASSUME BaseInv, ClanCopyInv, NEW s \in Slot, Moves(s),
           ClanWorks(s) \/ SocialWorks(s) \/ CollectWorks(s) \/ AccountSaved(s) \/ RequestDies(s)
    PROVE  ClanCopyInv'
  <1>1. /\ \A q \in Slot : q # s => work'[q] = work[q]
        /\ Busy(s) /\ work[s] # Idle /\ resetting' = resetting /\ crossed \subseteq crossed'
        /\ crossed' = crossed \/ crossed' = crossed \cup Stakes(work[s])
        /\ work'[s] # Idle => work'[s].op = work[s].op /\ work'[s].on = work[s].on
    BY MovesOthers
  <1> SUFFICES ASSUME NEW t \in Tag, t \notin crossed'
               PROVE  /\ resetting' = Idle =>
                            /\ \A q \in Slot : (Doing(q, "create") /\ At(q, "first") /\ work[q].on = t)' =>
                                  clans'[t] = [leader |-> work'[q].who, count |-> 1]
                            /\ (\A q \in Slot : OnClan(q, t)' => work'[q].at # "first") => clanCopy'[t] \in {NoClan, clans'[t]}
                      /\ resetting' # Idle =>
                            /\ clanCopy'[t] \in {NoClan, clans'[t]}
                            /\ resetting'.at \in {"feed", "rows"} /\ (t \in resetting'.led \/ LostIn(t)' > 0) => clanCopy'[t] = NoClan
    BY DEF ClanCopyInv
  <1>2. t \notin crossed
    BY <1>1
  <1>3. CASE OnClan(s, t)
    <2>1. resetting = Idle /\ (\A q \in Slot : OnClan(q, t) => q = s) /\ ~Marred(s)
      BY <1>2, <1>3, ClanAlone DEF Marred
    <2>2. ClanOK(t, s)
      <3>1. ~At(s, "first") => \A q \in Slot : OnClan(q, t) => work[q].at # "first"
        BY <2>1 DEF At, OnClan
      <3>2. QED
        BY <1>2, <1>3, <2>1, <3>1 DEF ClanCopyInv, ClanOK, OnClan
    <2>3. ClanOK(t, s)'
      BY <1>3, <2>1, <2>2, ClanOfOwn
    <2>4. \A q \in Slot : OnClan(q, t)' => q = s
      BY <1>1, <2>1 DEF OnClan, Busy
    <2>5. \A q \in Slot : (Doing(q, "create") /\ work[q].on = t)' => OnClan(q, t)'
      BY DEF Doing, OnClan, ClanOps
    <2>6. (\A q \in Slot : OnClan(q, t)' => work'[q].at # "first") => ~At(s, "first")'
      BY <1>1, <1>3 DEF At, OnClan, Busy
    <2>7. QED
      BY <1>1, <2>1, <2>3, <2>4, <2>5, <2>6 DEF ClanOK
  <1>4. CASE ~OnClan(s, t)
    <2>1. clans'[t] = clans[t] /\ clanCopy'[t] = clanCopy[t]
      BY <1>1, <1>4, ClansOfOthers
    <2>2. \A q \in Slot : /\ (Doing(q, "create") /\ At(q, "first") /\ work[q].on = t)' => q # s
                          /\ OnClan(q, t) => OnClan(q, t)' /\ q # s
      BY <1>1, <1>4 DEF Doing, OnClan, ClanOps, Busy
    <2>3. LostIn(t)' = LostIn(t)
      BY <1>1 DEF LostIn, LostMembers, Gone
    <2>4. QED
      BY <1>1, <1>2, <2>1, <2>2, <2>3 DEF ClanCopyInv, Doing, At, Busy
  <1>5. QED
    BY <1>3, <1>4

LEMMA ClanCopyOfStarts ==
    ASSUME BaseInv, ClanCopyInv, NEW s \in Slot, Starts(s)
    PROVE  ClanCopyInv'
  <1>1. PICK j : Fresh(j) /\ Begins(s, j) /\ UNCHANGED <<rowVars, resetTables>>
    BY DEF Starts
  <1>2. /\ \A q \in Slot : q # s => work'[q] = work[q]
        /\ work'[s] = j /\ work[s] = Idle /\ UNCHANGED <<clans, clanCopy>> /\ crossed \subseteq crossed'
        /\ j.at # "first"
    BY <1>1, StartsOthers DEF Fresh, resetTables, clanVars
  <1>3. /\ resetting = Idle => resetting' = Idle
        /\ resetting # Idle => /\ resetting' # Idle
                               /\ resetting'.members = resetting.members /\ resetting'.humans = resetting.humans
                               /\ resetting'.led = resetting.led /\ resetting'.at = resetting.at
    BY <1>1, BeginsIs DEF Reset
  <1>4. resetting # Idle => \A t \in Tag : LostIn(t)' = LostIn(t)
    BY <1>3 DEF LostIn, LostMembers, Gone
  <1>5. ASSUME NEW t \in Tag, NEW q \in Slot
        PROVE  /\ (Doing(q, "create") /\ At(q, "first") /\ work[q].on = t)' => q # s
               /\ OnClan(q, t) => OnClan(q, t)' /\ q # s
               /\ q # s => work'[q] = work[q]
    BY <1>2 DEF Doing, At, OnClan, Busy
  <1>6. QED
    BY <1>2, <1>3, <1>4, <1>5 DEF ClanCopyInv, Doing, At, Busy

LEMMA ClanCopyOfReset ==
    ASSUME BaseInv, ClanCopyInv, ResetStep
    PROVE  ClanCopyInv'
  <1>1. work' = work /\ crossed \subseteq crossed'
    BY ResetStepType
  <1>2. CASE ResetReads
    <2>1. /\ UNCHANGED <<clans, clanCopy>> /\ resetting = Idle /\ resetting' # Idle /\ resetting'.at = "sets"
          /\ crossed' = crossed \cup AtStake
      BY <1>2, ResetReadsIs DEF resetTables, clanVars
    <2>2. \A t \in Tag : \A q \in Slot : OnClan(q, t) => t \in AtStake
      BY JobsAreBusy, StakesAre DEF OnClan
    <2>3. QED
      BY <2>1, <2>2 DEF ClanCopyInv
  <1>3. ASSUME SameReset, resetting # Idle PROVE \A t \in Tag : LostIn(t)' = LostIn(t)
    BY <1>3 DEF SameReset, LostIn, LostMembers, Gone
  <1>4. CASE ResetSets \/ ResetFeed
    <2>1. /\ UNCHANGED <<clans, clanCopy>> /\ resetting # Idle /\ SameReset
          /\ resetting.at = "feed" \/ resetting'.at = "keys"
      BY <1>4, ResetSetsIs, ResetFeedIs DEF clanVars
    <2>2. QED
      BY <1>1, <1>3, <2>1 DEF ClanCopyInv, SameReset
  <1>5. CASE ResetKeys
    <2>1. /\ clans' = clans /\ resetting # Idle /\ SameReset
          /\ \A t \in Tag : clanCopy'[t] = IF t \in resetting.led \/ LostIn(t) > 0 THEN NoClan ELSE clanCopy[t]
      BY <1>5, ResetKeysIs
    <2>2. QED
      BY <1>1, <1>3, <2>1 DEF ClanCopyInv, SameReset
  <1>6. CASE ResetRows
    <2>1. /\ resetting # Idle /\ resetting.at = "rows" /\ resetting' = Idle /\ clanCopy' = clanCopy
          /\ \A t \in Tag : clans'[t] = ClanLess(t)
      BY <1>6, ResetRowsIs
    <2>2. \A t \in Tag : t \notin crossed => \A q \in Slot : ~OnClan(q, t)
      BY <2>1, ClanAlone
    <2>3. \A q \in Slot : Doing(q, "create")' => OnClan(q, work[q].on) /\ work'[q] = work[q]
      BY <1>1 DEF Doing, Busy, OnClan, ClanOps
    <2>4. ASSUME NEW t \in Tag, t \notin crossed' PROVE clanCopy'[t] \in {NoClan, clans'[t]}
      <3>1. /\ clanCopy[t] \in {NoClan, clans[t]}
            /\ t \in resetting.led \/ LostIn(t) > 0 => clanCopy[t] = NoClan
        BY <1>1, <2>1, <2>4 DEF ClanCopyInv
      <3>2. LostIn(t) = 0 \/ LostIn(t) > 0
        <4>1. LostIn(t) \in Nat
          BY <2>1, LostCounts, Zenon
        <4>2. QED
          BY <4>1
      <3>3. CASE t \in resetting.led \/ LostIn(t) > 0
        BY <2>1, <3>1, <3>3
      <3>4. CASE t \notin resetting.led /\ LostIn(t) = 0
        <4>1. ClanLess(t) = clans[t]
          BY <3>4 DEF ClanLess
        <4>2. clans'[t] = clans[t] /\ clanCopy'[t] = clanCopy[t]
          BY <2>1, <4>1
        <4>3. QED
          BY <3>1, <4>2
      <3>5. QED
        BY <3>2, <3>3, <3>4
    <2>5. QED
      BY <1>1, <2>1, <2>2, <2>3, <2>4 DEF ClanCopyInv
  <1>7. CASE ResetFails
    BY <1>7, ResetFailsIs DEF ClanCopyInv
  <1>8. QED
    BY <1>2, <1>4, <1>5, <1>6, <1>7 DEF ResetStep

\* A clan counts its members, and its copy says what the clan says.
THEOREM ClansTellTruth == CommunitySpec => []ClanTellsTruth
  <1>1. CommunityInit => TruthInv /\ ClanCopyInv
    BY TruthInit
  <1>2. BaseInv /\ TruthInv /\ ClanCopyInv /\ [CommunityNext]_vars => TruthInv' /\ ClanCopyInv'
    <2>1. ASSUME TruthInv, ClanCopyInv, UNCHANGED vars PROVE TruthInv' /\ ClanCopyInv'
      <3>1. UNCHANGED <<work, resetting, crossed, skewed, clans, members, clanCopy>>
        BY <2>1 DEF vars, pathVars, historyVars, resetTables, clanVars
      <3>2. \A t \in Tag : CountsTrue(t)' = CountsTrue(t) /\ LostIn(t)' = LostIn(t)
        BY <3>1 DEF CountsTrue, MembersOf, LostIn, LostMembers, Gone
      <3>3. \A t \in Tag : \A q \in Slot : OnClan(q, t)' <=> OnClan(q, t)
        BY <3>1 DEF OnClan, Busy
      <3>4. TruthInv'
        BY <2>1, <3>1, <3>2, <3>3 DEF TruthInv
      <3>5. ClanCopyInv'
        BY <2>1, <3>1, <3>2, <3>3 DEF ClanCopyInv, Doing, At, Busy
      <3>6. QED
        BY <3>4, <3>5
    <2>2. QED
      BY <2>1, StepKinds, TruthOfStarts, TruthOfWork, TruthOfReset, ClanCopyOfStarts, ClanCopyOfWork, ClanCopyOfReset
  <1>3. BaseInv /\ TruthInv /\ ClanCopyInv => ClanTellsTruth
    <2> SUFFICES ASSUME BaseInv, TruthInv, ClanCopyInv, NEW t \in Tag, t \notin skewed
                 PROVE  /\ CountsTrue(t)
                        /\ t \notin crossed /\ Quiet(t) /\ clanCopy[t] # NoClan => clanCopy[t] = clans[t]
      BY DEF ClanTellsTruth, CountsTrue
    <2>1. CountsTrue(t)
      BY DEF TruthInv
    <2>2. Quiet(t) => resetting = Idle /\ \A q \in Slot : ~OnClan(q, t)
      BY JobsAreBusy, StakesAre DEF Quiet, OnClan
    <2>3. QED
      BY <2>1, <2>2 DEF ClanCopyInv
  <1>4. QED
    BY <1>1, <1>2, <1>3, BaseInvariant, PTL DEF CommunitySpec

-----------------------------------------------------------------------------
(***************************************************************************)
(* Part seven: the counts an account shows.                                *)
(***************************************************************************)

\* What an account's row shows and what is carried of it, while request s has it
\* to itself.
CountsOK(a, s) ==
    /\ rows[a] # NoRow =>
          /\ ~DueOut(s, a) => rows[a].following = OutCount(a)
          /\ DueOut(s, a) => Counted(s, rows[a].following) = OutCount(a)
          /\ ~DueIn(s, a) => rows[a].followers = InCount(a)
          /\ DueIn(s, a) => Counted(s, rows[a].followers) = InCount(a)
    /\ Carries(s, a) \/ Brings(s, a) =>
          work[s].row.following = OutCount(a) /\ work[s].row.followers = InCount(a)

\* Who counts, or is about to, is about the account.
LEMMA CountingUses ==
    ASSUME BaseInv, NEW s \in Slot, NEW a \in Account
    PROVE  /\ DueOut(s, a) => UsesRow(s, a)
           /\ DueIn(s, a) => UsesRow(s, a)
           /\ Carries(s, a) => UsesRow(s, a)
           /\ Brings(s, a) => UsesRow(s, a)
  BY CarriesUses DEF DueOut, DueIn, Brings, UsesRow

LEMMA OwnCounts ==
    ASSUME BaseInv, CountsInv, NEW a \in Account, a \notin crossed, a \notin skewed, NEW s \in Slot, UsesRow(s, a)
    PROVE  CountsOK(a, s)
  <1>1. \A q \in Slot : UsesRow(q, a) => q = s
    BY RowAlone
  <1>2. \A q \in Slot : (DueOut(q, a) => q = s) /\ (DueIn(q, a) => q = s)
    BY <1>1, CountingUses
  <1>3. QED
    BY <1>2 DEF CountsOK, CountsInv

\* Nobody is at work on the account: its row is right.
LEMMA IdleCounts ==
    ASSUME BaseInv, CountsInv, NEW a \in Account, a \notin crossed, a \notin skewed, rows[a] # NoRow,
           \A q \in Slot : ~UsesRow(q, a)
    PROVE  rows[a].following = OutCount(a) /\ rows[a].followers = InCount(a)
  BY CountingUses DEF CountsInv

\* A request leaves the edges of the others alone.
LEMMA CountsOfOthers ==
    ASSUME BaseInv, NEW s \in Slot, NEW a \in Account, ~UsesRow(s, a),
           ClanWorks(s) \/ SocialWorks(s) \/ CollectWorks(s) \/ AccountSaved(s) \/ RequestDies(s)
    PROVE  OutCount(a)' = OutCount(a) /\ InCount(a)' = InCount(a)
  <1>1. \A b \in Account : ~FollowsOn(s, a, b) /\ ~FollowsOn(s, b, a)
    BY DEF FollowsOn, UsesRow
  <1>2. \A b \in Account : (<<a, b>> \in edges' <=> <<a, b>> \in edges) /\ (<<b, a>> \in edges' <=> <<b, a>> \in edges)
    BY <1>1, EdgesOfOthers
  <1>3. /\ {b \in Account : <<a, b>> \in edges'} = {b \in Account : <<a, b>> \in edges}
        /\ {b \in Account : <<b, a>> \in edges'} = {b \in Account : <<b, a>> \in edges}
    BY <1>2
  <1>4. QED
    BY <1>3 DEF OutCount, InCount

\* A follow that was none before, or an unfollow of one that was, changes each
\* count by one.
LEMMA CountsOfEdge ==
    ASSUME BaseInv, NEW s \in Slot, NEW a \in Account, UsesRow(s, a), FollowEdge(s), a \notin skewed'
    PROVE  /\ work[s].who = a => OutCount(a)' = Counted(s, OutCount(a)) /\ InCount(a)' = InCount(a)
           /\ work[s].on = a => InCount(a)' = Counted(s, InCount(a)) /\ OutCount(a)' = OutCount(a)
  <1> DEFINE Out == {b \in Account : <<a, b>> \in edges}
             In == {b \in Account : <<b, a>> \in edges}
  <1>1. Busy(s) /\ work[s].op \in FollowOps
    BY DEF FollowEdge, Doing, FollowOps
  <1>2. work[s].on \in Account /\ work[s].who \in Account /\ work[s].who # work[s].on
        /\ a \in {work[s].who, work[s].on}
    BY <1>1, FollowJobIs DEF UsesRow
  <1>3. /\ work[s].op = "follow" => edges' = edges \cup {<<work[s].who, work[s].on>>}
        /\ work[s].op = "unfollow" => edges' = edges \ {<<work[s].who, work[s].on>>}
        /\ (<<work[s].who, work[s].on>> \in edges) # (work[s].op = "follow")
    BY <1>2 DEF FollowEdge, Doing, Follower, Target
  <1>4. work[s].op = "follow" => <<work[s].who, work[s].on>> \notin edges
    BY <1>3
  <1>5. work[s].op = "unfollow" => <<work[s].who, work[s].on>> \in edges
    BY <1>3
  <1>6. CASE work[s].op = "follow"
    <2>1. work[s].who = a => /\ {b \in Account : <<a, b>> \in edges'} = Out \cup {work[s].on} /\ work[s].on \notin Out
                             /\ {b \in Account : <<b, a>> \in edges'} = In
      BY <1>2, <1>3, <1>4, <1>6
    <2>2. work[s].on = a => /\ {b \in Account : <<b, a>> \in edges'} = In \cup {work[s].who} /\ work[s].who \notin In
                            /\ {b \in Account : <<a, b>> \in edges'} = Out
      BY <1>2, <1>3, <1>4, <1>6
    <2>3. /\ work[s].on \notin Out => Cardinality(Out \cup {work[s].on}) = More(Cardinality(Out))
          /\ work[s].who \notin In => Cardinality(In \cup {work[s].who}) = More(Cardinality(In))
      BY <1>2, Counting
    <2>4. QED
      BY <1>6, <2>1, <2>2, <2>3 DEF OutCount, InCount, Counted
  <1>7. CASE work[s].op = "unfollow"
    <2>1. work[s].who = a => /\ {b \in Account : <<a, b>> \in edges'} = Out \ {work[s].on} /\ work[s].on \in Out
                             /\ {b \in Account : <<b, a>> \in edges'} = In
      BY <1>2, <1>3, <1>5, <1>7
    <2>2. work[s].on = a => /\ {b \in Account : <<b, a>> \in edges'} = In \ {work[s].who} /\ work[s].who \in In
                            /\ {b \in Account : <<a, b>> \in edges'} = Out
      BY <1>2, <1>3, <1>5, <1>7
    <2>3. /\ work[s].on \in Out => Cardinality(Out \ {work[s].on}) = Less(Cardinality(Out))
          /\ work[s].who \in In => Cardinality(In \ {work[s].who}) = Less(Cardinality(In))
      BY <1>2, Counting
    <2>4. QED
      BY <1>7, <2>1, <2>2, <2>3 DEF OutCount, InCount, Counted
  <1>8. QED
    BY <1>1, <1>6, <1>7 DEF FollowOps

LEMMA CountsOfClanWork ==
    ASSUME BaseInv, NEW s \in Slot, NEW a \in Account, UsesRow(s, a), RowOK(a, s), CountsOK(a, s), Moves(s),
           ClanWorks(s), ~Marred(s)
    PROVE  CountsOK(a, s)'
  <1>1. Busy(s) /\ work[s].op \in ClanOps /\ work[s].op \notin FollowOps
    BY DEF ClanWorks, ClanStep, CreateClan, JoinClan, LeaveClan, CacheClan, DropClan, LeaveLoad, Doing, ClanOps, FollowOps
  <1>2. /\ work[s].who = a /\ work[s].acct = a /\ work[s].on \in Tag /\ work[s].row \in Row
        /\ RowsTypeOK /\ work[s] # Idle /\ work \in [Slot -> Job \cup {Idle}]
        /\ work'[s] # Idle => work'[s].op = work[s].op
    BY <1>1, ClanJobIs, RowsAssumption, MovesOthers DEF UsesRow, Busy, BaseInv, CommunityTypeOK, RowsTypeOK
  <1>3. UNCHANGED <<rows, cached, edges>>
    BY DEF ClanWorks, ClanStep, CreateClan, JoinClan, LeaveClan, CacheClan, DropClan, LeaveLoad, Refused, rowVars,
       socialVars, graphVars
  <1>4. OutCount(a)' = OutCount(a) /\ InCount(a)' = InCount(a)
    BY <1>3 DEF OutCount, InCount
  <1>5. ~DueOut(s, a) /\ ~DueIn(s, a) /\ ~DueOut(s, a)' /\ ~DueIn(s, a)'
    BY <1>1, <1>2 DEF DueOut, DueIn, Busy
  <1>6. rows[a] # NoRow => rows[a].following = OutCount(a) /\ rows[a].followers = InCount(a)
    BY <1>5 DEF CountsOK
  <1>7. SUFFICES ASSUME (Carries(s, a) \/ Brings(s, a))'
                 PROVE  work'[s].row.following = OutCount(a) /\ work'[s].row.followers = InCount(a)
    BY <1>3, <1>4, <1>5, <1>6 DEF CountsOK
  <1>8. work'[s] # Idle /\ work'[s].op = work[s].op
    BY <1>2, <1>7 DEF Carries, Brings, Doing, Busy
  <1>9. CASE work[s].op \in {"create", "join"}
    <2>1. work[s].row.following = OutCount(a) /\ work[s].row.followers = InCount(a)
      BY <1>1, <1>2, <1>9 DEF CountsOK, Brings, Doing
    <2>2. CASE Ends(s)
      BY <1>2, <1>8, <2>2, EndsJob
    <2>3. CASE Goes(s, "first")
      BY <1>1, <1>2, <2>1, <2>3, GoesJob DEF Stage
    <2>4. CASE Wears(s, "save")
      <3>1. work'[s] = [work[s] EXCEPT !.at = "save", !.row = Wearing(s, work[s].on)] /\ work[s] \in Job
        BY <1>1, <1>2, <2>4, JobFields DEF Wears
      <3>2. work'[s].row = [work[s].row EXCEPT !.tag = work[s].on]
        BY <3>1 DEF Wearing, Job
      <3>3. QED
        BY <1>2, <2>1, <3>2 DEF Row
    <2>5. QED
      BY <1>9, <2>2, <2>3, <2>4
      DEF ClanWorks, ClanStep, CreateClan, JoinClan, LeaveClan, CacheClan, DropClan, LeaveLoad, Doing, Refused
  <1>10. CASE work[s].op = "leave"
    <2>1. work'[s].at \in {"save", "copy"}
      BY <1>7, <1>8, <1>10 DEF Carries, Brings, Doing
    <2>2. LeaveLoad(s)
      <3>1. ~Goes(s, "first") /\ ~Goes(s, "load")
        BY <1>1, <1>2, <2>1, GoesJob DEF Stage
      <3>2. QED
        BY <1>10, <3>1 DEF ClanWorks, ClanStep, CreateClan, JoinClan, LeaveClan, CacheClan, DropClan, Doing
    <2>3. ~Ends(s) /\ cached[a] = rows[a] /\ work[s] \in Job
      BY <1>1, <1>2, <1>8, <2>2, EndsJob, JobFields DEF LeaveLoad, At, RowOK, CopiesTo
    <2>4. PICK row \in Copies(a) : work' = [work EXCEPT ![s].at = "save", ![s].row = [row EXCEPT !.tag = NoTag]]
      BY <1>2, <2>2, <2>3 DEF LeaveLoad
    <2>5. work'[s] = [work[s] EXCEPT !.at = "save", !.row = [row EXCEPT !.tag = NoTag]] /\ row \in Row /\ row = rows[a]
          /\ row # NoRow
      BY <1>2, <2>3, <2>4, CopiesAreRows
    <2>6. work'[s].row = [row EXCEPT !.tag = NoTag]
      BY <2>3, <2>5 DEF Job
    <2>7. QED
      BY <1>6, <2>5, <2>6 DEF Row
  <1>11. QED
    BY <1>1, <1>9, <1>10 DEF ClanOps

LEMMA CountsOfFollowWork ==
    ASSUME BaseInv, NEW s \in Slot, NEW a \in Account, UsesRow(s, a), RowOK(a, s), CountsOK(a, s), Moves(s),
           SocialWorks(s), ~Marred(s), a \notin skewed'
    PROVE  CountsOK(a, s)'
  <1>1. Busy(s) /\ work[s].op \in FollowOps /\ work[s] # Idle /\ work[s].op \notin ClanOps
    BY SetsStep, CountsStep, PostStep
    DEF UsesRow, SocialWorks, SocialStep, FollowEdge, Doing, FollowOps, ClanOps, Busy
  <1>2. /\ work[s].on \in Account /\ work[s].who \in Account /\ work[s].who # work[s].on
        /\ a \in {work[s].who, work[s].on} /\ RowsTypeOK
        /\ work'[s] # Idle => work'[s].op = work[s].op /\ work'[s].who = work[s].who /\ work'[s].on = work[s].on
    BY <1>1, FollowJobIs, MovesOthers DEF UsesRow, BaseInv, CommunityTypeOK
  <1>3. UNCHANGED <<rows, cached>>
    BY DEF SocialWorks, SocialStep, FollowEdge, FollowingSet, FollowersSet, CountFollowing, CountFollower, PostRow, PostFeed,
       rowVars
  <1>4. ~Brings(s, a) /\ ~Brings(s, a)'
    BY <1>1, <1>2 DEF Brings, Doing, Busy, ClanOps
  <1>6. CASE FollowEdge(s)
    <2>1. work[s].at = "table" /\ Goes(s, "first")
      BY <1>6 DEF FollowEdge, At
    <2>2. work'[s] # Idle /\ work'[s].at = "first"
      BY <1>1, <1>2, <2>1, GoesJob DEF Stage
    <2>3. ~DueOut(s, a) /\ ~DueIn(s, a) /\ (DueOut(s, a)' <=> work[s].who = a) /\ (DueIn(s, a)' <=> work[s].on = a)
          /\ ~Carries(s, a)'
      BY <1>1, <1>2, <2>1, <2>2 DEF DueOut, DueIn, Carries, Busy
    <2>4. Counted(s, rows[a].following)' = Counted(s, rows[a].following)
          /\ Counted(s, rows[a].followers)' = Counted(s, rows[a].followers)
      BY <1>2, <1>3, <2>2 DEF Counted
    <2>5. CASE work[s].who = a
      <3>1. OutCount(a)' = Counted(s, OutCount(a)) /\ InCount(a)' = InCount(a)
        BY <1>6, <2>5, CountsOfEdge
      <3>2. QED
        BY <1>2, <1>3, <1>4, <2>3, <2>4, <2>5, <3>1 DEF CountsOK
    <2>6. CASE work[s].on = a
      <3>1. OutCount(a)' = OutCount(a) /\ InCount(a)' = Counted(s, InCount(a))
        BY <1>6, <2>6, CountsOfEdge
      <3>2. QED
        BY <1>2, <1>3, <1>4, <2>3, <2>4, <2>6, <3>1 DEF CountsOK
    <2>7. QED
      BY <1>2, <2>5, <2>6
  <1>7. ASSUME ~FollowEdge(s) PROVE OutCount(a)' = OutCount(a) /\ InCount(a)' = InCount(a)
    <2>1. edges' = edges
      BY <1>7 DEF SocialWorks, SocialStep, FollowingSet, FollowersSet, CountFollowing, CountFollower, PostRow, PostFeed,
         socialVars, graphVars
    <2>2. QED
      BY <2>1 DEF OutCount, InCount
  <1>8. ASSUME ~FollowEdge(s), work'[s] # Idle, ~Carries(s, a)',
               DueOut(s, a)' <=> DueOut(s, a), DueIn(s, a)' <=> DueIn(s, a)
        PROVE  CountsOK(a, s)'
    <2>1. Counted(s, rows[a].following)' = Counted(s, rows[a].following)
          /\ Counted(s, rows[a].followers)' = Counted(s, rows[a].followers)
      BY <1>2, <1>3, <1>8 DEF Counted
    <2>2. QED
      BY <1>3, <1>4, <1>7, <1>8, <2>1 DEF CountsOK
  <1>9. CASE FollowingSet(s) \/ FollowersSet(s)
    <2>1. work[s].at \in {"first", "second"} /\ ~FollowEdge(s) /\ (Goes(s, "second") \/ Goes(s, "load"))
      BY <1>9 DEF FollowingSet, FollowersSet, FollowEdge, At
    <2>2. work'[s] # Idle /\ work'[s].at \in {"second", "load"}
      BY <1>1, <1>2, <2>1, GoesJob DEF Stage
    <2>3. (DueOut(s, a)' <=> DueOut(s, a)) /\ (DueIn(s, a)' <=> DueIn(s, a)) /\ ~Carries(s, a)'
      BY <1>1, <1>2, <2>1, <2>2 DEF DueOut, DueIn, Carries, Busy
    <2>4. QED
      BY <1>8, <2>1, <2>2, <2>3
  <1>10. ASSUME NEW b \in Account, NEW row \in Row, Saves(s, b, row)
         PROVE  /\ work'[s] # Idle /\ work'[s].at = "save" /\ work'[s].op = work[s].op
                /\ work'[s].acct = b /\ work'[s].row = row
    <2>1. work[s] \in Job /\ work \in [Slot -> Job \cup {Idle}]
      BY <1>1, <1>2, JobFields DEF RowsTypeOK
    <2>2. work'[s] = [work[s] EXCEPT !.at = "save", !.acct = b, !.row = row]
      BY <1>10, <2>1 DEF Saves
    <2>3. work'[s] \in Job
      BY <2>1, <2>2 DEF Job
    <2>4. QED
      BY <2>1, <2>2, <2>3, RowsAssumption DEF Job
  <1>11. cached[a] = rows[a] \/ work[s].at = "copy"
    BY DEF RowOK, CopiesTo, At
  <1>12. CASE CountFollowing(s)
    <2>1. work[s].at = "load" /\ ~FollowEdge(s)
      BY <1>12 DEF CountFollowing, FollowEdge, At
    <2>2. CASE Goes(s, "reload") /\ Copies(work[s].who) = {}
      <3>1. work'[s] # Idle /\ work'[s].at = "reload"
        BY <1>1, <1>2, <2>2, GoesJob DEF Stage
      <3>2. (DueIn(s, a)' <=> DueIn(s, a)) /\ ~Carries(s, a)'
        BY <1>1, <1>2, <2>1, <3>1 DEF DueIn, Carries, Busy
      <3>3. CASE work[s].who = a
        <4>1. rows[a] = NoRow
          BY <2>2, <3>3 DEF Copies
        <4>2. QED
          BY <1>3, <1>4, <3>2, <4>1 DEF CountsOK
      <3>4. CASE work[s].who # a
        BY <1>8, <2>1, <3>1, <3>2, <3>4, <1>2 DEF DueOut
      <3>5. QED
        BY <3>3, <3>4
    <2>3. ASSUME NEW row \in Copies(work[s].who),
                 Saves(s, work[s].who, [row EXCEPT !.following = Counted(s, @)])
          PROVE  CountsOK(a, s)'
      <3>1. /\ [row EXCEPT !.following = Counted(s, @)] \in Row /\ row \in Row /\ row # NoRow
            /\ row \in {rows[work[s].who], cached[work[s].who]}
        BY <1>2, <2>3, CopiesAreRows, CountedRow
      <3>2. /\ work'[s] # Idle /\ work'[s].at = "save" /\ work'[s].acct = work[s].who
            /\ work'[s].row = [row EXCEPT !.following = Counted(s, @)]
        BY <1>2, <1>10, <2>3, <3>1
      <3>3. (DueOut(s, a)' <=> DueOut(s, a)) /\ (DueIn(s, a)' <=> DueIn(s, a))
        BY <1>1, <1>2, <2>1, <3>2 DEF DueOut, DueIn, Busy
      <3>4. CASE work[s].who # a
        <4>1. ~Carries(s, a)'
          BY <3>2, <3>4 DEF Carries
        <4>2. QED
          BY <1>8, <2>1, <3>2, <3>3, <4>1
      <3>5. CASE work[s].who = a
        <4>1. row = rows[a] /\ DueOut(s, a) /\ ~DueIn(s, a)
          BY <1>1, <1>2, <1>11, <2>1, <3>1, <3>5 DEF DueOut, DueIn
        <4>2. Counted(s, row.following) = OutCount(a) /\ row.followers = InCount(a)
          BY <3>1, <4>1 DEF CountsOK
        <4>3. work'[s].row.following = OutCount(a) /\ work'[s].row.followers = InCount(a)
          BY <3>1, <3>2, <4>2 DEF Row
        <4>4. Counted(s, rows[a].following)' = Counted(s, rows[a].following)
          BY <1>2, <1>3, <3>2 DEF Counted
        <4>5. QED
          BY <1>3, <1>4, <1>7, <2>1, <3>3, <4>1, <4>2, <4>3, <4>4 DEF CountsOK
      <3>6. QED
        BY <3>4, <3>5
    <2>4. QED
      BY <1>12, <2>2, <2>3 DEF CountFollowing, Follower
  <1>13. CASE CountFollower(s)
    <2>1. work[s].at = "reload" /\ ~FollowEdge(s)
      BY <1>13 DEF CountFollower, FollowEdge, At
    <2>2. CASE Ends(s) /\ Copies(work[s].on) = {}
      <3>1. work'[s] = Idle
        BY <1>2, <2>2, EndsJob
      <3>2. ~DueIn(s, a)' /\ ~DueOut(s, a)' /\ ~Carries(s, a)'
        BY <3>1 DEF DueIn, DueOut, Carries, Busy
      <3>3. CASE work[s].on = a
        <4>1. rows[a] = NoRow
          BY <2>2, <3>3 DEF Copies
        <4>2. QED
          BY <1>3, <1>4, <3>2, <4>1 DEF CountsOK
      <3>4. CASE work[s].on # a
        <4>1. ~DueOut(s, a) /\ ~DueIn(s, a)
          BY <2>1, <3>4 DEF DueOut, DueIn
        <4>2. QED
          BY <1>3, <1>4, <1>7, <2>1, <3>2, <4>1 DEF CountsOK
      <3>5. QED
        BY <3>3, <3>4
    <2>3. ASSUME NEW row \in Copies(work[s].on),
                 Saves(s, work[s].on, [row EXCEPT !.followers = Counted(s, @)])
          PROVE  CountsOK(a, s)'
      <3>1. /\ [row EXCEPT !.followers = Counted(s, @)] \in Row /\ row \in Row /\ row # NoRow
            /\ row \in {rows[work[s].on], cached[work[s].on]}
        BY <1>2, <2>3, CopiesAreRows, CountedRow
      <3>2. /\ work'[s] # Idle /\ work'[s].at = "save" /\ work'[s].acct = work[s].on
            /\ work'[s].row = [row EXCEPT !.followers = Counted(s, @)]
        BY <1>2, <1>10, <2>3, <3>1
      <3>3. (DueOut(s, a)' <=> DueOut(s, a)) /\ (DueIn(s, a)' <=> DueIn(s, a))
        BY <1>1, <1>2, <2>1, <3>2 DEF DueOut, DueIn, Busy
      <3>4. CASE work[s].on # a
        <4>1. ~Carries(s, a)'
          BY <3>2, <3>4 DEF Carries
        <4>2. QED
          BY <1>8, <2>1, <3>2, <3>3, <4>1
      <3>5. CASE work[s].on = a
        <4>1. row = rows[a] /\ DueIn(s, a) /\ ~DueOut(s, a)
          BY <1>1, <1>2, <1>11, <2>1, <3>1, <3>5 DEF DueOut, DueIn
        <4>2. Counted(s, row.followers) = InCount(a) /\ row.following = OutCount(a)
          BY <3>1, <4>1 DEF CountsOK
        <4>3. work'[s].row.following = OutCount(a) /\ work'[s].row.followers = InCount(a)
          BY <3>1, <3>2, <4>2 DEF Row
        <4>4. Counted(s, rows[a].followers)' = Counted(s, rows[a].followers)
          BY <1>2, <1>3, <3>2 DEF Counted
        <4>5. QED
          BY <1>3, <1>4, <1>7, <2>1, <3>3, <4>1, <4>2, <4>3, <4>4 DEF CountsOK
      <3>6. QED
        BY <3>4, <3>5
    <2>4. QED
      BY <1>13, <2>2, <2>3 DEF CountFollower, Target
  <1>14. ~PostRow(s) /\ ~PostFeed(s)
    BY <1>1 DEF PostRow, PostFeed, Doing, FollowOps
  <1>15. QED
    BY <1>6, <1>9, <1>12, <1>13, <1>14 DEF SocialWorks, SocialStep

LEMMA CountsOfSaving ==
    ASSUME BaseInv, NEW s \in Slot, NEW a \in Account, UsesRow(s, a), CountsOK(a, s), Moves(s), AccountSaved(s), ~Marred(s)
    PROVE  CountsOK(a, s)'
  <1>1. /\ Busy(s) /\ work[s] # Idle /\ work[s].at \in {"save", "copy"} /\ edges' = edges
        /\ work[s].op \in ClanOps \cup FollowOps /\ work[s].acct \in Account /\ work[s].row \in Row
        /\ RowsTypeOK /\ rows \in [Account -> Row \cup {NoRow}]
        /\ work'[s] # Idle => work'[s].op = work[s].op /\ work'[s].who = work[s].who /\ work'[s].on = work[s].on
    BY SavingIs, TypesAre, MovesOthers
    DEF AccountSaved, SaveRow, CopyRow, At, Busy, resetTables, socialVars, graphVars, BaseInv, CommunityTypeOK
  <1>2. OutCount(a)' = OutCount(a) /\ InCount(a)' = InCount(a)
    BY <1>1 DEF OutCount, InCount
  <1>3. /\ work[s].op \in ClanOps => work[s].op \notin FollowOps /\ work[s].who = a /\ work[s].acct = a
        /\ work[s].op \in FollowOps => /\ work[s].op \notin ClanOps /\ work[s].who # work[s].on
                                       /\ a \in {work[s].who, work[s].on} /\ work[s].acct \in {work[s].who, work[s].on}
    BY <1>1, ClanJobIs, FollowJobIs, RowsAssumption DEF UsesRow, ClanOps, FollowOps
  <1>4. CASE SaveRow(s)
    <2>1. work[s].at = "save" /\ rows' = [rows EXCEPT ![work[s].acct] = work[s].row] /\ Goes(s, "copy")
      BY <1>4 DEF SaveRow, At
    <2>2. /\ work'[s] # Idle /\ work'[s].at = "copy" /\ work'[s].acct = work[s].acct /\ work'[s].row = work[s].row
          /\ work'[s].op = work[s].op /\ work'[s].who = work[s].who /\ work'[s].on = work[s].on
      BY <1>1, <2>1, GoesJob DEF Stage
    <2>3. CASE work[s].acct = a
      <3>1. rows'[a] = work[s].row
        BY <1>1, <2>1, <2>3
      <3>2. work[s].row.following = OutCount(a) /\ work[s].row.followers = InCount(a)
        BY <1>1, <2>1, <2>3 DEF CountsOK, Carries
      <3>3. ~DueOut(s, a)' /\ ~DueIn(s, a)'
        BY <1>3, <2>2, <2>3 DEF DueOut, DueIn
      <3>4. QED
        BY <1>2, <2>2, <3>1, <3>2, <3>3 DEF CountsOK
    <2>4. CASE work[s].acct # a
      <3>1. rows'[a] = rows[a] /\ work[s].op \in FollowOps /\ work[s].op \notin ClanOps
        BY <1>1, <1>3, <2>1, <2>4
      <3>2. ~Carries(s, a)' /\ ~Brings(s, a)'
        BY <2>2, <2>4, <3>1 DEF Carries, Brings, Doing, ClanOps
      <3>3. (DueOut(s, a)' <=> DueOut(s, a)) /\ (DueIn(s, a)' <=> DueIn(s, a))
        BY <1>1, <1>3, <2>1, <2>2, <2>4, <3>1 DEF DueOut, DueIn, Busy
      <3>4. /\ Counted(s, rows[a].following)' = Counted(s, rows[a].following)
            /\ Counted(s, rows[a].followers)' = Counted(s, rows[a].followers)
        BY <2>2, <3>1 DEF Counted
      <3>5. QED
        BY <1>2, <3>1, <3>2, <3>3, <3>4 DEF CountsOK
    <2>5. QED
      BY <2>3, <2>4
  <1>5. CASE CopyRow(s)
    <2>1. work[s].at = "copy" /\ rows' = rows /\ Follows(s, AfterSave(work[s]))
      BY <1>5 DEF CopyRow, At
    <2>2. CASE work[s].op \in FollowOps /\ work[s].acct = work[s].who
      <3>1. Goes(s, "reload")
        BY <2>1, <2>2 DEF Follows, AfterSave, FollowOps
      <3>2. /\ work'[s] # Idle /\ work'[s].at = "reload" /\ work'[s].op = work[s].op
            /\ work'[s].who = work[s].who /\ work'[s].on = work[s].on
        BY <1>1, <3>1, GoesJob DEF Stage
      <3>3. ~Carries(s, a)' /\ ~Brings(s, a)'
        BY <1>3, <2>2, <3>2 DEF Carries, Brings, Doing, ClanOps
      <3>4. (DueOut(s, a)' <=> DueOut(s, a)) /\ (DueIn(s, a)' <=> DueIn(s, a))
        BY <1>1, <1>3, <2>1, <2>2, <3>2 DEF DueOut, DueIn, Busy
      <3>5. /\ Counted(s, rows[a].following)' = Counted(s, rows[a].following)
            /\ Counted(s, rows[a].followers)' = Counted(s, rows[a].followers)
        BY <2>1, <3>2 DEF Counted
      <3>6. QED
        BY <1>2, <2>1, <3>3, <3>4, <3>5 DEF CountsOK
    <2>3. CASE ~(work[s].op \in FollowOps /\ work[s].acct = work[s].who)
      <3>1. Ends(s)
        BY <2>1, <2>3 DEF Follows, AfterSave, FollowOps
      <3>2. work'[s] = Idle
        BY <1>1, <3>1, EndsJob
      <3>3. ~Carries(s, a)' /\ ~Brings(s, a)' /\ ~DueOut(s, a)' /\ ~DueIn(s, a)'
        BY <3>2 DEF Carries, Brings, DueOut, DueIn, Doing, Busy
      <3>4. ~DueOut(s, a) /\ ~DueIn(s, a)
        BY <1>3, <2>1, <2>3 DEF DueOut, DueIn
      <3>5. QED
        BY <1>2, <2>1, <3>3, <3>4 DEF CountsOK
    <2>4. QED
      BY <2>2, <2>3
  <1>6. QED
    BY <1>4, <1>5 DEF AccountSaved

LEMMA CountsOfWork ==
    ASSUME BaseInv, CopyInv, TagsInv, CountsInv, NEW s \in Slot, Moves(s),
           ClanWorks(s) \/ SocialWorks(s) \/ CollectWorks(s) \/ AccountSaved(s) \/ RequestDies(s)
    PROVE  CountsInv'
  <1>1. /\ \A q \in Slot : q # s => work'[q] = work[q]
        /\ Busy(s) /\ work[s] # Idle /\ crossed \subseteq crossed' /\ skewed \subseteq skewed'
        /\ crossed' = crossed \/ crossed' = crossed \cup Stakes(work[s])
        /\ work'[s] # Idle => /\ work'[s].op = work[s].op /\ JobShape(work'[s])
                              /\ work'[s].who = work[s].who /\ work'[s].on = work[s].on
    BY MovesOthers, SkewGrows
  <1>2. ASSUME NEW q \in Slot, q # s, NEW a \in Account
        PROVE  /\ DueOut(q, a)' <=> DueOut(q, a)
               /\ DueIn(q, a)' <=> DueIn(q, a)
               /\ Carries(q, a)' <=> Carries(q, a)
               /\ Brings(q, a)' <=> Brings(q, a)
    BY <1>1, <1>2 DEF DueOut, DueIn, Carries, Brings, Doing, Busy
  <1>3. ASSUME NEW a \in Account, ~UsesRow(s, a)
        PROVE  ~DueOut(s, a)' /\ ~DueIn(s, a)' /\ ~Carries(s, a)' /\ ~Brings(s, a)'
    <2>1. ~UsesRow(s, a)'
      BY <1>1, <1>3 DEF UsesRow, Busy
    <2>2. ~DueOut(s, a)' /\ ~DueIn(s, a)' /\ ~Brings(s, a)'
      BY <2>1 DEF DueOut, DueIn, Brings, UsesRow, Doing, Busy, ClanOps
    <2>3. ~Carries(s, a)'
      BY <1>1, <2>1, OtherJobIs DEF Carries, UsesRow, JobShape, Busy, ClanOps, FollowOps
    <2>4. QED
      BY <2>2, <2>3
  <1> SUFFICES ASSUME NEW a \in Account, a \notin crossed', a \notin skewed'
               PROVE  /\ rows'[a] # NoRow =>
                            /\ (\A q \in Slot : ~DueOut(q, a)') => rows'[a].following = OutCount(a)'
                            /\ \A q \in Slot : DueOut(q, a)' => Counted(q, rows[a].following)' = OutCount(a)'
                            /\ (\A q \in Slot : ~DueIn(q, a)') => rows'[a].followers = InCount(a)'
                            /\ \A q \in Slot : DueIn(q, a)' => Counted(q, rows[a].followers)' = InCount(a)'
                      /\ \A q \in Slot : Carries(q, a)' \/ Brings(q, a)' =>
                            work'[q].row.following = OutCount(a)' /\ work'[q].row.followers = InCount(a)'
    BY DEF CountsInv
  <1>4. a \notin crossed /\ a \notin skewed
    BY <1>1
  <1>5. CASE UsesRow(s, a)
    <2>1. /\ RowOK(a, s) /\ CountsOK(a, s) /\ \A q \in Slot : UsesRow(q, a) => q = s
      BY <1>4, <1>5, OwnRow, OwnCounts, RowAlone
    <2>2. ~Marred(s)
      BY <1>5, CarriesUses DEF Marred
    <2>3. ~CollectWorks(s) /\ ~RequestDies(s)
      BY <1>5, <2>2 DEF CollectWorks, InventoryStep, CollectLoad, CollectSave, Doing, UsesRow, ClanOps, FollowOps,
         RequestDies, Dies
    <2>4. CountsOK(a, s)'
      BY <1>5, <2>1, <2>2, <2>3, CountsOfClanWork, CountsOfFollowWork, CountsOfSaving
    <2>5. \A q \in Slot : DueOut(q, a)' \/ DueIn(q, a)' \/ Carries(q, a)' \/ Brings(q, a)' => q = s
      BY <1>2, <2>1, CountingUses
    <2>6. QED
      BY <2>4, <2>5 DEF CountsOK
  <1>6. CASE ~UsesRow(s, a)
    <2>1. rows'[a] = rows[a] /\ OutCount(a)' = OutCount(a) /\ InCount(a)' = InCount(a)
      BY <1>1, <1>6, RowsOfOthers, CountsOfOthers
    <2>2. ~DueOut(s, a) /\ ~DueIn(s, a) /\ ~Carries(s, a) /\ ~Brings(s, a)
      BY <1>6, CountingUses
    <2>3. \A q \in Slot : /\ DueOut(q, a)' <=> DueOut(q, a)
                          /\ DueIn(q, a)' <=> DueIn(q, a)
                          /\ Carries(q, a)' <=> Carries(q, a)
                          /\ Brings(q, a)' <=> Brings(q, a)
      BY <1>2, <1>3, <1>6, <2>2
    <2>4. \A q \in Slot : DueOut(q, a) \/ DueIn(q, a) \/ Carries(q, a) \/ Brings(q, a) => q # s /\ work'[q] = work[q]
      BY <1>1, <2>2
    <2>5. ASSUME NEW q \in Slot, q # s
          PROVE  /\ Counted(q, rows[a].following)' = Counted(q, rows[a].following)
                 /\ Counted(q, rows[a].followers)' = Counted(q, rows[a].followers)
      BY <1>1, <2>1, <2>5 DEF Counted
    <2>6. QED
      BY <1>4, <2>1, <2>3, <2>4, <2>5 DEF CountsInv
  <1>7. QED
    BY <1>5, <1>6

LEMMA CountsOfStarts ==
    ASSUME BaseInv, CopyInv, CountsInv, NEW s \in Slot, Starts(s)
    PROVE  CountsInv'
  <1>1. PICK j : Fresh(j) /\ Begins(s, j) /\ UNCHANGED <<rowVars, resetTables>>
    BY DEF Starts
  <1>2. /\ \A q \in Slot : q # s => work'[q] = work[q]
        /\ work'[s] = j /\ work[s] = Idle /\ crossed \subseteq crossed' /\ skewed \subseteq skewed'
        /\ UNCHANGED <<rows, cached, edges>> /\ j.at \in {"table", "load"} /\ (j.op # "collect" => j.at = "table")
    BY <1>1, StartsOthers, BeginsIs DEF Fresh, resetTables, socialVars, graphVars, rowVars
  <1>3. \A a \in Account : OutCount(a)' = OutCount(a) /\ InCount(a)' = InCount(a)
    BY <1>2 DEF OutCount, InCount
  <1>4. ASSUME NEW a \in Account, NEW q \in Slot
        PROVE  /\ DueOut(q, a)' <=> DueOut(q, a)
               /\ DueIn(q, a)' <=> DueIn(q, a)
               /\ Carries(q, a)' <=> Carries(q, a)
               /\ q # s => (Brings(q, a)' <=> Brings(q, a))
               /\ DueOut(q, a) \/ DueIn(q, a) \/ Carries(q, a) => q # s
    BY <1>2 DEF DueOut, DueIn, Carries, Brings, Doing, Busy, FollowOps
  <1>5. ASSUME NEW a \in Account, a \notin crossed', a \notin skewed', Brings(s, a)'
        PROVE  work'[s].row.following = OutCount(a) /\ work'[s].row.followers = InCount(a)
    <2>1. j.op \in {"create", "join"} /\ j.who = a
      BY <1>2, <1>5 DEF Brings, Doing
    <2>2. j.row \in Copies(a) /\ a \in Stakes(j)
      BY <1>1, <2>1, StakesAre DEF Fresh, ClanOps
    <2>3. resetting = Idle /\ \A q \in Slot : ~UsesRow(q, a)
      BY <1>1, <1>5, <2>2, StartsOthers, CarriesUses DEF UsesRow
    <2>4. cached[a] = rows[a]
      BY <1>2, <1>5, <2>3, CarriesUses DEF CopyInv
    <2>5. j.row = rows[a] /\ rows[a] # NoRow
      BY <2>2, <2>4 DEF Copies
    <2>6. QED
      BY <1>2, <1>5, <2>3, <2>5, IdleCounts
  <1>6. QED
    BY <1>2, <1>3, <1>4, <1>5 DEF CountsInv, Counted

LEMMA CountsOfReset ==
    ASSUME BaseInv, CountsInv, ResetStep
    PROVE  CountsInv'
  <1>1. work' = work /\ crossed \subseteq crossed'
    BY ResetStepType
  <1>2. ASSUME NEW a \in Account, NEW q \in Slot
        PROVE  /\ DueOut(q, a)' <=> DueOut(q, a)
               /\ DueIn(q, a)' <=> DueIn(q, a)
               /\ Carries(q, a)' <=> Carries(q, a)
               /\ Brings(q, a)' <=> Brings(q, a)
    BY <1>1 DEF DueOut, DueIn, Carries, Brings, Doing, Busy
  <1>3. ASSUME skewed \subseteq skewed',
               \A a \in Account \ skewed' : /\ rows'[a] \in {rows[a], NoRow}
                                            /\ OutCount(a)' = OutCount(a) /\ InCount(a)' = InCount(a)
        PROVE  CountsInv'
    BY <1>1, <1>2, <1>3 DEF CountsInv, Counted
  <1>4. CASE ResetReads \/ ResetSets \/ ResetKeys \/ ResetFeed
    <2>1. UNCHANGED <<rows, edges>> /\ skewed \subseteq skewed'
      BY <1>4, ResetReadsIs, ResetSetsIs, ResetKeysIs, ResetFeedIs DEF Work, rowVars, resetTables, socialVars, graphVars
    <2>2. \A a \in Account : OutCount(a)' = OutCount(a) /\ InCount(a)' = InCount(a)
      BY <2>1 DEF OutCount, InCount
    <2>3. QED
      BY <1>3, <2>1, <2>2
  <1>5. CASE ResetRows
    <2>1. /\ \A a \in Account : rows'[a] \in {rows[a], NoRow}
          /\ edges' = edges \ LostEdges
          /\ skewed' = skewed \cup {a \in Account : \E e \in LostEdges : a \in {e[1], e[2]}}
      BY <1>5, ResetRowsIs
    <2>2. ASSUME NEW a \in Account, a \notin skewed'
          PROVE  OutCount(a)' = OutCount(a) /\ InCount(a)' = InCount(a)
      <3>1. \A b \in Account : <<a, b>> \notin LostEdges /\ <<b, a>> \notin LostEdges
        BY <2>1, <2>2
      <3>2. /\ {b \in Account : <<a, b>> \in edges'} = {b \in Account : <<a, b>> \in edges}
            /\ {b \in Account : <<b, a>> \in edges'} = {b \in Account : <<b, a>> \in edges}
        BY <2>1, <3>1
      <3>3. QED
        BY <3>2 DEF OutCount, InCount
    <2>3. QED
      BY <1>3, <2>1, <2>2
  <1>6. CASE ResetFails
    BY <1>6, ResetFailsIs DEF CountsInv
  <1>7. QED
    BY <1>4, <1>5, <1>6 DEF ResetStep

\* The counts an account shows are the edges it has.
THEOREM CountsAreEdges == CommunitySpec => []FollowCountsHold
  <1>1. CommunityInit => CountsInv
    <2> SUFFICES ASSUME CommunityInit PROVE CountsInv
      OBVIOUS
    <2>1. \A s \in Slot : ~Busy(s)
      BY BaseInit
    <2>2. edges = {} /\ \A a \in Account : rows[a].following = 0 /\ rows[a].followers = 0
      BY DEF CommunityInit, RowsInit, SocialInit, Blank
    <2>3. \A a \in Account : OutCount(a) = 0 /\ InCount(a) = 0
      BY <2>2, FS_EmptySet DEF OutCount, InCount
    <2>4. QED
      BY <2>1, <2>2, <2>3 DEF CountsInv, DueOut, DueIn, Carries, Brings, Doing
  <1>2. BaseInv /\ CopyInv /\ TagsInv /\ CountsInv /\ [CommunityNext]_vars => CountsInv'
    <2>1. ASSUME CountsInv, UNCHANGED vars PROVE CountsInv'
      <3>1. UNCHANGED <<rows, work, crossed, skewed, edges>>
        BY <2>1 DEF vars, pathVars, historyVars, rowVars, resetTables, socialVars, graphVars
      <3>2. \A a : OutCount(a)' = OutCount(a) /\ InCount(a)' = InCount(a)
        BY <3>1 DEF OutCount, InCount
      <3>3. \A a, q : /\ DueOut(q, a)' <=> DueOut(q, a)
                      /\ DueIn(q, a)' <=> DueIn(q, a)
                      /\ Carries(q, a)' <=> Carries(q, a)
                      /\ Brings(q, a)' <=> Brings(q, a)
        BY <3>1 DEF DueOut, DueIn, Carries, Brings, Doing, Busy
      <3>4. QED
        BY <2>1, <3>1, <3>2, <3>3 DEF CountsInv, Counted
    <2>2. QED
      BY <2>1, StepKinds, CountsOfStarts, CountsOfWork, CountsOfReset
  <1>3. BaseInv /\ CountsInv => FollowCountsHold
    <2> SUFFICES ASSUME BaseInv, CountsInv, NEW a \in Account, a \notin crossed, a \notin skewed, Quiet(a), rows[a] # NoRow
                 PROVE  rows[a].following = OutCount(a) /\ rows[a].followers = InCount(a)
      BY DEF FollowCountsHold, OutCount, InCount
    <2>1. \A q \in Slot : ~UsesRow(q, a)
      BY CarriesUses, JobsAreBusy DEF Quiet, UsesRow
    <2>2. QED
      BY <2>1, IdleCounts
  <1>4. QED
    BY <1>1, <1>2, <1>3, BaseInvariant, RowsInvariant, PTL DEF CommunitySpec
=============================================================================
