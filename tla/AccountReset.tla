---------------------------- MODULE AccountReset ----------------------------
(***************************************************************************)
(* The operator's reset: it reads all tables in one snapshot, takes the    *)
(* human accounts out of the cache command by command, and at last removes *)
(* the rows the snapshot named, in one commit.  Handlers go on meanwhile.  *)
(* (A dry run, or a call without the exact confirmation, changes nothing.) *)
(***************************************************************************)
EXTENDS Clans, Social, Inventory

CONSTANT Human       \* the other accounts are bots

\* What a reset has read: the accounts it removes, which of them no request
\* touches meanwhile, and the keys it takes out of each table.
Reset == [at : {"sets", "keys", "feed", "rows"},
          humans : SUBSET Account, clear : SUBSET Account,
          edges : SUBSET (Account \X Account), members : SUBSET (Tag \X Account),
          posts : SUBSET (Entry \X Account), led : SUBSET Tag, owners : SUBSET Account,
          feed : SUBSET (Entry \X Account)]

ASSUME ResetAssumption == Human \subseteq Account /\ Idle \notin Reset

resetTables == <<clanVars, socialVars, inventoryVars>>

ResetAt(stage) == resetting # Idle /\ resetting.at = stage

ResetGoes(stage) == resetting' = [resetting EXCEPT !.at = stage]

Gone == resetting.humans

-----------------------------------------------------------------------------
\* The snapshot of the tables.
ResetReads ==
    LET humans == {a \in Human : rows[a] # NoRow} IN
    /\ resetting = Idle
    /\ begun.resets < MaxResets
    /\ begun' = [begun EXCEPT !.resets = @ + 1]
    /\ resetting' = [at |-> "sets", humans |-> humans, clear |-> humans \ UNION {Accounts(j) : j \in Jobs},
                     edges |-> edges, members |-> members, posts |-> posts,
                     led |-> {t \in Tag : clans[t] # NoClan /\ clans[t].leader \in humans},
                     owners |-> {a \in humans : inventory[a] # {}}, feed |-> feed]
    /\ crossed' = crossed \cup AtStake
    /\ skewed' = skewed \cup (Tag \cap AtStake)
    /\ UNCHANGED <<removed, work, rowVars, resetTables>>

\* Members rows go with their account, or with their clan.
LostMembers == {m \in resetting.members : m[2] \in Gone \/ m[1] \in resetting.led}

LostEdges == {e \in resetting.edges : e[1] \in Gone \/ e[2] \in Gone}

\* How many members a clan that stays loses.
LostIn(t) == Cardinality({m \in LostMembers : m[1] = t})

\* Mutant of ResetSets: only the sets of who follows are gone through.
ResetSetsHalf ==
    /\ ResetAt("sets")
    /\ following' = [a \in Account |-> IF a \in Gone THEN following[a] ELSE following[a] \ Gone]
    /\ resetting' = [resetting EXCEPT !.at = "keys", !.feed = feed]
    /\ UNCHANGED <<rowVars, work, clanVars, edges, followers, postVars, inventoryVars, historyVars>>

\* The humans are taken out of the sets of the others; then the feed is read.
ResetSets ==
    /\ ResetAt("sets")
    /\ following' = [a \in Account |-> IF a \in Gone THEN following[a] ELSE following[a] \ Gone]
    /\ followers' = [a \in Account |-> IF a \in Gone THEN followers[a] ELSE followers[a] \ Gone]
    /\ resetting' = [resetting EXCEPT !.at = "keys", !.feed = feed]
    /\ UNCHANGED <<rowVars, work, clanVars, edges, postVars, inventoryVars, historyVars>>

\* The keys of the humans, and of the clans that lose a member or go.
ResetKeys ==
    /\ ResetAt("keys")
    /\ cached' = [a \in Account |-> IF a \in Gone THEN NoRow ELSE cached[a]]
    /\ following' = [a \in Account |-> IF a \in Gone THEN {} ELSE following[a]]
    /\ followers' = [a \in Account |-> IF a \in Gone THEN {} ELSE followers[a]]
    /\ clanCopy' = [t \in Tag |-> IF t \in resetting.led \/ LostIn(t) > 0
                                  THEN NoClan ELSE clanCopy[t]]
    /\ ResetGoes("feed")
    /\ UNCHANGED <<rows, work, clans, members, edges, postVars, inventoryVars, historyVars>>

\* The feed is written anew, if it named one of them.
ResetFeed ==
    LET kept == {p \in resetting.feed : p[2] \notin Gone} IN
    /\ ResetAt("feed")
    /\ feed' = IF kept # resetting.feed THEN kept ELSE feed
    /\ ResetGoes("rows")
    /\ UNCHANGED <<rowVars, work, clanVars, graphVars, posts, inventoryVars, historyVars>>

\* Mutant of ClanLess: a clan that stays goes on counting the removed.
ClanKept(t) == IF t \in resetting.led THEN NoClan ELSE clans[t]

ClanLess(t) ==
    IF t \in resetting.led THEN NoClan
    ELSE IF clans[t] = NoClan \/ LostIn(t) = 0 THEN clans[t]
    ELSE [clans[t] EXCEPT !.count = IF @ > LostIn(t) THEN @ - LostIn(t) ELSE 0]

\* The rows of the snapshot go in one commit.  The bots' counts and displayed
\* tags are left as they are.
ResetRows ==
    /\ ResetAt("rows")
    /\ rows' = [a \in Account |-> IF a \in Gone THEN NoRow ELSE rows[a]]
    /\ clans' = [t \in Tag |-> ClanLess(t)]
    /\ members' = members \ LostMembers
    /\ edges' = edges \ LostEdges
    /\ posts' = posts \ {p \in resetting.posts : p[2] \in Gone}
    /\ inventory' = [a \in Account |-> IF a \in resetting.owners THEN {} ELSE inventory[a]]
    /\ gained' = [a \in Account |-> IF a \in Gone THEN {} ELSE gained[a]]
    /\ skewed' = skewed \cup {a \in Account : \E e \in LostEdges : a \in {e[1], e[2]}}
    /\ crossed' = crossed \cup {m[2] : m \in LostMembers}
    /\ removed' = removed \cup resetting.clear
    /\ resetting' = Idle
    /\ UNCHANGED <<cached, work, clanCopy, following, followers, feed, begun>>

\* A command of the reset fails and it gives up, or the server restarts: what
\* the cache has lost by then it has lost.
ResetFails ==
    /\ Failure
    /\ resetting # Idle
    /\ resetting' = Idle
    /\ crossed' = crossed \cup Account \cup Tag \cup (Account \X Account)
    /\ UNCHANGED <<skewed, removed, rowVars, work, resetTables>>

ResetStep == ResetReads \/ ResetSets \/ ResetKeys \/ ResetFeed \/ ResetRows \/ ResetFails

-----------------------------------------------------------------------------
ResetTypeOK == resetting \in Reset \cup {Idle}

\* A reset leaves nothing of the accounts it removes, in any table or cache:
\* also when an earlier one had failed half way.  (For accounts no request
\* touched while it was at work, or since.)
ResetLeavesNothing ==
    \A a \in removed :
        /\ rows[a] = NoRow /\ cached[a] = NoRow
        /\ \A e \in edges : a \notin {e[1], e[2]}
        /\ following[a] = {} /\ followers[a] = {}
        /\ \A b \in Account : a \notin following[b] \cup followers[b]
        /\ \A m \in members : m[2] # a
        /\ \A t \in Tag : clans[t] # NoClan => clans[t].leader # a
        /\ inventory[a] = {}
        /\ \A p \in posts \cup feed : p[2] # a
=============================================================================
