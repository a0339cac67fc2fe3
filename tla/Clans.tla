------------------------------- MODULE Clans -------------------------------
(***************************************************************************)
(* Clans: a clan row with its count of members, a row for each member, a   *)
(* cached copy of the clan, and the tag each account displays.  The two    *)
(* tables change in one transaction; the cache and the account follow.     *)
(***************************************************************************)
EXTENDS AccountRows, FiniteSets

CONSTANT NoClan

VARIABLES
    clans,       \* CLANS_TABLE
    members,     \* CLAN_MEMBERS_TABLE: pairs of a tag and an account
    clanCopy     \* wou_clan:{tag}

clanVars == <<clans, members, clanCopy>>

Clan == [leader : Account, count : 0..MaxCount]

ASSUME ClansAssumption == NoClan \notin Clan

ClansInit ==
    /\ clans = [t \in Tag |-> NoClan]
    /\ members = {}
    /\ clanCopy = [t \in Tag |-> NoClan]

MembersOf(t) == {a \in Account : <<t, a>> \in members}

-----------------------------------------------------------------------------
AskCreate(s, a, t) ==
    /\ \E row \in Copies(a) : Begins(s, Asks("create", "table", a, t, row))
    /\ UNCHANGED <<rowVars, clanVars>>

\* get_clan looks at the cached copy first, then at the row.
Seen(t) == clanCopy[t] # NoClan \/ clans[t] # NoClan

\* A clan that is seen is looked at again inside the transaction.
AskJoin(s, a, t) ==
    /\ Seen(t)
    /\ \E row \in Copies(a) : Begins(s, Asks("join", "table", a, t, row))
    /\ UNCHANGED <<rowVars, clanVars>>

\* Nothing is asked of who leaves, not even to be a member.
AskLeave(s, a, t) ==
    /\ Begins(s, Asks("leave", "table", a, t, Blank))
    /\ UNCHANGED <<rowVars, clanVars>>

-----------------------------------------------------------------------------
(* The transactions. *)

Refused(s) == Ends(s) /\ Orderly /\ UNCHANGED <<rowVars, clanVars>>

CreateClan(s) ==
    LET a == work[s].who
        t == work[s].on IN
    /\ Doing(s, "create") /\ At(s, "table")
    /\ \/ clans[t] # NoClan /\ Refused(s)
       \/ /\ clans[t] = NoClan
          /\ clans' = [clans EXCEPT ![t] = [leader |-> a, count |-> 1]]
          /\ members' = members \cup {<<t, a>>}
          /\ Goes(s, "first")
          /\ UNCHANGED <<clanCopy, rowVars, pathVars>>

Miscounts(s, bad) ==
    /\ skewed' = IF bad THEN skewed \cup {work[s].on} ELSE skewed
    /\ UNCHANGED <<begun, crossed, removed, resetting>>

\* One more is counted, also when the account is a member already.
JoinClan(s) ==
    LET a == work[s].who
        t == work[s].on IN
    /\ Doing(s, "join") /\ At(s, "table")
    /\ \/ clans[t] = NoClan /\ Refused(s)
       \/ /\ clans[t] # NoClan
          /\ clans' = [clans EXCEPT ![t].count = More(@)]
          /\ members' = members \cup {<<t, a>>}
          /\ Miscounts(s, <<t, a>> \in members)
          /\ Goes(s, "first")
          /\ UNCHANGED <<clanCopy, rowVars>>

\* One less is counted, also when the account was no member; at one the clan is
\* removed, whoever is left in it.
LeaveClan(s) ==
    LET a == work[s].who
        t == work[s].on IN
    /\ Doing(s, "leave") /\ At(s, "table")
    /\ members' = members \ {<<t, a>>}
    /\ clans' = IF clans[t] = NoClan THEN clans
                ELSE IF clans[t].count > 1 THEN [clans EXCEPT ![t].count = @ - 1]
                ELSE [clans EXCEPT ![t] = NoClan]
    /\ Miscounts(s, clans[t] # NoClan /\ <<t, a>> \notin members)
    /\ Goes(s, "first")
    /\ UNCHANGED <<clanCopy, rowVars>>

-----------------------------------------------------------------------------
(* After the transaction: the cached clan, and the tag of the account. *)

Wearing(s, tag) == [work[s].row EXCEPT !.tag = tag]

Copied(s, clan) ==
    \/ clanCopy' = [clanCopy EXCEPT ![work[s].on] = clan] /\ Orderly
    \/ Marred(s) /\ UNCHANGED clanCopy

Wears(s, stage) == work' = [work EXCEPT ![s].at = stage, ![s].row = Wearing(s, work[s].on)]

\* The clan as it was created is cached, whatever has become of it.
CacheClan(s) ==
    /\ Doing(s, "create") /\ At(s, "first")
    /\ Copied(s, [leader |-> work[s].who, count |-> 1])
    /\ Wears(s, "save")
    /\ UNCHANGED <<rowVars, clans, members>>

DropClan(s) ==
    /\ At(s, "first")
    /\ \/ Doing(s, "join") /\ Wears(s, "save")
       \/ Doing(s, "leave") /\ Goes(s, "load")
    /\ Copied(s, NoClan)
    /\ UNCHANGED <<rowVars, clans, members>>

\* Whoever displays the tag of the clan just left stops doing so.
LeaveLoad(s) ==
    /\ Doing(s, "leave") /\ At(s, "load")
    /\ \/ \E row \in Copies(work[s].who) :
            IF row.tag = work[s].on
            THEN work' = [work EXCEPT ![s].at = "save", ![s].row = [row EXCEPT !.tag = NoTag]]
            ELSE Ends(s)
       \/ Copies(work[s].who) = {} /\ Ends(s)
    /\ Orderly
    /\ UNCHANGED <<rowVars, clanVars>>

ClanStep(s) ==
    \/ CreateClan(s) \/ JoinClan(s) \/ LeaveClan(s)
    \/ CacheClan(s) \/ DropClan(s)
    \/ LeaveLoad(s)

-----------------------------------------------------------------------------
ClansTypeOK ==
    /\ clans \in [Tag -> Clan \cup {NoClan}]
    /\ members \subseteq Tag \X Account
    /\ clanCopy \in [Tag -> Clan \cup {NoClan}]

\* A clan counts its members, all of them, and is there while there are any,
\* whatever overlaps or fails; and when nothing overlapped or failed on it, its
\* cached copy says the same.  (For tags nobody joined twice or left uninvited,
\* and no request was about while a reset was at work.)
ClanTellsTruth ==
    \A t \in Tag \ skewed :
        /\ IF clans[t] = NoClan THEN MembersOf(t) = {}
           ELSE clans[t].count = Cardinality(MembersOf(t))
        /\ t \notin crossed /\ Quiet(t) /\ clanCopy[t] # NoClan => clanCopy[t] = clans[t]

\* Whoever displays a tag is a member of that clan, whatever the other accounts
\* do to the clan meanwhile.  (For accounts whose own requests neither overlapped
\* nor failed.)
DisplayedTagIsMembership ==
    \A a \in Account \ crossed :
        Quiet(a) /\ rows[a] # NoRow /\ rows[a].tag # NoTag => <<rows[a].tag, a>> \in members
=============================================================================
