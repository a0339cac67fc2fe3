------------------------------ MODULE Community ------------------------------
(***************************************************************************)
(* The community side of the server at work: clan, follow, activity and    *)
(* collect requests of several accounts in flight together, and the reset  *)
(* of the human accounts running among them.                               *)
(***************************************************************************)
EXTENDS AccountReset

\* No count saturates: MaxCount stands for the largest integer.
ASSUME CountAssumption == IsFiniteSet(Account) /\ Cardinality(Account) <= MaxCount

vars == <<rowVars, work, pathVars, resetTables>>

CommunityInit == RowsInit /\ ClansInit /\ SocialInit /\ InventoryInit

ClanRequest(s) ==
    /\ \E a \in Account, t \in Tag : AskCreate(s, a, t) \/ AskJoin(s, a, t) \/ AskLeave(s, a, t)
    /\ UNCHANGED <<socialVars, inventoryVars>>

SocialRequest(s) ==
    /\ \/ \E op \in {"follow", "unfollow"}, a, b \in Account : AskFollow(s, op, a, b)
       \/ \E a \in Account, e \in Entry : AskPost(s, a, e)
    /\ UNCHANGED <<clanVars, inventoryVars>>

CollectRequest(s) ==
    /\ \E a \in Account, x \in Card : AskCollect(s, a, x)
    /\ UNCHANGED <<clanVars, socialVars>>

ClanWorks(s) == ClanStep(s) /\ UNCHANGED <<socialVars, inventoryVars>>

SocialWorks(s) == SocialStep(s) /\ UNCHANGED <<clanVars, inventoryVars>>

CollectWorks(s) == InventoryStep(s) /\ UNCHANGED <<clanVars, socialVars>>

AccountSaved(s) == (SaveRow(s) \/ CopyRow(s)) /\ UNCHANGED resetTables

RequestDies(s) == Dies(s) /\ UNCHANGED resetTables

CommunityNext ==
    \/ \E s \in Slot :
        \/ ClanRequest(s) \/ SocialRequest(s) \/ CollectRequest(s)
        \/ ClanWorks(s) \/ SocialWorks(s) \/ CollectWorks(s)
        \/ AccountSaved(s) \/ RequestDies(s)
    \/ ResetStep

CommunitySpec == CommunityInit /\ [][CommunityNext]_vars

-----------------------------------------------------------------------------
\* Every table and cache holds what its handlers put there.
CommunityTypeOK ==
    RowsTypeOK /\ ClansTypeOK /\ SocialTypeOK /\ InventoryTypeOK /\ ResetTypeOK
=============================================================================
