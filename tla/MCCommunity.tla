---------------------------- MODULE MCCommunity ----------------------------
(***************************************************************************)
(* One behaviour has requests of one family; the operations of a family    *)
(* meet in the same tables, those of different families only in the row    *)
(* of an account, which the last family has them share.                    *)
(***************************************************************************)
EXTENDS Community

CONSTANTS MaxShort, MaxLong  \* bounds: requests, resets and failures together

VARIABLE family

\* A follow takes many steps, so its families have fewer requests.
Families ==
    {[ops |-> {"create", "join", "leave"}, events |-> MaxLong],
     [ops |-> {"post", "collect"}, events |-> MaxLong],
     [ops |-> {"follow", "unfollow"}, events |-> MaxShort],
     [ops |-> {"create", "follow"}, events |-> MaxShort]}

MCInit == CommunityInit /\ family \in Families

MCNext ==
    /\ CommunityNext
    /\ \A s \in Slot : ~Busy(s) /\ work'[s] # Idle => work'[s].op \in family.ops
    /\ begun'.requests + begun'.resets + begun'.faults <= family.events
    /\ UNCHANGED family

MCSpec == MCInit /\ [][MCNext]_<<vars, family>>
=============================================================================
