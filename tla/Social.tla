------------------------------- MODULE Social -------------------------------
(***************************************************************************)
(* Who follows whom is kept three times: a row for each edge, a set for    *)
(* each end of it in the cache, and the counts in the two accounts.        *)
(* Following writes them one after the other.  Activities go to a table    *)
(* and to the global feed.                                                 *)
(***************************************************************************)
EXTENDS AccountRows, FiniteSets

VARIABLES
    edges,       \* FOLLOWERS_TABLE: follow:{follower}:{target}
    following,   \* wou_following:{id}
    followers,   \* wou_followers:{id}
    posts,       \* ACTIVITY_TABLE: pairs of an entry and its account
    feed         \* wou_global_activity_feed

graphVars == <<edges, following, followers>>
postVars == <<posts, feed>>
socialVars == <<graphVars, postVars>>

SocialInit ==
    /\ edges = {}
    /\ following = [a \in Account |-> {}]
    /\ followers = [a \in Account |-> {}]
    /\ posts = {}
    /\ feed = {}

-----------------------------------------------------------------------------
\* Nothing is asked of either account, not even to exist.
AskFollow(s, op, a, b) ==
    /\ op \in {"follow", "unfollow"}
    /\ a # b
    /\ Begins(s, Asks(op, "table", a, b, Blank))
    /\ UNCHANGED <<rowVars, socialVars>>

Follower(s) == work[s].who

Target(s) == work[s].on

\* The edge is written, or removed, whether or not it was there; the counts are
\* changed all the same.
FollowEdge(s) ==
    LET edge == <<Follower(s), Target(s)>>
        again == (edge \in edges) = (work[s].op = "follow") IN
    /\ At(s, "table")
    /\ \/ Doing(s, "follow") /\ edges' = edges \cup {edge}
       \/ Doing(s, "unfollow") /\ edges' = edges \ {edge}
    /\ skewed' = IF again THEN skewed \cup {Follower(s), Target(s)} ELSE skewed
    /\ Goes(s, "first")
    /\ UNCHANGED <<rowVars, following, followers, postVars, begun, crossed, removed, resetting>>

Put(s, set, x) == IF work[s].op = "follow" THEN set \cup {x} ELSE set \ {x}

FollowingSet(s) ==
    /\ Doing(s, "follow") \/ Doing(s, "unfollow")
    /\ At(s, "first")
    /\ \/ following' = [following EXCEPT ![Follower(s)] = Put(s, @, Target(s))] /\ Orderly
       \/ Marred(s) /\ UNCHANGED following
    /\ Goes(s, "second")
    /\ UNCHANGED <<rowVars, edges, followers, postVars>>

\* Mutant of FollowersSet: unfollowing leaves the target's set alone.
FollowersSetGrows(s) ==
    /\ At(s, "second")
    /\ followers' = [followers EXCEPT ![Target(s)] = @ \cup {Follower(s)}]
    /\ Orderly
    /\ Goes(s, "load")
    /\ UNCHANGED <<rowVars, edges, following, postVars>>

FollowersSet(s) ==
    /\ At(s, "second")
    /\ \/ followers' = [followers EXCEPT ![Target(s)] = Put(s, @, Follower(s))] /\ Orderly
       \/ Marred(s) /\ UNCHANGED followers
    /\ Goes(s, "load")
    /\ UNCHANGED <<rowVars, edges, following, postVars>>

Counted(s, n) == IF work[s].op = "follow" THEN More(n) ELSE Less(n)

Saves(s, a, row) ==
    work' = [work EXCEPT ![s].at = "save", ![s].acct = a, ![s].row = row]

\* Each account is read, counted and saved in its turn; one that is gone is
\* passed over.
CountFollowing(s) ==
    /\ Doing(s, "follow") \/ Doing(s, "unfollow")
    /\ At(s, "load")
    /\ \/ \E row \in Copies(Follower(s)) :
            Saves(s, Follower(s), [row EXCEPT !.following = Counted(s, @)])
       \/ Copies(Follower(s)) = {} /\ Goes(s, "reload")
    /\ Orderly
    /\ UNCHANGED <<rowVars, socialVars>>

\* Mutant of CountFollower: the target is counted in the copy of the follower.
CountFollowerMisplaced(s) ==
    /\ At(s, "reload")
    /\ Saves(s, Target(s), [work[s].row EXCEPT !.followers = Counted(s, @)])
    /\ Orderly
    /\ UNCHANGED <<rowVars, socialVars>>

CountFollower(s) ==
    /\ At(s, "reload")
    /\ \/ \E row \in Copies(Target(s)) :
            Saves(s, Target(s), [row EXCEPT !.followers = Counted(s, @)])
       \/ Copies(Target(s)) = {} /\ Ends(s)
    /\ Orderly
    /\ UNCHANGED <<rowVars, socialVars>>

-----------------------------------------------------------------------------
(* Activities: of a session's account, or reported by a game server. *)

EntriesOf(pairs) == {p[1] : p \in pairs}

\* The account must be there; the entry's id is a new one.
AskPost(s, a, e) ==
    /\ e \notin EntriesOf(posts \cup feed)
    /\ \A q \in Slot : Busy(q) => work[q].on # e
    /\ Copies(a) # {} /\ Begins(s, Asks("post", "table", a, e, Blank))
    /\ UNCHANGED <<rowVars, socialVars>>

PostRow(s) ==
    /\ Doing(s, "post") /\ At(s, "table")
    /\ posts' = posts \cup {<<work[s].on, work[s].who>>}
    /\ Goes(s, "first")
    /\ Orderly
    /\ UNCHANGED <<rowVars, graphVars, feed>>

PostFeed(s) ==
    /\ Doing(s, "post") /\ At(s, "first")
    /\ \/ feed' = feed \cup {<<work[s].on, work[s].who>>} /\ Orderly
       \/ Marred(s) /\ UNCHANGED feed
    /\ Ends(s)
    /\ UNCHANGED <<rowVars, graphVars, posts>>

SocialStep(s) ==
    \/ FollowEdge(s) \/ FollowingSet(s) \/ FollowersSet(s)
    \/ CountFollowing(s) \/ CountFollower(s)
    \/ PostRow(s) \/ PostFeed(s)

-----------------------------------------------------------------------------
SocialTypeOK ==
    /\ edges \subseteq Account \X Account
    /\ following \in [Account -> SUBSET Account]
    /\ followers \in [Account -> SUBSET Account]
    /\ posts \subseteq Entry \X Account
    /\ feed \subseteq Entry \X Account

\* The graph the cache answers with is the graph of the durable edges: what
\* get_followers and get_following say does not depend on which of the two they
\* reach.  (For pairs whose own requests neither overlapped nor failed.)
EdgesAgree ==
    \A a, b \in Account : <<a, b>> \notin crossed /\ Quiet(<<a, b>>) =>
        /\ b \in following[a] <=> <<a, b>> \in edges
        /\ a \in followers[b] <=> <<a, b>> \in edges

\* The counts an account shows are the edges it has.  (When no request of its
\* own, or on it, overlapped, failed, or repeated what was already so, and no
\* reset took edges from it.)
FollowCountsHold ==
    \A a \in Account \ (crossed \cup skewed) : Quiet(a) /\ rows[a] # NoRow =>
        /\ rows[a].following = Cardinality({b \in Account : <<a, b>> \in edges})
        /\ rows[a].followers = Cardinality({b \in Account : <<b, a>> \in edges})
=============================================================================
