------------------------------ MODULE Follows ------------------------------
(***************************************************************************)
(* Follow of internal/service/blog.go: a row of tb_follow and a member of  *)
(* the set follows:{user}, written one after the other.  The table has no  *)
(* unique index on the pair, so it holds a number of equal rows; IsFollow  *)
(* and publishing read the table, common follows read the sets.            *)
(***************************************************************************)
EXTENDS Integers, FiniteSets

CONSTANTS
    Fans,            \* users who follow
    Authors,         \* users who are followed
    FollowCalls,     \* Follow calls that run at the same time
    MaxFollows,      \* bound: calls in one behaviour
    MaxFollowFaults  \* bound: calls cut off between row and set

ASSUME FollowBounds == MaxFollows \in Nat /\ MaxFollowFaults \in Nat

VARIABLES
    rows,         \* [Fans \X Authors -> number of rows of the pair]
    follows,      \* [Fans -> set of authors], follows:{user}
    following,    \* [FollowCalls -> what the call has still to do]
    torn,         \* observation: pairs with overlapping calls or a cut one
    followed,     \* calls so far
    followFaults  \* cuts so far

followVars == <<rows, follows, following, torn, followed, followFaults>>

Pairs == Fans \X Authors
NoFollow == [pc |-> "idle"]
Following == [pc : {"set"}, pair : Pairs, isFollow : BOOLEAN]

FollowsTypeOK ==
    /\ rows \in [Pairs -> Nat]
    /\ follows \in [Fans -> SUBSET Authors]
    /\ following \in [FollowCalls -> {NoFollow} \cup Following]
    /\ torn \subseteq Pairs
    /\ followed \in 0..MaxFollows
    /\ followFaults \in 0..MaxFollowFaults

\* Some pairs follow already.
FollowsInit ==
    /\ rows \in [Pairs -> {0, 1}]
    /\ follows = [f \in Fans |-> {a \in Authors : rows[<<f, a>>] > 0}]
    /\ following = [c \in FollowCalls |-> NoFollow]
    /\ torn = {}
    /\ followed = 0
    /\ followFaults = 0

FansOf(a) == {f \in Fans : rows[<<f, a>>] > 0}

\* Calls that have changed the rows of a pair and not yet the set.
OpenOn(p) == {c \in FollowCalls : following[c] # NoFollow /\ following[c].pair = p}

-----------------------------------------------------------------------------
\* Mutant: an unfollow takes one row away and does not look whether there is one.
DeleteOne(c, p, isFollow) ==
    /\ followed < MaxFollows
    /\ following[c] = NoFollow
    /\ rows' = [rows EXCEPT ![p] = IF isFollow THEN @ + 1 ELSE @ - 1]
    /\ following' = [following EXCEPT ![c] = [pc |-> "set", pair |-> p, isFollow |-> isFollow]]
    /\ torn' = IF OpenOn(p) = {} THEN torn ELSE torn \cup {p}
    /\ followed' = followed + 1
    /\ UNCHANGED <<follows, followFaults>>

\* INSERT INTO, or DELETE of every row of the pair.
StoreFollow(c, p, isFollow) ==
    /\ followed < MaxFollows
    /\ following[c] = NoFollow
    /\ rows' = [rows EXCEPT ![p] = IF isFollow THEN @ + 1 ELSE 0]
    /\ following' = [following EXCEPT ![c] = [pc |-> "set", pair |-> p, isFollow |-> isFollow]]
    /\ torn' = IF OpenOn(p) = {} THEN torn ELSE torn \cup {p}
    /\ followed' = followed + 1
    /\ UNCHANGED <<follows, followFaults>>

\* Mutant: SADD whatever was asked.
MarkFollowAdds(c) ==
    LET p == following[c].pair
    IN  /\ following[c].pc = "set"
        /\ follows' = [follows EXCEPT ![p[1]] = @ \cup {p[2]}]
        /\ following' = [following EXCEPT ![c] = NoFollow]
        /\ UNCHANGED <<rows, torn, followed, followFaults>>

\* SADD or SREM.
MarkFollow(c) ==
    LET p == following[c].pair
    IN  /\ following[c].pc = "set"
        /\ follows' = [follows EXCEPT ![p[1]] =
                         IF following[c].isFollow THEN @ \cup {p[2]} ELSE @ \ {p[2]}]
        /\ following' = [following EXCEPT ![c] = NoFollow]
        /\ UNCHANGED <<rows, torn, followed, followFaults>>

\* SADD or SREM fails, which the code ignores, or the pod goes.
CutFollow(c) ==
    /\ followFaults < MaxFollowFaults
    /\ following[c].pc = "set"
    /\ following' = [following EXCEPT ![c] = NoFollow]
    /\ torn' = torn \cup {following[c].pair}
    /\ followFaults' = followFaults + 1
    /\ UNCHANGED <<rows, follows, followed>>

FollowsNext ==
    \E c \in FollowCalls :
        \/ \E p \in Pairs, isFollow \in BOOLEAN : StoreFollow(c, p, isFollow)
        \/ MarkFollow(c) \/ CutFollow(c)

FollowsSpec == FollowsInit /\ [][FollowsNext]_followVars

-----------------------------------------------------------------------------
\* The set that common follows are computed from has exactly the authors that
\* IsFollow says the user follows, whatever other pairs do at the same time
\* and however often the same follow was stored; a call between its two writes
\* is known by what it has still to do.  Only a pair whose calls overlapped,
\* or one of whose calls was cut off, may differ.
FollowsAgree ==
    \A f \in Fans, a \in Authors :
        <<f, a>> \notin torn =>
            /\ OpenOn(<<f, a>>) = {} => (a \in follows[f] <=> f \in FansOf(a))
            /\ \A c \in OpenOn(<<f, a>>) : following[c].isFollow <=> f \in FansOf(a)

=============================================================================
