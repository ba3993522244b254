------------------------------- MODULE Likes -------------------------------
(***************************************************************************)
(* Likes of blogs: the column tb_blog.liked and the sorted set             *)
(* blog:liked:{id}, toggled by UpdateLike of internal/service/blog.go in   *)
(* three calls: ZSCORE, UPDATE, then ZADD or ZREM.  db/hmdp.sql declares   *)
(* the column unsigned, so MySQL refuses to take 1 from 0.                 *)
(***************************************************************************)
EXTENDS Integers, FiniteSets

CONSTANTS
    Likers,     \* users
    Posts,      \* blogs
    Given,      \* likes a row came with, without members in Redis
    Toggles,    \* UpdateLike calls that run at the same time
    MaxToggles, \* bound: calls in one behaviour
    MaxCuts     \* bound: calls that fail or are cut off after a change

ASSUME LikersAssumption == IsFiniteSet(Likers) /\ IsFiniteSet(Toggles)
ASSUME GivenAssumption == Given \in [Posts -> Nat]
ASSUME ToggleBounds == MaxToggles \in Nat /\ MaxCuts \in Nat

VARIABLES
    liked,      \* tb_blog.liked
    likers,     \* blog:liked:{id}
    toggle,     \* [Toggles -> what the call is about to do]
    tangled,    \* observation: posts where two toggles of one user met, or
                \* one was cut off
    toggled,    \* calls so far
    cuts        \* cut calls so far

likesVars == <<liked, likers, toggle, tangled, toggled, cuts>>

NoToggle == [pc |-> "idle"]
Toggling == [pc : {"count", "mark"}, user : Likers, post : Posts, first : BOOLEAN]

LikesTypeOK ==
    /\ liked \in [Posts -> Nat]
    /\ likers \in [Posts -> SUBSET Likers]
    /\ toggle \in [Toggles -> {NoToggle} \cup Toggling]
    /\ tangled \subseteq Posts
    /\ toggled \in 0..MaxToggles
    /\ cuts \in 0..MaxCuts

LikesInit ==
    /\ liked = Given
    /\ likers = [b \in Posts |-> {}]
    /\ toggle = [c \in Toggles |-> NoToggle]
    /\ tangled = {}
    /\ toggled = 0
    /\ cuts = 0

Answer(c) == toggle' = [toggle EXCEPT ![c] = NoToggle]

\* The calls a user has under way on a post.
TogglesOf(u, b) ==
    {c \in Toggles : toggle[c] # NoToggle /\ toggle[c].user = u /\ toggle[c].post = b}

-----------------------------------------------------------------------------
\* ZSCORE: `first` is the code's variable liked, no score found.
ReadScore(c, u, b) ==
    /\ toggled < MaxToggles
    /\ toggle[c] = NoToggle
    /\ toggle' = [toggle EXCEPT ![c] =
                    [pc |-> "count", user |-> u, post |-> b, first |-> u \notin likers[b]]]
    /\ tangled' = IF TogglesOf(u, b) = {} THEN tangled ELSE tangled \cup {b}
    /\ toggled' = toggled + 1
    /\ UNCHANGED <<liked, likers, cuts>>

Delta(c) == IF toggle[c].first THEN 1 ELSE -1

\* UPDATE tb_blog SET liked = liked + delta; out of range below zero.
Count(c) ==
    LET b == toggle[c].post
    IN  /\ toggle[c].pc = "count"
        /\ IF liked[b] + Delta(c) < 0
           THEN Answer(c) /\ UNCHANGED liked
           ELSE /\ liked' = [liked EXCEPT ![b] = @ + Delta(c)]
                /\ toggle' = [toggle EXCEPT ![c].pc = "mark"]
        /\ UNCHANGED <<likers, tangled, toggled, cuts>>

\* Mutant: ZADD whatever ZSCORE said.
MarkAdds(c) ==
    LET b == toggle[c].post
    IN  /\ toggle[c].pc = "mark"
        /\ likers' = [likers EXCEPT ![b] = @ \cup {toggle[c].user}]
        /\ Answer(c)
        /\ UNCHANGED <<liked, tangled, toggled, cuts>>

\* ZADD or ZREM.
Mark(c) ==
    LET b == toggle[c].post
        u == toggle[c].user
    IN  /\ toggle[c].pc = "mark"
        /\ likers' = [likers EXCEPT ![b] = IF toggle[c].first THEN @ \cup {u} ELSE @ \ {u}]
        /\ Answer(c)
        /\ UNCHANGED <<liked, tangled, toggled, cuts>>

\* The call ends early: the UPDATE fails, or it is written and reports an error,
\* the ZADD or ZREM fails (its error is ignored), the pod or the client goes.
CutToggle(c) ==
    /\ cuts < MaxCuts
    /\ toggle[c] # NoToggle
    /\ Answer(c)
    /\ tangled' = IF toggle[c].pc = "mark" THEN tangled \cup {toggle[c].post} ELSE tangled
    /\ cuts' = cuts + 1
    /\ UNCHANGED <<liked, likers, toggled>>

LikesNext ==
    \E c \in Toggles :
        \/ \E u \in Likers, b \in Posts : ReadScore(c, u, b)
        \/ Count(c) \/ Mark(c) \/ CutToggle(c)

LikesSpec == LikesInit /\ [][LikesNext]_likesVars

-----------------------------------------------------------------------------
Counted(b, first) ==
    {c \in Toggles : /\ toggle[c] # NoToggle /\ toggle[c].pc = "mark"
                     /\ toggle[c].post = b /\ toggle[c].first = first}

\* However many users toggle a post at once, the column tells how many
\* members the sorted set has, but for the calls between their UPDATE and
\* their ZADD or ZREM.  Only two toggles of the same user at once, or one that
\* is cut off, take the two stores apart.
ColumnCountsSet ==
    \A b \in Posts \ tangled :
        liked[b] + Cardinality(Counted(b, FALSE)) =
            Given[b] + Cardinality(likers[b]) + Cardinality(Counted(b, TRUE))

\* On such a post a like can always be taken back: MySQL never refuses the
\* decrement of a user who is in the set, whoever else is toggling.
UnlikeWorks ==
    \A c \in Toggles :
        toggle[c].pc = "count" /\ toggle[c].post \notin tangled =>
            liked[toggle[c].post] + Delta(c) >= 0

\* The column and the set agree, and no taking back of a like fails on it.
LikesAgree == ColumnCountsSet /\ UnlikeWorks

=============================================================================
