------------------------------ MODULE MCSocial ------------------------------
(***************************************************************************)
(* Small instances of Likes, Follows, Feed and ShopTypes for TLC.  They    *)
(* share no state: every behaviour runs one of them and leaves the others  *)
(* as they began, so that their states add up instead of multiplying.      *)
(***************************************************************************)
EXTENDS Likes, Feed, ShopTypes

CONSTANTS u1, u2, b1, b2, f1, f2, a1, c1, c2, r1, r2, r3, t1, t2, t3

\* What the parts name is there.
ASSUME PartsAssumption == a1 \in Authors /\ f1 \in Fans /\ MaxPosts >= 3

VARIABLE part

LikesGiven == [b \in {b1, b2} |-> IF b = b1 THEN 1 ELSE 0]
TypeTable == <<t1, t2, t3>>

vars == <<likesVars, feedVars, typeVars, part>>

\* The scroller begins as the one fan of a1; follows have their own part.
ScrollBegin == rows = [p \in Pairs |-> IF p = <<f1, a1>> THEN 1 ELSE 0]

\* While the page scrolls, publishing is seen only through its pushes: the
\* fans are read as soon as a row is stored, and no blog ends.
Publishing(blogs, time) ==
    \/ \E b \in blogs : ReadFans(b)
    \/ /\ \A b \in blogs : post[b].pc # "stored"
       /\ \/ clock < time /\ Tick
          \/ \E b \in blogs : StorePost(b, a1) \/ Push(b, f1)

\* Few blogs and requests that overlap or fail.
ScrollNext ==
    \/ Publishing(1..3, 3)
    \/ /\ \A b \in Blogs : post[b].pc # "stored"
       /\ \E k \in Flights : Scroll(k)

\* More blogs, one a millisecond, and one request at a time: pages that are
\* full and a page behind them.
LongNext ==
    \/ Publishing(Blogs, MaxClock) /\ \A b, c \in Blogs :
           b # c => post'[b].score # post'[c].score \/ post'[b].score = 0
    \/ /\ \A b \in Blogs : post[b].pc # "stored"
       /\ \E k \in Flights : Scroll(k) /\ \A j \in Flights \ {k} : ask[j] = NoAsk
       /\ feedFaults' = 0

Init ==
    /\ part \in {"likes", "follows", "publish", "scroll", "long", "types"}
    /\ LikesInit /\ FeedInit /\ TypesInit
    /\ part \notin {"follows", "publish"} => ScrollBegin

Next ==
    /\ UNCHANGED part
    /\ \/ part = "likes" /\ LikesNext /\ UNCHANGED <<feedVars, typeVars>>
       \/ part = "types" /\ TypesNext /\ UNCHANGED <<likesVars, feedVars>>
       \/ part = "follows" /\ Move /\ UNCHANGED <<likesVars, typeVars>>
       \/ /\ part = "publish"
          /\ Move \/ SaveBlog(1)
          /\ UNCHANGED <<likesVars, typeVars>>
       \/ /\ \/ part = "scroll" /\ ScrollNext
             \/ part = "long" /\ LongNext
          /\ UNCHANGED <<likesVars, typeVars>>

Spec == Init /\ [][Next]_vars

\* The types of the four modules.
TypeOK == LikesTypeOK /\ FollowsTypeOK /\ FeedTypeOK /\ TypesTypeOK

Symmetry == Permutations({c1, c2}) \cup Permutations({r1, r2, r3})

=============================================================================
