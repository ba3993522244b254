---------------------------- MODULE SocialProofs ----------------------------
(***************************************************************************)
(* The column of likes counts its sorted set, the sets of follows are the  *)
(* table, a blog that is out is in the feeds of its fans, who scrolls sees *)
(* a feed in order and whole, and the types are shown in the order of      *)
(* their table, for any number of users, posts, calls and faults; and the  *)
(* types of MCSocial, where the four run beside each other.                *)
(***************************************************************************)
EXTENDS MCSocial, FiniteSetTheorems, SequenceTheorems, TLAPS

-----------------------------------------------------------------------------
(* Likes *)

\* A toggle under way.
Busy(c, b) == toggle[c] # NoToggle /\ toggle[c].post = b

\* On a post that is not tangled a user toggles once at a time, and the score
\* the toggle has read stays right until its own ZADD or ZREM.
Alone(b) ==
    b \notin tangled =>
        /\ \A c, d \in Toggles :
             Busy(c, b) /\ Busy(d, b) /\ toggle[c].user = toggle[d].user => c = d
        /\ \A c \in Toggles : Busy(c, b) => (toggle[c].first <=> toggle[c].user \notin likers[b])

\* The column and the set, with the toggles between UPDATE and ZADD or ZREM.
Members(b) == Cardinality(likers[b])
Ups(b) == Cardinality(Counted(b, TRUE))
Downs(b) == Cardinality(Counted(b, FALSE))

Balanced(b) == b \notin tangled => liked[b] + Downs(b) = Given[b] + Members(b) + Ups(b)

LikesInv == LikesTypeOK /\ \A b \in Posts : Alone(b) /\ Balanced(b)

\* A toggle that is not idle has a user, a post and a score.
LEMMA TogglingFields ==
    ASSUME LikesTypeOK, NEW c \in Toggles
    PROVE  /\ NoToggle.pc = "idle"
           /\ toggle[c].pc # "idle" => toggle[c] # NoToggle
           /\ toggle[c] # NoToggle =>
                /\ toggle[c] \in Toggling
                /\ toggle[c].pc \in {"count", "mark"} /\ toggle[c].user \in Likers
                /\ toggle[c].post \in Posts /\ toggle[c].first \in BOOLEAN
    BY DEF LikesTypeOK, NoToggle, Toggling

\* The sets that are counted are finite.
LEMMA Finite ==
    ASSUME LikesTypeOK, NEW b \in Posts, NEW first \in BOOLEAN
    PROVE  /\ IsFiniteSet(likers[b]) /\ Cardinality(likers[b]) \in Nat
           /\ IsFiniteSet(Counted(b, first)) /\ Cardinality(Counted(b, first)) \in Nat
           /\ Members(b) \in Nat /\ Ups(b) \in Nat /\ Downs(b) \in Nat
<1>1. likers[b] \subseteq Likers
    BY DEF LikesTypeOK
<1>2. \A way \in BOOLEAN : Counted(b, way) \subseteq Toggles
    BY DEF Counted
<1>3. IsFiniteSet(likers[b]) /\ Cardinality(likers[b]) \in Nat
    BY <1>1, LikersAssumption, FS_Subset, FS_CardinalityType
<1>4. \A way \in BOOLEAN : IsFiniteSet(Counted(b, way)) /\ Cardinality(Counted(b, way)) \in Nat
    BY <1>2, LikersAssumption, FS_Subset, FS_CardinalityType
<1> QED
    BY <1>3, <1>4 DEF Members, Ups, Downs

\* A post keeps what the invariant says when its toggles and stores do.
LEMMA OtherPost ==
    ASSUME NEW b \in Posts, Alone(b), Balanced(b), NEW c \in Toggles,
           \A d \in Toggles \ {c} : toggle'[d] = toggle[d],
           ~Busy(c, b), ~Busy(c, b)',
           liked'[b] = liked[b], likers'[b] = likers[b], b \notin tangled' => b \notin tangled
    PROVE  Alone(b)' /\ Balanced(b)'
<1>1. \A d \in Toggles : Busy(d, b)' => Busy(d, b) /\ toggle'[d] = toggle[d]
    BY DEF Busy
<1>2. \A d \in Toggles : Busy(d, b) => Busy(d, b)' /\ toggle'[d] = toggle[d]
    BY DEF Busy
<1>3. Counted(b, TRUE)' = Counted(b, TRUE) /\ Counted(b, FALSE)' = Counted(b, FALSE)
    BY <1>1, <1>2 DEF Counted, Busy
<1>4. Alone(b)'
    BY <1>1 DEF Alone
<1>5. Ups(b)' = Ups(b) /\ Downs(b)' = Downs(b) /\ Members(b)' = Members(b)
    BY <1>3 DEF Ups, Downs, Members
<1>6. Balanced(b)'
    BY <1>5 DEF Balanced
<1> QED
    BY <1>4, <1>6

\* Nobody is toggling and the sets are empty.
LEMMA LikesInvInit == LikesInit => LikesInv
<1> SUFFICES ASSUME LikesInit PROVE LikesInv
    OBVIOUS
<1>1. LikesTypeOK
    BY GivenAssumption, ToggleBounds DEF LikesInit, LikesTypeOK
<1>2. ASSUME NEW b \in Posts PROVE Alone(b) /\ Balanced(b)
  <2>1. Alone(b)
    BY DEF LikesInit, Alone, Busy
  <2>2. Counted(b, TRUE) = {} /\ Counted(b, FALSE) = {} /\ likers[b] = {} /\ liked[b] = Given[b]
    BY DEF LikesInit, Counted
  <2>3. Ups(b) = 0 /\ Downs(b) = 0 /\ Members(b) = 0
    BY <2>2, FS_EmptySet DEF Ups, Downs, Members
  <2>4. Given[b] \in Nat
    BY GivenAssumption
  <2>5. Balanced(b)
    BY <2>2, <2>3, <2>4 DEF Balanced
  <2> QED
    BY <2>1, <2>5
<1> QED
    BY <1>1, <1>2 DEF LikesInv

\* A toggle begins with what the set says of its user.
LEMMA ReadScoreKeeps ==
    ASSUME LikesInv, NEW c \in Toggles, NEW u \in Likers, NEW b \in Posts, ReadScore(c, u, b)
    PROVE  LikesInv'
<1> DEFINE q == [pc |-> "count", user |-> u, post |-> b, first |-> u \notin likers[b]]
<1>1. (u \notin likers[b]) \in BOOLEAN
    OBVIOUS
<1>2. /\ q \in Toggling /\ q # NoToggle /\ q.pc = "count" /\ q.user = u /\ q.post = b
      /\ q.first = (u \notin likers[b])
    BY <1>1 DEF Toggling, NoToggle
<1>3. /\ toggle' = [toggle EXCEPT ![c] = q] /\ toggle[c] = NoToggle
      /\ tangled' = IF TogglesOf(u, b) = {} THEN tangled ELSE tangled \cup {b}
      /\ UNCHANGED <<liked, likers, cuts>>
    BY DEF ReadScore
<1> HIDE DEF q
<1>4. toggle'[c] = q /\ \A d \in Toggles \ {c} : toggle'[d] = toggle[d]
    BY <1>3 DEF LikesInv, LikesTypeOK
<1>5. LikesTypeOK'
    BY <1>2, <1>3, ToggleBounds DEF LikesInv, LikesTypeOK, ReadScore
<1>6. Alone(b) /\ Balanced(b)
    BY DEF LikesInv
<1>7. b \notin tangled' => b \notin tangled /\ \A d \in Toggles : Busy(d, b) => toggle[d].user # u
    BY <1>3 DEF TogglesOf, Busy
<1>8. \A d \in Toggles \ {c} : Busy(d, b)' <=> Busy(d, b)
    BY <1>4 DEF Busy
<1>9. Alone(b)'
  <2> SUFFICES ASSUME b \notin tangled'
               PROVE  /\ \A d, e \in Toggles :
                           Busy(d, b)' /\ Busy(e, b)' /\ toggle'[d].user = toggle'[e].user => d = e
                      /\ \A d \in Toggles :
                           Busy(d, b)' => (toggle'[d].first <=> toggle'[d].user \notin likers'[b])
    BY DEF Alone
  <2>1. ASSUME NEW d \in Toggles, NEW e \in Toggles, Busy(d, b)', Busy(e, b)',
               toggle'[d].user = toggle'[e].user
        PROVE  d = e
    <3>1. CASE d # c /\ e # c
      BY <1>4, <1>6, <1>7, <1>8, <2>1, <3>1 DEF Alone
    <3>2. CASE d = c /\ e # c
      BY <1>2, <1>4, <1>7, <1>8, <2>1, <3>2
    <3>3. CASE d # c /\ e = c
      BY <1>2, <1>4, <1>7, <1>8, <2>1, <3>3
    <3> QED
      BY <3>1, <3>2, <3>3
  <2>2. ASSUME NEW d \in Toggles, Busy(d, b)'
        PROVE  toggle'[d].first <=> toggle'[d].user \notin likers'[b]
    <3>1. CASE d # c
      BY <1>3, <1>4, <1>6, <1>7, <1>8, <2>2, <3>1 DEF Alone
    <3>2. CASE d = c
      BY <1>2, <1>3, <1>4, <3>2
    <3> QED
      BY <3>1, <3>2
  <2> QED
    BY <2>1, <2>2
<1>10. /\ Counted(b, TRUE)' = Counted(b, TRUE)
       /\ Counted(b, FALSE)' = Counted(b, FALSE)
    BY <1>2, <1>3, <1>4 DEF Counted
<1>14. Ups(b)' = Ups(b) /\ Downs(b)' = Downs(b) /\ Members(b)' = Members(b)
    BY <1>3, <1>10 DEF Ups, Downs, Members
<1>11. Balanced(b)'
    BY <1>3, <1>6, <1>7, <1>14 DEF Balanced
<1>12. ASSUME NEW a \in Posts, a # b PROVE Alone(a)' /\ Balanced(a)'
  <2>1. ~Busy(c, a) /\ ~Busy(c, a)'
    BY <1>2, <1>3, <1>4, <1>12 DEF Busy
  <2>2. a \notin tangled' => a \notin tangled
    BY <1>3
  <2>3. Alone(a) /\ Balanced(a) /\ liked'[a] = liked[a] /\ likers'[a] = likers[a]
    BY <1>3 DEF LikesInv
  <2> QED
    BY <1>4, <2>1, <2>2, <2>3, OtherPost
<1> QED
    BY <1>5, <1>9, <1>11, <1>12 DEF LikesInv

\* Users who are taking their like back are in the set, each with one toggle:
\* the toggles are no more than the members.
LEMMA TakersAreMembers ==
    ASSUME LikesInv, NEW b \in Posts \ tangled, NEW S \in SUBSET Toggles,
           \A d \in S : Busy(d, b) /\ toggle[d].first = FALSE
    PROVE  Cardinality(S) <= Cardinality(likers[b])
<1> DEFINE f == [d \in S |-> toggle[d].user]
<1>1. Alone(b)
    BY DEF LikesInv
<1>2. f \in [S -> likers[b]]
    BY <1>1, TogglingFields DEF Alone, LikesInv, Busy
<1>3. IsFiniteSet(S) /\ Cardinality(S) \in Nat
    BY LikersAssumption, FS_Subset, FS_CardinalityType
<1>4. IsFiniteSet(likers[b]) /\ Cardinality(likers[b]) \in Nat
    BY Finite DEF LikesInv
<1>5. \A x, y \in S : f[x] = f[y] => x = y
    BY <1>1 DEF Alone
<1> HIDE DEF f
<1>6. ~(Cardinality(likers[b]) < Cardinality(S))
    BY <1>2, <1>3, <1>4, <1>5, FS_PigeonHole
<1> QED
    BY <1>3, <1>4, <1>6

\* So the UPDATE that takes a like back finds one to take.
LEMMA DecrementFits ==
    ASSUME LikesInv, NEW c \in Toggles, toggle[c].pc = "count",
           toggle[c].post \notin tangled
    PROVE  liked[toggle[c].post] + Delta(c) >= 0
<1> PICK b \in Posts : b = toggle[c].post
    BY TogglingFields DEF LikesInv
<1> DEFINE S == Counted(b, FALSE)
<1>1. Balanced(b) /\ liked[b] \in Nat /\ Given[b] \in Nat
    BY GivenAssumption DEF LikesInv, LikesTypeOK
<1>2. /\ Cardinality(S) \in Nat /\ Cardinality(Counted(b, TRUE)) \in Nat /\ IsFiniteSet(S)
      /\ Cardinality(likers[b]) \in Nat
    BY Finite DEF LikesInv
<1>3. CASE toggle[c].first
    BY <1>1, <1>3 DEF Delta
<1>4. CASE ~toggle[c].first
  <2>1. toggle[c].first = FALSE /\ Busy(c, b)
    BY <1>4, TogglingFields DEF LikesInv, Busy
  <2>2. c \notin S /\ S \subseteq Toggles
    BY DEF Counted
  <2>3. Cardinality(S \cup {c}) = Cardinality(S) + 1
    BY <1>2, <2>2, FS_AddElement
  <2>4. \A d \in S : Busy(d, b) /\ toggle[d].first = FALSE
    BY DEF Counted, Busy
  <2> HIDE DEF S
  <2>5. Cardinality(S \cup {c}) <= Cardinality(likers[b])
    BY <2>1, <2>2, <2>4, TakersAreMembers
  <2>6. liked[b] + Downs(b) = Given[b] + Members(b) + Ups(b)
    BY <1>1 DEF Balanced
  <2>7. Downs(b) = Cardinality(S) /\ Members(b) = Cardinality(likers[b])
    BY DEF Downs, Members, S
  <2>8. /\ Downs(b) \in Nat /\ Members(b) \in Nat /\ Ups(b) \in Nat
        /\ Downs(b) + 1 <= Members(b)
    BY Finite, <2>3, <2>5, <2>7 DEF LikesInv
  <2>9. liked[b] >= 1
    BY <1>1, <2>6, <2>8
  <2> QED
    BY <1>1, <1>4, <2>9 DEF Delta
<1> QED
    BY <1>3, <1>4

\* UPDATE moves the column, and the toggle among those that are counted.
LEMMA CountKeeps ==
    ASSUME LikesInv, NEW c \in Toggles, Count(c)
    PROVE  LikesInv'
<1>1. toggle[c].pc = "count" /\ toggle[c] \in Toggling /\ toggle[c] # NoToggle
    BY TogglingFields DEF Count, LikesInv
<1> PICK b \in Posts : b = toggle[c].post
    BY <1>1 DEF Toggling
<1>2. /\ Alone(b) /\ Balanced(b) /\ liked[b] \in Nat /\ Given[b] \in Nat
      /\ Delta(c) = IF toggle[c].first THEN 1 ELSE -1
    BY GivenAssumption DEF LikesInv, LikesTypeOK, Delta
<1>3. UNCHANGED <<likers, tangled, toggled, cuts>>
    BY DEF Count
<1>4. CASE liked[b] + Delta(c) < 0
  <2>1. b \in tangled /\ toggle' = [toggle EXCEPT ![c] = NoToggle] /\ liked' = liked
    BY <1>1, <1>2, <1>4, DecrementFits DEF Count, Answer
  <2>2. toggle'[c] = NoToggle /\ \A d \in Toggles \ {c} : toggle'[d] = toggle[d]
    BY <2>1 DEF LikesInv, LikesTypeOK
  <2>3. LikesTypeOK'
    BY <1>3, <2>1 DEF LikesInv, LikesTypeOK
  <2>4. ASSUME NEW a \in Posts PROVE Alone(a)' /\ Balanced(a)'
    <3>1. CASE a = b
      BY <1>3, <2>1, <3>1 DEF Alone, Balanced
    <3>2. CASE a # b
      <4>1. ~Busy(c, a) /\ ~Busy(c, a)'
        BY <2>2, <3>2 DEF Busy
      <4>2. Alone(a) /\ Balanced(a)
        BY DEF LikesInv
      <4> QED
        BY <1>3, <2>1, <2>2, <4>1, <4>2, OtherPost
    <3> QED
      BY <3>1, <3>2
  <2> QED
    BY <2>3, <2>4 DEF LikesInv
<1>5. CASE ~(liked[b] + Delta(c) < 0)
  <2> DEFINE q == [toggle[c] EXCEPT !.pc = "mark"]
             n == liked[b] + Delta(c)
  <2>1. /\ q \in Toggling /\ q # NoToggle /\ q.pc = "mark" /\ q.user = toggle[c].user
        /\ q.post = b /\ q.first = toggle[c].first
    BY <1>1 DEF Toggling, NoToggle
  <2>2. toggle' = [toggle EXCEPT ![c] = q] /\ liked' = [liked EXCEPT ![b] = n]
    BY <1>5 DEF Count, LikesInv, LikesTypeOK
  <2>3. n \in Nat /\ n = liked[b] + Delta(c)
    BY <1>2, <1>5
  <2> HIDE DEF q, n
  <2>4. /\ toggle'[c] = q /\ \A d \in Toggles \ {c} : toggle'[d] = toggle[d]
        /\ liked'[b] = n /\ \A a \in Posts \ {b} : liked'[a] = liked[a]
    BY <2>2 DEF LikesInv, LikesTypeOK
  <2>5. LikesTypeOK'
    BY <1>3, <2>1, <2>2, <2>3 DEF LikesInv, LikesTypeOK
  <2>6. \A d \in Toggles : /\ Busy(d, b)' <=> Busy(d, b)
                           /\ Busy(d, b) => toggle'[d].user = toggle[d].user
                                            /\ toggle'[d].first = toggle[d].first
    BY <1>1, <2>1, <2>4 DEF Busy
  <2>7. Alone(b)'
    BY <1>2, <1>3, <2>6 DEF Alone
  <2>8. Balanced(b)'
    <3>1. c \notin Counted(b, TRUE) /\ c \notin Counted(b, FALSE)
      BY <1>1 DEF Counted
    <3>2. CASE toggle[c].first
      <4>1. Counted(b, TRUE)' = Counted(b, TRUE) \cup {c}
        BY <1>1, <2>1, <2>4, <3>2, TogglingFields DEF Counted, LikesInv
      <4>2. Counted(b, FALSE)' = Counted(b, FALSE)
        BY <1>1, <2>1, <2>4, <3>2, TogglingFields DEF Counted, LikesInv
      <4>3. Cardinality(Counted(b, TRUE)') = Cardinality(Counted(b, TRUE)) + 1
        BY <3>1, <4>1, Finite, FS_AddElement DEF LikesInv
      <4>4. liked'[b] = liked[b] + 1
        BY <1>2, <2>3, <2>4, <3>2
      <4>5. Ups(b)' = Ups(b) + 1 /\ Downs(b)' = Downs(b) /\ Members(b)' = Members(b)
        BY <1>3, <4>2, <4>3 DEF Ups, Downs, Members
      <4>6. Ups(b) \in Nat /\ Downs(b) \in Nat /\ Members(b) \in Nat
        BY Finite DEF LikesInv
      <4> HIDE DEF Ups, Downs, Members
      <4> QED
        BY <1>2, <1>3, <4>4, <4>5, <4>6 DEF Balanced
    <3>3. CASE ~toggle[c].first
      <4>1. Counted(b, FALSE)' = Counted(b, FALSE) \cup {c}
        BY <1>1, <2>1, <2>4, <3>3, TogglingFields DEF Counted, LikesInv
      <4>2. Counted(b, TRUE)' = Counted(b, TRUE)
        BY <1>1, <2>1, <2>4, <3>3, TogglingFields DEF Counted, LikesInv
      <4>3. Cardinality(Counted(b, FALSE)') = Cardinality(Counted(b, FALSE)) + 1
        BY <3>1, <4>1, Finite, FS_AddElement DEF LikesInv
      <4>4. liked'[b] = liked[b] - 1
        BY <1>2, <2>3, <2>4, <3>3
      <4>5. Downs(b)' = Downs(b) + 1 /\ Ups(b)' = Ups(b) /\ Members(b)' = Members(b)
        BY <1>3, <4>2, <4>3 DEF Ups, Downs, Members
      <4>6. Ups(b) \in Nat /\ Downs(b) \in Nat /\ Members(b) \in Nat
        BY Finite DEF LikesInv
      <4> HIDE DEF Ups, Downs, Members
      <4> QED
        BY <1>2, <1>3, <4>4, <4>5, <4>6 DEF Balanced
    <3> QED
      BY <3>2, <3>3
  <2>9. ASSUME NEW a \in Posts, a # b PROVE Alone(a)' /\ Balanced(a)'
    <3>1. ~Busy(c, a) /\ ~Busy(c, a)'
      BY <2>1, <2>4, <2>9 DEF Busy
    <3>2. Alone(a) /\ Balanced(a)
      BY DEF LikesInv
    <3> QED
      BY <1>3, <2>4, <2>9, <3>1, <3>2, OtherPost
  <2> QED
    BY <2>5, <2>7, <2>8, <2>9 DEF LikesInv
<1> QED
    BY <1>4, <1>5

\* ZADD or ZREM moves the user into the set or out of it, and the toggle out of
\* those that are counted.
LEMMA MarkKeeps ==
    ASSUME LikesInv, NEW c \in Toggles, Mark(c)
    PROVE  LikesInv'
<1>1. toggle[c].pc = "mark" /\ toggle[c] \in Toggling /\ toggle[c] # NoToggle
    BY TogglingFields DEF Mark, LikesInv
<1> PICK b \in Posts : b = toggle[c].post
    BY <1>1 DEF Toggling
<1> PICK u \in Likers : u = toggle[c].user
    BY <1>1 DEF Toggling
<1> DEFINE s == IF toggle[c].first THEN likers[b] \cup {u} ELSE likers[b] \ {u}
<1>2. Alone(b) /\ Balanced(b) /\ liked[b] \in Nat /\ Given[b] \in Nat /\ likers[b] \subseteq Likers
    BY GivenAssumption DEF LikesInv, LikesTypeOK
<1>3. /\ likers' = [likers EXCEPT ![b] = s] /\ toggle' = [toggle EXCEPT ![c] = NoToggle]
      /\ UNCHANGED <<liked, tangled, toggled, cuts>>
    BY DEF Mark, Answer, LikesInv, LikesTypeOK
<1>4. s \subseteq Likers
    BY <1>2
<1>5. /\ toggle'[c] = NoToggle /\ \A d \in Toggles \ {c} : toggle'[d] = toggle[d]
      /\ likers'[b] = s /\ \A a \in Posts \ {b} : likers'[a] = likers[a]
    BY <1>3, <1>4 DEF LikesInv, LikesTypeOK
<1>6. LikesTypeOK'
    BY <1>3, <1>4 DEF LikesInv, LikesTypeOK
<1>7. \A d \in Toggles : Busy(d, b)' => d # c /\ Busy(d, b) /\ toggle'[d] = toggle[d]
    BY <1>5 DEF Busy
<1>8. Busy(c, b)
    BY <1>1 DEF Busy
<1>9. ASSUME NEW d \in Toggles, Busy(d, b)', b \notin tangled
      PROVE  toggle'[d].first <=> toggle'[d].user \notin likers'[b]
  <2>1. toggle[d].user # u
    BY <1>2, <1>7, <1>8, <1>9 DEF Alone
  <2>2. toggle[d].user \in s <=> toggle[d].user \in likers[b]
    BY <2>1
  <2> HIDE DEF s
  <2> QED
    BY <1>2, <1>5, <1>7, <1>9, <2>2 DEF Alone
<1>10. Alone(b)'
    BY <1>2, <1>3, <1>7, <1>9 DEF Alone
<1>11. ASSUME b \notin tangled PROVE Balanced(b)'
  <2>1. IsFiniteSet(likers[b]) /\ Cardinality(likers[b]) \in Nat
    BY Finite DEF LikesInv
  <2>2. /\ IsFiniteSet(Counted(b, TRUE)) /\ Cardinality(Counted(b, TRUE)) \in Nat
        /\ IsFiniteSet(Counted(b, FALSE)) /\ Cardinality(Counted(b, FALSE)) \in Nat
    BY Finite DEF LikesInv
  <2>3. /\ liked[b] + Downs(b) = Given[b] + Members(b) + Ups(b)
        /\ Ups(b) \in Nat /\ Downs(b) \in Nat /\ Members(b) \in Nat
    BY <1>2, <1>11, Finite DEF Balanced, LikesInv
  <2>4. toggle[c].first <=> u \notin likers[b]
    BY <1>2, <1>8, <1>11 DEF Alone
  <2>5. CASE toggle[c].first
    <3>1. s = likers[b] \cup {u} /\ u \notin likers[b]
      BY <2>4, <2>5
    <3>2. Counted(b, TRUE)' = Counted(b, TRUE) \ {c} /\ c \in Counted(b, TRUE)
      BY <1>1, <1>5, <2>5, TogglingFields DEF Counted, LikesInv
    <3>3. Counted(b, FALSE)' = Counted(b, FALSE)
      BY <1>1, <1>5, <2>5, TogglingFields DEF Counted, LikesInv
    <3>4. Cardinality(likers'[b]) = Cardinality(likers[b]) + 1
      BY <1>5, <2>1, <3>1, FS_AddElement
    <3>5. Cardinality(Counted(b, TRUE)') = Cardinality(Counted(b, TRUE)) - 1
      <4>1. PICK S : S = Counted(b, TRUE)
        OBVIOUS
      <4>2. IsFiniteSet(S) /\ c \in S
        BY <2>2, <3>2, <4>1
      <4>3. Cardinality(S \ {c}) = Cardinality(S) - 1
        BY <4>2, FS_RemoveElement
      <4> QED  BY <3>2, <4>1, <4>3
    <3>6. /\ Ups(b)' = Ups(b) - 1 /\ Downs(b)' = Downs(b)
          /\ Members(b)' = Members(b) + 1
      BY <3>3, <3>4, <3>5 DEF Ups, Downs, Members
    <3> QED
      BY <1>2, <1>3, <2>3, <3>6 DEF Balanced
  <2>6. CASE ~toggle[c].first
    <3>1. s = likers[b] \ {u} /\ u \in likers[b]
      BY <2>4, <2>6
    <3>7. Cardinality(likers[b] \ {u}) = Cardinality(likers[b]) - 1
      BY <2>1, <3>1, FS_RemoveElement
    <3> HIDE DEF s
    <3>2. Counted(b, FALSE)' = Counted(b, FALSE) \ {c} /\ c \in Counted(b, FALSE)
      BY <1>1, <1>5, <2>6, TogglingFields DEF Counted, LikesInv
    <3>3. Counted(b, TRUE)' = Counted(b, TRUE)
      BY <1>1, <1>5, <2>6, TogglingFields DEF Counted, LikesInv
    <3>4. Cardinality(likers'[b]) = Cardinality(likers[b]) - 1
      BY <1>5, <3>1, <3>7
    <3>5. Cardinality(Counted(b, FALSE)') = Cardinality(Counted(b, FALSE)) - 1
      <4>1. PICK S : S = Counted(b, FALSE)
        OBVIOUS
      <4>2. IsFiniteSet(S) /\ c \in S
        BY <2>2, <3>2, <4>1
      <4>3. Cardinality(S \ {c}) = Cardinality(S) - 1
        BY <4>2, FS_RemoveElement
      <4> QED  BY <3>2, <4>1, <4>3
    <3>6. /\ Downs(b)' = Downs(b) - 1 /\ Ups(b)' = Ups(b)
          /\ Members(b)' = Members(b) - 1
      BY <3>3, <3>4, <3>5 DEF Ups, Downs, Members
    <3> QED
      BY <1>2, <1>3, <2>3, <3>6 DEF Balanced
  <2> QED
    BY <2>5, <2>6
<1>12. Balanced(b)'
    BY <1>3, <1>11 DEF Balanced
<1>13. ASSUME NEW a \in Posts, a # b PROVE Alone(a)' /\ Balanced(a)'
  <2>1. ~Busy(c, a) /\ ~Busy(c, a)'
    BY <1>5, <1>13 DEF Busy
  <2>2. Alone(a) /\ Balanced(a)
    BY DEF LikesInv
  <2> QED
    BY <1>3, <1>5, <1>13, <2>1, <2>2, OtherPost
<1> QED
    BY <1>6, <1>10, <1>12, <1>13 DEF LikesInv

\* A toggle that is cut off after its UPDATE tangles its post.
LEMMA CutToggleKeeps ==
    ASSUME LikesInv, NEW c \in Toggles, CutToggle(c)
    PROVE  LikesInv'
<1>1. toggle[c] # NoToggle /\ toggle[c] \in Toggling
    BY TogglingFields DEF CutToggle, LikesInv
<1> PICK b \in Posts : b = toggle[c].post
    BY <1>1 DEF Toggling
<1>2. /\ toggle' = [toggle EXCEPT ![c] = NoToggle]
      /\ tangled' = IF toggle[c].pc = "mark" THEN tangled \cup {b} ELSE tangled
      /\ UNCHANGED <<liked, likers, toggled>>
    BY DEF CutToggle, Answer
<1>3. toggle'[c] = NoToggle /\ \A d \in Toggles \ {c} : toggle'[d] = toggle[d]
    BY <1>2 DEF LikesInv, LikesTypeOK
<1>4. LikesTypeOK'
    BY <1>2, ToggleBounds DEF LikesInv, LikesTypeOK, CutToggle
<1>5. Alone(b) /\ Balanced(b)
    BY DEF LikesInv
<1>6. \A d \in Toggles : Busy(d, b)' => Busy(d, b) /\ toggle'[d] = toggle[d]
    BY <1>3 DEF Busy
<1>7. Alone(b)'
    BY <1>2, <1>5, <1>6 DEF Alone
<1>8. toggle[c].pc # "mark" =>
        Counted(b, TRUE)' = Counted(b, TRUE) /\ Counted(b, FALSE)' = Counted(b, FALSE)
    BY <1>3 DEF Counted
<1>9. Balanced(b)'
  <2>1. CASE toggle[c].pc = "mark"
    BY <1>2, <2>1 DEF Balanced
  <2>2. CASE toggle[c].pc # "mark"
    <3>1. Ups(b)' = Ups(b) /\ Downs(b)' = Downs(b) /\ Members(b)' = Members(b)
      BY <1>2, <1>8, <2>2 DEF Ups, Downs, Members
    <3> QED
      BY <1>2, <1>5, <2>2, <3>1 DEF Balanced
  <2> QED
    BY <2>1, <2>2
<1>10. ASSUME NEW a \in Posts, a # b PROVE Alone(a)' /\ Balanced(a)'
  <2>1. ~Busy(c, a) /\ ~Busy(c, a)'
    BY <1>3, <1>10 DEF Busy
  <2>2. Alone(a) /\ Balanced(a) /\ (a \notin tangled' => a \notin tangled)
    BY <1>2 DEF LikesInv
  <2> QED
    BY <1>2, <1>3, <2>1, <2>2, OtherPost
<1> QED
    BY <1>4, <1>7, <1>9, <1>10 DEF LikesInv

\* Every step of the toggles keeps the invariant.
LEMMA LikesInvNext == LikesInv /\ [LikesNext]_likesVars => LikesInv'
<1> SUFFICES ASSUME LikesInv, [LikesNext]_likesVars PROVE LikesInv'
    OBVIOUS
<1>1. CASE LikesNext
    BY <1>1, ReadScoreKeeps, CountKeeps, MarkKeeps, CutToggleKeeps DEF LikesNext
<1>2. CASE UNCHANGED likesVars
  <2>1. \A b \in Posts : Counted(b, TRUE)' = Counted(b, TRUE) /\ Counted(b, FALSE)' = Counted(b, FALSE)
    BY <1>2 DEF likesVars, Counted
  <2>2. LikesTypeOK'
    BY <1>2 DEF likesVars, LikesInv, LikesTypeOK
  <2>3. ASSUME NEW b \in Posts PROVE Alone(b)' /\ Balanced(b)'
    <3>1. Alone(b)'
      BY <1>2 DEF likesVars, LikesInv, Alone, Busy
    <3>2. Ups(b)' = Ups(b) /\ Downs(b)' = Downs(b) /\ Members(b)' = Members(b)
      BY <1>2, <2>1 DEF likesVars, Ups, Downs, Members
    <3>3. Balanced(b)'
      BY <1>2, <3>2 DEF likesVars, LikesInv, Balanced
    <3> QED
      BY <3>1, <3>3
  <2> QED
    BY <2>2, <2>3 DEF LikesInv
<1> QED
    BY <1>1, <1>2

\* UpdateLike keeps the column equal to the set, for any number of users who
\* toggle the same post at once.
THEOREM LikesAreCounted == LikesSpec => []ColumnCountsSet
<1>1. LikesInit => LikesInv
    BY LikesInvInit
<1>2. LikesInv /\ [LikesNext]_likesVars => LikesInv'
    BY LikesInvNext
<1>3. LikesInv => ColumnCountsSet
    BY DEF LikesInv, Balanced, ColumnCountsSet, Ups, Downs, Members
<1> QED
    BY <1>1, <1>2, <1>3, PTL DEF LikesSpec

\* The unsigned column never refuses to give a like back.
THEOREM UnlikeAlwaysWorks == LikesSpec => []UnlikeWorks
<1>1. LikesInit => LikesInv
    BY LikesInvInit
<1>2. LikesInv /\ [LikesNext]_likesVars => LikesInv'
    BY LikesInvNext
<1>3. LikesInv => UnlikeWorks
    BY DecrementFits DEF UnlikeWorks
<1> QED
    BY <1>1, <1>2, <1>3, PTL DEF LikesSpec

\* Both together: whatever users toggle at once, column and set agree and a
\* like can be taken back.
THEOREM LikesAlwaysAgree == LikesSpec => []LikesAgree
<1>1. ColumnCountsSet /\ UnlikeWorks => LikesAgree
    BY DEF LikesAgree
<1> QED
    BY <1>1, LikesAreCounted, UnlikeAlwaysWorks, PTL

-----------------------------------------------------------------------------
(* Follows *)

\* Call c has changed the rows of a pair and not yet the set.
Open(c, f, a) == following[c] # NoFollow /\ following[c].pair = <<f, a>>

\* A pair that is not torn has one call at most between row and set, and that
\* call is about to write what the row says.
PairOK(f, a) ==
    <<f, a>> \notin torn =>
        /\ \A c, d \in FollowCalls : Open(c, f, a) /\ Open(d, f, a) => c = d
        /\ \A c \in FollowCalls : Open(c, f, a) => (following[c].isFollow <=> rows[<<f, a>>] > 0)
        /\ (\A c \in FollowCalls : ~Open(c, f, a)) => (a \in follows[f] <=> rows[<<f, a>>] > 0)

FollowsInv == FollowsTypeOK /\ \A f \in Fans, a \in Authors : PairOK(f, a)

\* A call that is not idle has a pair.
LEMMA FollowingFields ==
    ASSUME FollowsTypeOK, NEW c \in FollowCalls
    PROVE  /\ following[c].pc = "set" <=> following[c] # NoFollow
           /\ following[c] # NoFollow =>
                following[c].pair \in Pairs /\ following[c].isFollow \in BOOLEAN
    BY DEF FollowsTypeOK, NoFollow, Following

\* Nobody is following, and the sets are made from the rows.
LEMMA FollowsInvInit == FollowsInit => FollowsInv
<1> SUFFICES ASSUME FollowsInit PROVE FollowsInv
    OBVIOUS
<1>1. FollowsTypeOK
    BY FollowBounds DEF FollowsInit, FollowsTypeOK
<1>2. ASSUME NEW f \in Fans, NEW a \in Authors PROVE PairOK(f, a)
    BY DEF FollowsInit, PairOK, Open
<1> QED
    BY <1>1, <1>2 DEF FollowsInv

\* A row is stored or all are deleted: the call owes the set the same.
LEMMA StoreFollowKeeps ==
    ASSUME FollowsInv, NEW c \in FollowCalls, NEW p \in Pairs, NEW way \in BOOLEAN,
           StoreFollow(c, p, way)
    PROVE  FollowsInv'
<1> DEFINE q == [pc |-> "set", pair |-> p, isFollow |-> way]
           n == IF way THEN rows[p] + 1 ELSE 0
<1>1. q \in Following /\ q # NoFollow /\ q.pair = p /\ q.isFollow = way
    BY DEF Following, NoFollow
<1>2. /\ rows[p] \in Nat /\ n \in Nat /\ (n > 0 <=> way)
    BY DEF FollowsInv, FollowsTypeOK
<1>3. /\ following' = [following EXCEPT ![c] = q] /\ following[c] = NoFollow
      /\ rows' = [rows EXCEPT ![p] = n]
      /\ torn' = IF OpenOn(p) = {} THEN torn ELSE torn \cup {p}
      /\ UNCHANGED follows
    BY DEF StoreFollow
<1> HIDE DEF q, n
<1>4. /\ following'[c] = q /\ \A d \in FollowCalls \ {c} : following'[d] = following[d]
      /\ rows'[p] = n /\ \A o \in Pairs \ {p} : rows'[o] = rows[o]
    BY <1>3 DEF FollowsInv, FollowsTypeOK
<1>5. FollowsTypeOK'
    BY <1>1, <1>2, <1>3, FollowBounds DEF FollowsInv, FollowsTypeOK, StoreFollow
<1>6. ASSUME NEW f \in Fans, NEW a \in Authors PROVE PairOK(f, a)'
  <2>1. PairOK(f, a) /\ <<f, a>> \in Pairs
    BY DEF FollowsInv, Pairs
  <2>2. CASE p = <<f, a>>
    <3>1. <<f, a>> \notin torn' => \A d \in FollowCalls : ~Open(d, f, a)
      BY <1>3, <2>2 DEF OpenOn, Open
    <3>2. Open(c, f, a)' /\ \A d \in FollowCalls \ {c} : Open(d, f, a)' <=> Open(d, f, a)
      BY <1>1, <1>4, <2>2 DEF Open
    <3>3. following'[c].isFollow = way /\ (rows'[<<f, a>>] > 0 <=> way)
      BY <1>1, <1>2, <1>4, <2>2
    <3> QED
      BY <3>1, <3>2, <3>3 DEF PairOK
  <2>3. CASE p # <<f, a>>
    <3>1. /\ ~Open(c, f, a) /\ ~Open(c, f, a)'
          /\ \A d \in FollowCalls \ {c} : Open(d, f, a)' <=> Open(d, f, a)
      BY <1>1, <1>3, <1>4, <2>3 DEF Open
    <3>2. rows'[<<f, a>>] = rows[<<f, a>>] /\ (<<f, a>> \notin torn' => <<f, a>> \notin torn)
      BY <1>3, <1>4, <2>1, <2>3
    <3> QED
      BY <1>3, <1>4, <2>1, <3>1, <3>2 DEF PairOK
  <2> QED
    BY <2>2, <2>3
<1> QED
    BY <1>5, <1>6 DEF FollowsInv

\* The set takes what the row says.
LEMMA MarkFollowKeeps ==
    ASSUME FollowsInv, NEW c \in FollowCalls, MarkFollow(c)
    PROVE  FollowsInv'
<1>1. following[c] # NoFollow /\ following[c].isFollow \in BOOLEAN /\ following[c].pair \in Pairs
    BY FollowingFields DEF MarkFollow, FollowsInv
<1> PICK g \in Fans, b \in Authors : following[c].pair = <<g, b>>
    BY <1>1 DEF Pairs
<1> DEFINE s == IF following[c].isFollow THEN follows[g] \cup {b} ELSE follows[g] \ {b}
<1>2. /\ follows' = [follows EXCEPT ![g] = s] /\ following' = [following EXCEPT ![c] = NoFollow]
      /\ UNCHANGED <<rows, torn, followed, followFaults>>
    BY DEF MarkFollow, FollowsInv, FollowsTypeOK
<1>3. /\ s \subseteq Authors /\ (b \in s <=> following[c].isFollow)
      /\ \A a \in Authors \ {b} : a \in s <=> a \in follows[g]
    BY <1>1 DEF FollowsInv, FollowsTypeOK
<1> HIDE DEF s
<1>4. /\ following'[c] = NoFollow /\ \A d \in FollowCalls \ {c} : following'[d] = following[d]
      /\ follows'[g] = s /\ \A f \in Fans \ {g} : follows'[f] = follows[f]
    BY <1>2 DEF FollowsInv, FollowsTypeOK
<1>5. FollowsTypeOK'
    BY <1>2, <1>3 DEF FollowsInv, FollowsTypeOK
<1>6. ASSUME NEW f \in Fans, NEW a \in Authors PROVE PairOK(f, a)'
  <2>1. PairOK(f, a)
    BY DEF FollowsInv
  <2>2. ~Open(c, f, a)' /\ \A d \in FollowCalls \ {c} : Open(d, f, a)' <=> Open(d, f, a)
    BY <1>4 DEF Open
  <2>3. CASE f = g /\ a = b
    <3>1. Open(c, f, a)
      BY <1>1, <2>3 DEF Open
    <3>2. a \in follows'[f] <=> following[c].isFollow
      BY <1>3, <1>4, <2>3
    <3> QED
      BY <1>2, <1>4, <2>1, <2>2, <3>1, <3>2 DEF PairOK
  <2>4. CASE ~(f = g /\ a = b)
    <3>1. ~Open(c, f, a)
      BY <2>4 DEF Open
    <3>2. a \in follows'[f] <=> a \in follows[f]
      BY <1>3, <1>4, <2>4
    <3> QED
      BY <1>2, <1>4, <2>1, <2>2, <3>1, <3>2 DEF PairOK
  <2> QED
    BY <2>3, <2>4
<1> QED
    BY <1>5, <1>6 DEF FollowsInv

\* A call that is cut off tears its pair.
LEMMA CutFollowKeeps ==
    ASSUME FollowsInv, NEW c \in FollowCalls, CutFollow(c)
    PROVE  FollowsInv'
<1>1. following[c] # NoFollow /\ following[c].pair \in Pairs
    BY FollowingFields DEF CutFollow, FollowsInv
<1>2. /\ following' = [following EXCEPT ![c] = NoFollow] /\ torn' = torn \cup {following[c].pair}
      /\ UNCHANGED <<rows, follows, followed>>
    BY DEF CutFollow
<1>3. following'[c] = NoFollow /\ \A d \in FollowCalls \ {c} : following'[d] = following[d]
    BY <1>2 DEF FollowsInv, FollowsTypeOK
<1>4. FollowsTypeOK'
    BY <1>1, <1>2, FollowBounds DEF FollowsInv, FollowsTypeOK, CutFollow
<1>5. ASSUME NEW f \in Fans, NEW a \in Authors PROVE PairOK(f, a)'
  <2>1. PairOK(f, a)
    BY DEF FollowsInv
  <2>2. ~Open(c, f, a)' /\ \A d \in FollowCalls \ {c} : Open(d, f, a)' <=> Open(d, f, a)
    BY <1>3 DEF Open
  <2>3. <<f, a>> \notin torn' => <<f, a>> \notin torn /\ ~Open(c, f, a)
    BY <1>2 DEF Open
  <2> QED
    BY <1>2, <1>3, <2>1, <2>2, <2>3 DEF PairOK
<1> QED
    BY <1>4, <1>5 DEF FollowsInv

\* Every step of the follows keeps the invariant.
LEMMA FollowsInvNext == FollowsInv /\ [FollowsNext]_followVars => FollowsInv'
<1> SUFFICES ASSUME FollowsInv, [FollowsNext]_followVars PROVE FollowsInv'
    OBVIOUS
<1>1. CASE FollowsNext
    BY <1>1, StoreFollowKeeps, MarkFollowKeeps, CutFollowKeeps DEF FollowsNext
<1>2. CASE UNCHANGED followVars
  <2>1. FollowsTypeOK'
    BY <1>2 DEF followVars, FollowsInv, FollowsTypeOK
  <2>2. ASSUME NEW f \in Fans, NEW a \in Authors PROVE PairOK(f, a)'
    BY <1>2 DEF followVars, FollowsInv, PairOK, Open
  <2> QED
    BY <2>1, <2>2 DEF FollowsInv
<1> QED
    BY <1>1, <1>2

\* The sets that common follows are computed from and the table that IsFollow
\* reads agree, for any number of users, calls and cuts.
THEOREM FollowsAreTold == FollowsSpec => []FollowsAgree
<1>1. FollowsInit => FollowsInv
    BY FollowsInvInit
<1>2. FollowsInv /\ [FollowsNext]_followVars => FollowsInv'
    BY FollowsInvNext
<1>3. FollowsInv => FollowsAgree
  <2> SUFFICES ASSUME FollowsInv, NEW f \in Fans, NEW a \in Authors, <<f, a>> \notin torn
               PROVE  /\ OpenOn(<<f, a>>) = {} => (a \in follows[f] <=> f \in FansOf(a))
                      /\ \A c \in OpenOn(<<f, a>>) : following[c].isFollow <=> f \in FansOf(a)
    BY DEF FollowsAgree
  <2>1. f \in FansOf(a) <=> rows[<<f, a>>] > 0
    BY DEF FansOf
  <2>2. \A c \in FollowCalls : c \in OpenOn(<<f, a>>) <=> Open(c, f, a)
    BY DEF OpenOn, Open
  <2>3. OpenOn(<<f, a>>) \subseteq FollowCalls
    BY DEF OpenOn
  <2>4. PairOK(f, a)
    BY DEF FollowsInv
  <2> QED
    BY <2>1, <2>2, <2>3, <2>4 DEF PairOK
<1> QED
    BY <1>1, <1>2, <1>3, PTL DEF FollowsSpec

-----------------------------------------------------------------------------
(* Publishing *)

PublishTypes ==
    /\ clock \in 1..MaxClock
    /\ post \in [Blogs -> PostType]
    /\ feed \in [Fans -> [Blogs -> Scores]]
    /\ witness \in [Blogs -> [always : SUBSET Fans, never : SUBSET Fans]]

\* While the fans of a blog are not read the witnesses are their judges; from
\* then on those who always followed have the blog or will, and the others
\* neither have it nor will.
PostOK(b) ==
    /\ post[b].pc \in {"draft", "stored"} => \A f \in Fans : feed[f][b] = 0
    /\ post[b].pc = "stored" =>
         /\ witness[b].always \subseteq FansOf(post[b].author)
         /\ \A f \in witness[b].never : f \notin FansOf(post[b].author)
    /\ post[b].pc = "push" =>
         /\ post[b].score > 0
         /\ \A f \in witness[b].always : f \in post[b].todo \/ feed[f][b] > 0
         /\ \A f \in witness[b].never : f \notin post[b].todo /\ feed[f][b] = 0
    /\ post[b].pc = "done" =>
         /\ \A f \in witness[b].always : feed[f][b] > 0
         /\ \A f \in witness[b].never : feed[f][b] = 0

PublishInv == PublishTypes /\ \A b \in Blogs : PostOK(b)

\* No blog has been written.
LEMMA PublishInvInit == FeedInit => PublishInv
<1> SUFFICES ASSUME FeedInit PROVE PublishInv
    OBVIOUS
<1>1. NoPost \in PostType /\ NoPost.pc = "draft"
    BY AuthorsAssumption, FeedBounds DEF NoPost, PostType, Scores
<1>2. clock \in 1..MaxClock
    BY FeedBounds DEF FeedInit
<1>3. PublishTypes
    BY <1>1, <1>2, FeedBounds DEF FeedInit, PublishTypes, Scores
<1>4. ASSUME NEW b \in Blogs PROVE PostOK(b)
    BY <1>1 DEF FeedInit, PostOK
<1> QED
    BY <1>3, <1>4 DEF PublishInv

\* A step on one blog leaves the others alone.
LEMMA OtherBlogs ==
    ASSUME PublishInv, NEW b \in Blogs, PublishTypes', PostOK(b)', rows' = rows,
           \A c \in Blogs \ {b} :
              /\ post'[c] = post[c] /\ witness'[c] = witness[c]
              /\ \A f \in Fans : feed'[f][c] = feed[f][c]
    PROVE  PublishInv'
<1>1. ASSUME NEW c \in Blogs, c # b PROVE PostOK(c)'
  <2>1. PostOK(c) /\ witness[c].always \subseteq Fans /\ witness[c].never \subseteq Fans
    BY DEF PublishInv, PublishTypes
  <2> QED
    BY <1>1, <2>1 DEF PostOK, FansOf
<1> QED
    BY <1>1 DEF PublishInv

\* The row is stored; whoever follows now is a witness.
LEMMA StorePostKeeps ==
    ASSUME PublishInv, NEW b \in Blogs, NEW a \in Authors, StorePost(b, a)
    PROVE  PublishInv'
<1> DEFINE q == [post[b] EXCEPT !.pc = "stored", !.author = a]
           w == [always |-> FansOf(a), never |-> Fans \ FansOf(a)]
<1>1. /\ post' = [post EXCEPT ![b] = q] /\ q \in PostType /\ q.pc = "stored" /\ q.author = a
      /\ post[b].pc = "draft"
    BY DEF StorePost, PublishInv, PublishTypes, PostType
<1>2. /\ witness' = [witness EXCEPT ![b] = w] /\ w.always = FansOf(a) /\ w.never = Fans \ FansOf(a)
      /\ w \in [always : SUBSET Fans, never : SUBSET Fans]
    BY DEF StorePost, FansOf
<1>3. rows' = rows /\ clock' = clock /\ feed' = feed
    BY DEF StorePost, followVars
<1> HIDE DEF q, w
<1>4. /\ post'[b] = q /\ witness'[b] = w
      /\ \A c \in Blogs \ {b} : post'[c] = post[c] /\ witness'[c] = witness[c]
    BY <1>1, <1>2 DEF PublishInv, PublishTypes
<1>5. PublishTypes'
    BY <1>1, <1>2, <1>3 DEF PublishInv, PublishTypes
<1>6. FansOf(a)' = FansOf(a)
    BY <1>3 DEF FansOf
<1>7. PostOK(b)'
    BY <1>1, <1>2, <1>3, <1>4, <1>6 DEF PostOK, PublishInv, FansOf
<1> QED
    BY <1>3, <1>4, <1>5, <1>7, OtherBlogs

\* The fans that are read are those the witnesses tell of.
LEMMA ReadFansKeeps ==
    ASSUME PublishInv, NEW b \in Blogs, ReadFans(b)
    PROVE  PublishInv'
<1> DEFINE q == [post[b] EXCEPT !.pc = "push", !.score = clock, !.todo = FansOf(post[b].author)]
<1>1. /\ clock \in Scores /\ clock > 0 /\ FansOf(post[b].author) \subseteq Fans
    BY FeedBounds DEF PublishInv, PublishTypes, Scores, FansOf
<1>2. /\ post' = [post EXCEPT ![b] = q] /\ q \in PostType /\ q.pc = "push" /\ q.score = clock
      /\ q.todo = FansOf(post[b].author) /\ post[b].pc = "stored"
    BY <1>1 DEF ReadFans, PublishInv, PublishTypes, PostType
<1>3. rows' = rows /\ clock' = clock /\ feed' = feed /\ witness' = witness
    BY DEF ReadFans, followVars
<1> HIDE DEF q
<1>4. post'[b] = q /\ \A c \in Blogs \ {b} : post'[c] = post[c]
    BY <1>2 DEF PublishInv, PublishTypes
<1>5. PublishTypes'
    BY <1>2, <1>3 DEF PublishInv, PublishTypes
<1>6. /\ PostOK(b) /\ witness[b].always \subseteq Fans /\ witness[b].never \subseteq Fans
    BY DEF PublishInv, PublishTypes
<1>7. PostOK(b)'
    BY <1>1, <1>2, <1>3, <1>4, <1>6 DEF PostOK
<1> QED
    BY <1>3, <1>4, <1>5, <1>7, OtherBlogs

\* A fan who had the blog to come has it.
LEMMA PushKeeps ==
    ASSUME PublishInv, NEW b \in Blogs, NEW g \in Fans, Push(b, g)
    PROVE  PublishInv'
<1> DEFINE q == [post[b] EXCEPT !.todo = @ \ {g}]
           n == post[b].score
           mine == [feed[g] EXCEPT ![b] = n]
<1>1. /\ post' = [post EXCEPT ![b] = q] /\ q \in PostType /\ q.pc = "push" /\ q.score = n
      /\ q.todo = post[b].todo \ {g} /\ post[b].pc = "push" /\ g \in post[b].todo
    BY DEF Push, PublishInv, PublishTypes, PostType
<1>2. /\ feed' = [feed EXCEPT ![g] = mine] /\ n \in Scores /\ mine \in [Blogs -> Scores]
      /\ mine[b] = n /\ \A c \in Blogs \ {b} : mine[c] = feed[g][c]
    BY DEF Push, PublishInv, PublishTypes, PostType
<1>3. rows' = rows /\ clock' = clock /\ witness' = witness
    BY DEF Push, followVars
<1> HIDE DEF q, n, mine
<1>4. /\ post'[b] = q /\ \A c \in Blogs \ {b} : post'[c] = post[c]
      /\ feed'[g] = mine /\ \A f \in Fans \ {g} : feed'[f] = feed[f]
    BY <1>1, <1>2 DEF PublishInv, PublishTypes
<1>5. PublishTypes'
    BY <1>1, <1>2, <1>3 DEF PublishInv, PublishTypes
<1>6. \A c \in Blogs \ {b} : \A f \in Fans : feed'[f][c] = feed[f][c]
    BY <1>2, <1>4
<1>7. /\ PostOK(b) /\ witness[b].always \subseteq Fans /\ witness[b].never \subseteq Fans
    BY DEF PublishInv, PublishTypes
<1>8. n > 0
    BY <1>1, <1>7 DEF PostOK, n
<1>9. PostOK(b)'
  <2>1. ASSUME NEW f \in witness[b].always PROVE f \in q.todo \/ feed'[f][b] > 0
    <3>1. CASE f = g
      BY <1>2, <1>4, <1>8, <3>1
    <3>2. CASE f # g
      BY <1>1, <1>4, <1>7, <2>1, <3>2 DEF PostOK
    <3> QED
      BY <3>1, <3>2
  <2>2. ASSUME NEW f \in witness[b].never PROVE f \notin q.todo /\ feed'[f][b] = 0
    BY <1>1, <1>4, <1>7, <2>2 DEF PostOK
  <2> QED
    BY <1>1, <1>3, <1>4, <1>8, <2>1, <2>2 DEF PostOK
<1> QED
    BY <1>3, <1>4, <1>5, <1>6, <1>9, OtherBlogs

\* Nothing is left to push, or the rest never will be.
LEMMA EndPostKeeps ==
    ASSUME PublishInv, NEW b \in Blogs, EndPost(b) \/ FailPost(b)
    PROVE  PublishInv'
<1>1. /\ post'[b] \in PostType /\ post' = [post EXCEPT ![b] = post'[b]]
      /\ \/ post'[b].pc = "done" /\ post[b].pc = "push" /\ post[b].todo = {}
         \/ post'[b].pc = "failed"
    BY DEF EndPost, FailPost, PublishInv, PublishTypes, PostType
<1>2. rows' = rows /\ clock' = clock /\ witness' = witness /\ feed' = feed
    BY DEF EndPost, FailPost, followVars
<1>3. \A c \in Blogs \ {b} : post'[c] = post[c]
    BY <1>1 DEF PublishInv, PublishTypes
<1>4. PublishTypes'
    BY <1>1, <1>2 DEF PublishInv, PublishTypes
<1>5. /\ PostOK(b) /\ witness[b].always \subseteq Fans /\ witness[b].never \subseteq Fans
    BY DEF PublishInv, PublishTypes
<1>6. PostOK(b)'
    BY <1>1, <1>2, <1>5 DEF PostOK
<1> QED
    BY <1>2, <1>3, <1>4, <1>6, OtherBlogs

\* Whoever comes or goes while a blog is stored is a witness no more.
LEMMA MoveKeeps == ASSUME PublishInv, Move PROVE PublishInv'
<1>1. clock' = clock /\ post' = post /\ feed' = feed
    BY DEF Move
<1>2. ASSUME NEW b \in Blogs
      PROVE  /\ witness'[b] \in [always : SUBSET Fans, never : SUBSET Fans]
             /\ post[b].pc # "stored" => witness'[b] = witness[b]
             /\ post[b].pc = "stored" =>
                  /\ witness'[b].always \subseteq FansOf(post[b].author)'
                  /\ \A f \in witness'[b].never : f \notin FansOf(post[b].author)'
  <2> DEFINE fans == {f \in Fans : rows'[<<f, post[b].author>>] > 0}
  <2>1. witness'[b] = IF post[b].pc # "stored" THEN witness[b]
                      ELSE [always |-> witness[b].always \cap fans, never |-> witness[b].never \ fans]
    BY DEF Move
  <2>2. FansOf(post[b].author)' = fans
    BY <1>1 DEF FansOf
  <2>3. witness[b] \in [always : SUBSET Fans, never : SUBSET Fans]
    BY DEF PublishInv, PublishTypes
  <2> HIDE DEF fans
  <2> QED
    BY <2>1, <2>2, <2>3
<1>3. witness' = [b \in Blogs |-> witness'[b]]
    BY DEF Move
<1>4. PublishTypes'
    BY <1>1, <1>2, <1>3 DEF PublishInv, PublishTypes
<1>5. ASSUME NEW b \in Blogs PROVE PostOK(b)'
  <2>1. PostOK(b)
    BY DEF PublishInv
  <2> QED
    BY <1>1, <1>2, <2>1 DEF PostOK
<1> QED
    BY <1>4, <1>5 DEF PublishInv

\* The clock and the reader's page do not publish.
LEMMA PublishInvNext == PublishInv /\ [FeedNext]_feedVars => PublishInv'
<1> SUFFICES ASSUME PublishInv, [FeedNext]_feedVars PROVE PublishInv'
    OBVIOUS
<1>1. ASSUME UNCHANGED <<rows, post, feed, witness>>, clock' \in 1..MaxClock PROVE PublishInv'
  <2>1. PublishTypes'
    BY <1>1 DEF PublishInv, PublishTypes
  <2>2. ASSUME NEW b \in Blogs PROVE PostOK(b)'
    BY <1>1 DEF PublishInv, PostOK, FansOf
  <2> QED
    BY <2>1, <2>2 DEF PublishInv
<1>2. CASE Tick
  <2>1. clock' \in 1..MaxClock
    BY <1>2, FeedBounds DEF Tick, PublishInv, PublishTypes
  <2> QED
    BY <1>1, <1>2, <2>1 DEF Tick, followVars
<1>3. ASSUME NEW b \in Blogs, SaveBlog(b) PROVE PublishInv'
    BY <1>3, StorePostKeeps, ReadFansKeeps, PushKeeps, EndPostKeeps DEF SaveBlog
<1>4. ASSUME NEW k \in Flights, Scroll(k) PROVE PublishInv'
  <2>1. UNCHANGED <<followVars, publishVars>>
    BY <1>4 DEF Scroll, SendAsk, ServeAsk, FailAsk, ReceiveAsk
  <2> QED
    BY <1>1, <2>1 DEF followVars, publishVars, PublishInv, PublishTypes
<1>5. CASE UNCHANGED feedVars
    BY <1>1, <1>5 DEF feedVars, followVars, publishVars, PublishInv, PublishTypes
<1> QED
    BY <1>2, <1>3, <1>4, <1>5, MoveKeeps DEF FeedNext

\* A blog its author was told is out has reached whoever followed all through
\* its publishing and nobody who never did, for any number of fans who come
\* and go.
THEOREM FansAreReached == FeedSpec => []FanOut
<1>1. PublishInv => FanOut
    BY DEF PublishInv, PostOK, FanOut
<1> QED
    BY <1>1, PublishInvInit, PublishInvNext, PTL DEF FeedSpec

-----------------------------------------------------------------------------
(* What the server reads: ranks in a feed, and pages as stretches of ranks. *)

\* The rank of a blog among some counts those before it, so that it orders them.
LEMMA RankOrders ==
    ASSUME feed \in [Fans -> [Blogs -> Scores]], NEW f \in Fans, NEW S \in SUBSET Blogs
    PROVE  /\ IsFiniteSet(S) /\ Cardinality(S) \in Nat
           /\ \A b \in S : Rank(f, S, b) \in 0..(Cardinality(S) - 1)
           /\ \A b, c \in S : Before(f, b, c) => Rank(f, S, b) < Rank(f, S, c)
           /\ \A b, c \in S : b = c \/ Before(f, b, c) \/ Before(f, c, b)
<1> DEFINE Less(b) == {c \in S : Before(f, c, b)}
<1>0. /\ Blogs \subseteq Int /\ IsFiniteSet(Blogs)
      /\ \A b \in Blogs : feed[f][b] \in Int
  BY FeedBounds, FS_Interval DEF Blogs, Scores
<1>1. IsFiniteSet(S) /\ Cardinality(S) \in Nat
  BY <1>0, FS_Subset, FS_CardinalityType
<1>2. ASSUME NEW b \in S
      PROVE  IsFiniteSet(Less(b)) /\ Cardinality(Less(b)) \in Nat /\ b \notin Less(b)
  <2>1. Less(b) \subseteq S
    OBVIOUS
  <2>2. b \notin Less(b)
    BY <1>0 DEF Before
  <2> QED  BY <1>1, <2>1, <2>2, FS_Subset, FS_CardinalityType
<1>3. ASSUME NEW b \in S PROVE Cardinality(Less(b)) \in 0..(Cardinality(S) - 1)
  <2>1. IsFiniteSet(S \ {b}) /\ Cardinality(S \ {b}) = Cardinality(S) - 1
    BY <1>1, FS_RemoveElement
  <2>2. Less(b) \subseteq S \ {b}
    BY <1>2
  <2>3. Cardinality(Less(b)) <= Cardinality(S \ {b})
    BY <2>1, <2>2, FS_Subset
  <2>4. Cardinality(Less(b)) \in Nat
    BY <1>2
  <2> HIDE DEF Less
  <2> QED  BY <1>1, <2>1, <2>3, <2>4
<1>4. ASSUME NEW b \in S, NEW c \in S, Before(f, b, c)
      PROVE  Cardinality(Less(b)) < Cardinality(Less(c))
  <2>1. b \in Less(c) /\ Less(b) \subseteq Less(c)
    <3>1. \A a \in S : Before(f, a, b) => Before(f, a, c)
      <4>1. /\ \A a \in S : a \in Int /\ feed[f][a] \in Int
            /\ b \in Int /\ c \in Int /\ feed[f][b] \in Int /\ feed[f][c] \in Int
        BY <1>0
      <4> QED  BY <1>4, <4>1 DEF Before
    <3> QED  BY <1>4, <3>1
  <2>2. b \notin Less(b)
    BY <1>2
  <2>3. /\ Cardinality(Less(b)) <= Cardinality(Less(c))
        /\ Cardinality(Less(c)) = Cardinality(Less(b)) => Less(c) = Less(b)
    <3>1. IsFiniteSet(Less(b)) /\ IsFiniteSet(Less(c)) /\ Less(b) \subseteq Less(c)
      BY <1>2, <2>1
    <3> HIDE DEF Less
    <3> QED  BY <3>1, FS_Subset
  <2>4. Cardinality(Less(b)) \in Nat /\ Cardinality(Less(c)) \in Nat
    BY <1>2
  <2> HIDE DEF Less
  <2> QED  BY <2>1, <2>2, <2>3, <2>4
<1>5. \A b, c \in S : b = c \/ Before(f, b, c) \/ Before(f, c, b)
  BY <1>0 DEF Before
<1> QED  BY <1>1, <1>3, <1>4, <1>5 DEF Rank

\* Every rank below the number of the blogs is somebody's.
LEMMA RanksFilled ==
    ASSUME feed \in [Fans -> [Blogs -> Scores]], NEW f \in Fans, NEW S \in SUBSET Blogs
    PROVE  \A r \in 0..(Cardinality(S) - 1) : \E b \in S : Rank(f, S, b) = r
<1> DEFINE n == Cardinality(S)
           T == 0..(n - 1)
           rank == [b \in S |-> Rank(f, S, b)]
<1>1. /\ IsFiniteSet(S) /\ n \in Nat
      /\ \A b \in S : Rank(f, S, b) \in T
      /\ \A b, c \in S : b # c => Rank(f, S, b) # Rank(f, S, c)
  BY RankOrders
<1>2. rank \in Injection(S, T)
  <2>1. rank \in [S -> T] /\ \A b, c \in S : rank[b] = rank[c] => b = c
    BY <1>1
  <2> QED  BY <2>1 DEF Injection, IsInjective
<1>3. IsFiniteSet(T) /\ Cardinality(T) = n
  <2>1. 0 \in Int /\ n - 1 \in Int
    BY <1>1
  <2>2. /\ IsFiniteSet(0..(n - 1))
        /\ Cardinality(0..(n - 1)) = IF 0 > n - 1 THEN 0 ELSE n - 1 - 0 + 1
    BY <2>1, FS_Interval
  <2> HIDE DEF n
  <2> QED  BY <1>1, <2>2
<1>4. rank \in Surjection(S, T)
  BY <1>1, <1>2, <1>3, FS_Injection
<1> QED  BY <1>4 DEF Surjection

\* A function on 1..n is a sequence of that length.
LEMMA FunctionIsSeq ==
    ASSUME NEW S, NEW n \in Nat, NEW s \in [1..n -> S]
    PROVE  s \in Seq(S) /\ Len(s) = n /\ DOMAIN s = 1..n
<1>1. s \in Seq(S)
  BY SeqDef
<1>2. Len(s) \in Nat /\ 1..Len(s) = 1..n
  BY <1>1, LenProperties
<1> QED  BY <1>1, <1>2

\* A page is made of the blogs of the ranks it asks for, one for each.
LEMMA RangeRanks ==
    ASSUME feed \in [Fans -> [Blogs -> Scores]], NEW f \in Fans, NEW max \in Int, NEW offset \in Nat
    PROVE  LET S == {b \in Blogs : feed[f][b] \in 1..max}
               s == RevRange(f, max, offset)
           IN  /\ s \in Seq(Blogs)
               /\ Len(s) \in Nat /\ DOMAIN s = 1..Len(s)
               /\ (s # <<>>) <=> Len(s) > 0
               /\ \A i \in 1..Len(s) : s[i] \in S /\ Rank(f, S, s[i]) = offset + i - 1
<1> DEFINE S == {b \in Blogs : feed[f][b] \in 1..max}
           n == Min({PageSize, Cardinality(S) - offset})
           s == [i \in 1..n |-> CHOOSE b \in S : Rank(f, S, b) = offset + i - 1]
<1>1. S \subseteq Blogs /\ Cardinality(S) \in Nat /\ PageSize \in Nat
  BY RankOrders, FeedBounds
<1>2. n \in Int /\ n <= Cardinality(S) - offset
  <2>1. \A p, q \in Int : Min({p, q}) \in Int /\ Min({p, q}) <= q
    BY DEF Min
  <2> QED  BY <1>1, <2>1
<1>3. RevRange(f, max, offset) = s
  BY DEF RevRange
<1> HIDE DEF n
<1>4. ASSUME NEW i \in 1..n PROVE s[i] \in S /\ Rank(f, S, s[i]) = offset + i - 1
  <2>1. offset + i - 1 \in 0..(Cardinality(S) - 1)
    BY <1>1, <1>2
  <2>2. \E b \in S : Rank(f, S, b) = offset + i - 1
    BY <1>1, <2>1, RanksFilled
  <2> QED  BY <2>2
<1> HIDE DEF S
<1>5. s \in Seq(Blogs) /\ DOMAIN s = 1..Len(s) /\ Len(s) \in Nat /\ 1..Len(s) = 1..n
  <2>1. s \in [1..n -> Blogs]
    BY <1>4 DEF S
  <2> HIDE DEF s
  <2>2. PICK m \in Nat : 1..m = 1..n
    <3>1. n < 0 => 1..n = 1..0
      BY <1>2
    <3> QED  BY <1>2, <3>1
  <2> QED  BY <2>1, <2>2, FunctionIsSeq
<1> HIDE DEF s
<1>6. (s # <<>>) <=> Len(s) > 0
  BY <1>5, EmptySeq
<1> QED  BY <1>3, <1>4, <1>5, <1>6 DEF S

-----------------------------------------------------------------------------
(* Scrolling *)

\* A pipeline pushes a blog to a fan once, so that a score that is there stays.
PushOnce ==
    \A b \in Blogs : post[b].pc = "push" => \A f \in post[b].todo : feed[f][b] = 0

Asking == [pc : {"sent", "served"}, clear : BOOLEAN, lastId : Int, offset : Nat,
           list : Seq(Blogs), alone : BOOLEAN]

ScrollTypes ==
    /\ page \in [list : Seq(Blogs), minTime : Int, offset : Nat, top : Int]
    /\ ask \in [Flights -> {NoAsk} \cup Asking]
    /\ late \subseteq Blogs
    /\ blurred \in BOOLEAN

\* A request that met no other has the page to itself, and where nothing is
\* blurred every request is such a one.
SingleInv ==
    /\ \A k \in Flights : ask[k] # NoAsk /\ ask[k].alone =>
           \A j \in Flights \ {k} : ask[j] = NoAsk
    /\ ~blurred => \A k \in Flights : ask[k] # NoAsk => ask[k].alone

\* Blogs s with a score each, newest first.
Falling(score, s) ==
    /\ \A i \in DOMAIN s : score[s[i]] > 0
    /\ \A i, j \in DOMAIN s : i < j => score[s[i]] > score[s[j]]

\* Of the blogs S, all from the instant high down to the last of s.
Stretch(score, S, s, high) ==
    /\ s # <<>>
    /\ Falling(score, s)
    /\ \A i \in DOMAIN s : score[s[i]] <= high
    /\ \A b \in S : score[b] \in score[Last(s)]..high => Contains(s, b)

\* The parameters of a request that goes on below s.
Below(score, s, lastId, offset) == lastId = score[Last(s)] /\ offset = 1

\* The answer a goes on from the instant high.
Answers(score, S, a, high) ==
    a.pc = "served" /\ a.list # <<>> =>
        Stretch(score, S, a.list, high) /\ Below(score, a.list, a.lastId, a.offset)

\* What the reader sees, and which blogs the page owes.
Mine == feed[Reader]
Due == Blogs \ late

\* A refresh that is alone asks for all up to now and gets it.
RefreshOK(k) ==
    ask[k] # NoAsk /\ ask[k].clear /\ ask[k].alone =>
        /\ ask[k].pc = "sent" => ask[k].lastId = page.top /\ ask[k].offset = 0
        /\ Answers(Mine, Due, ask[k], page.top)

Refreshing == \E k \in Flights : ask[k] # NoAsk /\ ask[k].clear

\* The page has all down to its last blog and asks for what comes next.
PageOK ==
    /\ Falling(Mine, page.list)
    /\ ~Refreshing =>
         IF page.list = <<>> THEN page.minTime = 0
         ELSE /\ Stretch(Mine, Due, page.list, page.top)
              /\ Below(Mine, page.list, page.minTime, page.offset)

NextOK(k) ==
    ask[k] # NoAsk /\ ~ask[k].clear =>
        /\ page.list # <<>>
        /\ ask[k].pc = "sent" => ask[k].lastId = page.minTime /\ ask[k].offset = page.offset
        /\ Answers(Mine, Due, ask[k], page.minTime - 1)

ScrollOK ==
    Distinct(Reader) =>
        /\ \A k \in Flights : RefreshOK(k)
        /\ ~blurred => PageOK /\ \A k \in Flights : NextOK(k)

ScrollInv == PublishInv /\ PushOnce /\ ScrollTypes /\ SingleInv /\ ScrollOK

\* Nobody has more than one blog of an instant: ranks go down with the scores.
LEMMA RanksFall ==
    ASSUME feed \in [Fans -> [Blogs -> Scores]], Distinct(Reader),
           NEW S \in SUBSET Blogs, \A b \in S : Mine[b] > 0
    PROVE  \A b, c \in S : /\ Rank(Reader, S, b) < Rank(Reader, S, c) <=> Mine[b] > Mine[c]
                           /\ Rank(Reader, S, b) = Rank(Reader, S, c) => b = c
<1>1. /\ \A b \in S : Rank(Reader, S, b) \in Int /\ Mine[b] \in Int
      /\ \A b, c \in S : Before(Reader, b, c) => Rank(Reader, S, b) < Rank(Reader, S, c)
      /\ \A b, c \in S : b = c \/ Before(Reader, b, c) \/ Before(Reader, c, b)
  <2>1. \A b \in Blogs : Mine[b] \in Int
    BY ReaderAssumption, FeedBounds DEF Mine, Scores
  <2>2. \A b \in S : Rank(Reader, S, b) \in 0..(Cardinality(S) - 1) /\ Cardinality(S) \in Nat
    BY ReaderAssumption, RankOrders
  <2> QED  BY <2>1, <2>2, ReaderAssumption, RankOrders
<1>2. \A b, c \in S : Before(Reader, b, c) /\ b # c => Mine[b] > Mine[c]
  BY <1>1 DEF Before, Distinct, Mine
<1> QED  BY <1>1, <1>2

\* A page read from the instant max, or one further where a blog of max itself
\* was shown already, is a stretch of the feed, and it ends with one blog.
LEMMA PageIsStretch ==
    ASSUME feed \in [Fans -> [Blogs -> Scores]], Distinct(Reader),
           NEW max \in Int, NEW offset \in {0, 1}, NEW s, s = RevRange(Reader, max, offset), s # <<>>,
           offset = 1 => \E c \in Blogs : Mine[c] > 0 /\ Mine[c] = max
    PROVE  Stretch(Mine, Blogs, s, max - offset) /\ TrailingEqual(Reader, s) = 1
<1> DEFINE S == {b \in Blogs : Mine[b] \in 1..max}
           rank(b) == Rank(Reader, S, b)
           L == Len(s)
<1>1. /\ s \in Seq(Blogs) /\ L \in Nat /\ L > 0 /\ DOMAIN s = 1..L
      /\ \A i \in 1..L : s[i] \in S /\ rank(s[i]) = offset + i - 1
  <2> DEFINE R == {b \in Blogs : feed[Reader][b] \in 1..max}
  <2>1. S = R
    BY DEF Mine
  <2>2. /\ s \in Seq(Blogs) /\ Len(s) \in Nat /\ DOMAIN s = 1..Len(s) /\ Len(s) > 0
        /\ \A i \in 1..Len(s) : s[i] \in R /\ Rank(Reader, R, s[i]) = offset + i - 1
    <3>1. offset \in Nat
      OBVIOUS
    <3> QED  BY <3>1, ReaderAssumption, RangeRanks
  <2> HIDE DEF R, S
  <2> QED  BY <2>1, <2>2
<1>2. /\ S \subseteq Blogs /\ \A b \in Blogs : Mine[b] \in Int
      /\ \A b \in S : Mine[b] > 0 /\ Mine[b] <= max
      /\ \A b \in Blogs : Mine[b] > 0 /\ Mine[b] <= max => b \in S
  BY ReaderAssumption, FeedBounds DEF Mine, Scores
<1>3. /\ Cardinality(S) \in Nat /\ \A b \in S : rank(b) \in 0..(Cardinality(S) - 1)
      /\ \A r \in 0..(Cardinality(S) - 1) : \E b \in S : rank(b) = r
  BY <1>2, ReaderAssumption, RankOrders, RanksFilled
<1>4. \A b, c \in S : /\ rank(b) < rank(c) <=> Mine[b] > Mine[c]
                      /\ rank(b) = rank(c) => b = c
  BY <1>2, RanksFall
<1> HIDE DEF S, rank, L
<1>5. Last(s) = s[L] /\ s[L] \in S /\ rank(s[L]) = offset + L - 1
  BY <1>1 DEF Last, L
<1>6. Falling(Mine, s)
  <2>1. \A i \in DOMAIN s : Mine[s[i]] > 0
    BY <1>1, <1>2
  <2>2. ASSUME NEW i \in 1..L, NEW j \in 1..L, i < j PROVE Mine[s[i]] > Mine[s[j]]
    <3>1. rank(s[i]) < rank(s[j])
      BY <1>1, <2>2
    <3> QED  BY <1>1, <1>4, <3>1
  <2> QED  BY <1>1, <2>1, <2>2 DEF Falling
<1>7. ASSUME offset = 1
      PROVE  \A b \in S : rank(b) >= 1 <=> Mine[b] <= max - 1
  <2>1. PICK c \in S : Mine[c] = max
    BY <1>2, <1>7
  <2>2. PICK d \in S : rank(d) = 0
    BY <1>1, <1>3, <1>5
  <2>3. ~(rank(d) < rank(c))
    BY <1>2, <1>4, <2>1
  <2>4. rank(c) = 0
    BY <1>3, <2>2, <2>3
  <2>5. ASSUME NEW b \in S PROVE rank(b) >= 1 <=> Mine[b] <= max - 1
    <3>1. rank(c) < rank(b) <=> Mine[c] > Mine[b]
      BY <1>4
    <3>2. rank(b) \in Int /\ Mine[b] \in Int /\ rank(b) >= 0
      BY <1>2, <1>3
    <3> QED  BY <2>1, <2>4, <3>1, <3>2
  <2> QED  BY <2>5
<1>8. \A i \in DOMAIN s : Mine[s[i]] <= max - offset
  <2>1. CASE offset = 0
    BY <1>1, <1>2, <2>1
  <2>2. CASE offset = 1
    <3>1. \A i \in 1..L : rank(s[i]) >= 1
      BY <1>1, <2>2
    <3> QED  BY <1>1, <1>7, <2>2, <3>1
  <2> QED  BY <2>1, <2>2
<1>9. ASSUME NEW b \in Blogs, Mine[b] \in Mine[Last(s)]..(max - offset) PROVE Contains(s, b)
  <2>1. b \in S
    BY <1>2, <1>5, <1>9
  <2>2. rank(b) \in Int /\ rank(b) >= 0 /\ Mine[b] \in Int /\ Mine[s[L]] \in Int
    BY <1>2, <1>3, <1>5, <2>1
  <2>3. rank(b) >= offset
    BY <1>7, <1>9, <2>1, <2>2
  <2>4. rank(b) <= offset + L - 1
    <3>1. ~(Mine[s[L]] > Mine[b])
      BY <1>5, <1>9, <2>2
    <3>2. ~(rank(s[L]) < rank(b))
      BY <1>4, <1>5, <2>1, <3>1
    <3> QED  BY <1>1, <1>5, <2>2, <3>2
  <2>5. PICK i \in 1..L : rank(b) = offset + i - 1
    <3>1. rank(b) - offset + 1 \in 1..L
      BY <1>1, <2>2, <2>3, <2>4
    <3>2. rank(b) = offset + (rank(b) - offset + 1) - 1
      BY <2>2
    <3> QED  BY <3>1, <3>2
  <2>6. s[i] = b
    BY <1>1, <1>4, <2>1, <2>5
  <2> QED  BY <2>6 DEF Contains, L
<1>10. {i \in DOMAIN s : Mine[s[i]] = Mine[Last(s)]} = {L}
  <2>1. ASSUME NEW i \in 1..L, i # L PROVE Mine[s[i]] # Mine[s[L]]
    <3>1. L \in 1..L /\ L \in Int /\ i \in Int /\ i < L
      BY <1>1, <1>5, <2>1
    <3>2. s[i] \in S /\ s[L] \in S
      BY <1>1, <3>1
    <3>3. Mine[s[i]] \in Int /\ Mine[s[L]] \in Int
      BY <1>2, <3>2
    <3>4. Mine[s[i]] > Mine[s[L]]
      BY <1>1, <1>6, <3>1 DEF Falling
    <3> QED  BY <3>3, <3>4
  <2> QED  BY <1>1, <1>5, <2>1
<1>11. TrailingEqual(Reader, s) = 1
  BY <1>10, FS_Singleton DEF TrailingEqual, Mine
<1> QED  BY <1>6, <1>8, <1>9, <1>11 DEF Stretch

\* The offset of an answer is a number whatever was read.
LEMMA TrailingIsNat ==
    ASSUME NEW s \in Seq(Blogs) PROVE TrailingEqual(Reader, s) \in Nat
<1> DEFINE same == {i \in DOMAIN s : Mine[s[i]] = Mine[Last(s)]}
<1>1. Len(s) \in Nat /\ DOMAIN s = 1..Len(s)
  BY LenProperties
<1>2. IsFiniteSet(1..Len(s)) /\ same \subseteq 1..Len(s)
  BY <1>1, FS_Interval
<1>3. IsFiniteSet(same) /\ Cardinality(same) \in Nat
  BY <1>2, FS_Subset, FS_CardinalityType
<1> QED  BY <1>3 DEF TrailingEqual, Mine

\* A next page that begins right below the list goes on with the stretch.
LEMMA StretchesJoin ==
    ASSUME NEW score \in [Blogs -> Scores], NEW S \in SUBSET Blogs, NEW l \in Seq(Blogs),
           NEW s \in Seq(Blogs), NEW high \in Int,
           Stretch(score, S, l, high), Stretch(score, S, s, score[Last(l)] - 1)
    PROVE  Stretch(score, S, l \o s, high) /\ Last(l \o s) = Last(s) /\ Falling(score, l \o s)
<1> DEFINE m == Len(l)
           n == Len(s)
           t == l \o s
<1>1. /\ m \in Nat /\ n \in Nat /\ DOMAIN l = 1..m /\ DOMAIN s = 1..n
      /\ \A i \in 1..m : l[i] \in Blogs
      /\ \A i \in 1..n : s[i] \in Blogs
  BY LenProperties, ElementOfSeq
<1>2. m > 0 /\ n > 0
  BY EmptySeq DEF Stretch
<1>3. /\ t \in Seq(Blogs) /\ Len(t) = m + n /\ DOMAIN t = 1..(m + n)
      /\ \A i \in 1..(m + n) : t[i] = IF i <= m THEN l[i] ELSE s[i - m]
  BY ConcatProperties, LenProperties
<1>4. Last(l) = l[m] /\ Last(s) = s[n] /\ Last(t) = t[m + n]
  BY <1>3 DEF Last
<1> HIDE DEF m, n, t
<1>5. /\ \A i \in 1..m : t[i] = l[i] /\ i \in 1..(m + n)
      /\ \A i \in 1..n : t[m + i] = s[i] /\ m + i \in 1..(m + n)
      /\ \A i \in 1..(m + n) : i \in 1..m \/ (i - m \in 1..n /\ t[i] = s[i - m])
  BY <1>1, <1>3
<1>6. Last(t) = Last(s) /\ t # <<>>
  BY <1>1, <1>2, <1>3, <1>4, <1>5, EmptySeq
<1>7. \A b \in Blogs : score[b] \in Int
  BY FeedBounds DEF Scores
<1>8. /\ \A i \in 1..m : score[l[i]] > 0 /\ score[l[i]] <= high /\ score[l[i]] >= score[l[m]]
                         /\ score[l[i]] \in Int
      /\ \A i, j \in 1..m : i < j => score[l[i]] > score[l[j]]
      /\ score[l[m]] \in Int
  <2>1. /\ \A i \in 1..m : score[l[i]] > 0 /\ score[l[i]] <= high /\ score[l[i]] \in Int
        /\ \A i, j \in 1..m : i < j => score[l[i]] > score[l[j]]
    BY <1>1, <1>7 DEF Stretch, Falling
  <2>2. m \in 1..m /\ \A i \in 1..m : i < m \/ i = m
    BY <1>1, <1>2
  <2> QED  BY <2>1, <2>2
<1>9. /\ \A i \in 1..n : score[s[i]] > 0 /\ score[s[i]] < score[l[m]] /\ score[s[i]] \in Int
      /\ \A i, j \in 1..n : i < j => score[s[i]] > score[s[j]]
  <2>1. /\ \A i \in 1..n : score[s[i]] > 0 /\ score[s[i]] <= score[l[m]] - 1 /\ score[s[i]] \in Int
        /\ \A i, j \in 1..n : i < j => score[s[i]] > score[s[j]]
    BY <1>1, <1>4, <1>7 DEF Stretch, Falling
  <2> QED  BY <1>8, <2>1
<1>10. Falling(score, t)
  <2>1. ASSUME NEW i \in 1..(m + n), NEW j \in 1..(m + n), i < j PROVE score[t[i]] > score[t[j]]
    <3>1. CASE i \in 1..m /\ j \in 1..m
      BY <1>5, <1>8, <2>1, <3>1
    <3>2. CASE i \in 1..m /\ j \notin 1..m
      <4>1. score[t[j]] < score[l[m]] /\ score[t[j]] \in Int
        BY <1>5, <1>9, <3>2
      <4>2. score[t[i]] >= score[l[m]] /\ score[t[i]] \in Int
        BY <1>5, <1>8, <3>2
      <4> QED  BY <1>8, <4>1, <4>2
    <3>3. CASE i \notin 1..m
      <4>1. i - m \in 1..n /\ j - m \in 1..n /\ i - m < j - m
        BY <1>1, <1>5, <2>1, <3>3
      <4>2. t[i] = s[i - m] /\ t[j] = s[j - m]
        BY <1>1, <1>5, <2>1, <3>3
      <4> QED  BY <1>9, <4>1, <4>2
    <3> QED  BY <3>1, <3>2, <3>3
  <2>2. \A i \in 1..(m + n) : score[t[i]] > 0
    BY <1>5, <1>8, <1>9
  <2> QED  BY <1>3, <2>1, <2>2 DEF Falling
<1>11. \A i \in 1..(m + n) : score[t[i]] <= high
  <2>1. score[l[m]] <= high
    BY <1>1, <1>2, <1>8
  <2>2. \A i \in 1..n : score[s[i]] <= high
    BY <1>8, <1>9, <2>1
  <2> QED  BY <1>5, <1>8, <2>2
<1>12. ASSUME NEW b \in S, score[b] \in score[Last(s)]..high PROVE Contains(t, b)
  <2>1. CASE score[b] >= score[l[m]]
    <3>1. PICK i \in 1..m : l[i] = b
      <4>1. score[b] \in score[Last(l)]..high
        BY <1>4, <1>7, <1>8, <1>12, <2>1
      <4>2. Contains(l, b)
        BY <4>1 DEF Stretch
      <4> QED  BY <4>2 DEF Contains, m
    <3> QED  BY <1>3, <1>5, <3>1 DEF Contains
  <2>2. CASE score[b] < score[l[m]]
    <3>1. PICK i \in 1..n : s[i] = b
      <4>1. score[b] \in score[Last(s)]..(score[Last(l)] - 1)
        BY <1>4, <1>7, <1>8, <1>12, <2>2
      <4>2. Contains(s, b)
        BY <4>1 DEF Stretch
      <4> QED  BY <4>2 DEF Contains, n
    <3> QED  BY <1>3, <1>5, <3>1 DEF Contains
  <2> QED  BY <1>7, <1>8, <2>1, <2>2
<1> QED  BY <1>3, <1>6, <1>10, <1>11, <1>12 DEF Stretch, t

\* A stretch is still one when scores stay and whatever is new came late or
\* lies above it.
LEMMA StretchStays ==
    ASSUME NEW old \in [Blogs -> Scores], NEW new \in [Blogs -> Scores],
           NEW S \in SUBSET Blogs, NEW T \in SUBSET S, NEW s \in Seq(Blogs), NEW high \in Int,
           \A b \in Blogs : old[b] > 0 => new[b] = old[b],
           \A b \in T : new[b] = old[b] \/ new[b] > high
    PROVE  /\ Falling(old, s) => Falling(new, s)
           /\ s # <<>> /\ Falling(old, s) => new[Last(s)] = old[Last(s)]
           /\ Stretch(old, S, s, high) => Stretch(new, T, s, high)
<1> DEFINE n == Len(s)
<1>1. n \in Nat /\ DOMAIN s = 1..n /\ \A i \in 1..n : s[i] \in Blogs
  BY LenProperties, ElementOfSeq
<1>2. Last(s) = s[n] /\ (s # <<>> => n \in 1..n)
  BY <1>1, EmptySeq DEF Last
<1>3. \A b \in Blogs : old[b] \in Int /\ new[b] \in Int
  BY FeedBounds DEF Scores
<1> HIDE DEF n
<1>4. Falling(old, s) => \A i \in 1..n : new[s[i]] = old[s[i]]
  BY <1>1 DEF Falling
<1>5. Falling(old, s) => Falling(new, s)
  BY <1>1, <1>4 DEF Falling
<1>6. s # <<>> /\ Falling(old, s) => new[Last(s)] = old[Last(s)] /\ old[Last(s)] > 0
  BY <1>1, <1>2, <1>4 DEF Falling
<1>7. ASSUME Stretch(old, S, s, high) PROVE Stretch(new, T, s, high)
  <2>1. s # <<>> /\ Falling(old, s) /\ \A i \in DOMAIN s : old[s[i]] <= high
    BY <1>7 DEF Stretch
  <2>2. \A i \in DOMAIN s : new[s[i]] <= high
    BY <1>1, <1>4, <2>1
  <2>3. ASSUME NEW b \in T, new[b] \in new[Last(s)]..high PROVE Contains(s, b)
    <3>1. new[b] = old[b]
      BY <1>3, <2>3
    <3>2. old[b] \in old[Last(s)]..high
      BY <1>6, <2>1, <2>3, <3>1
    <3> QED  BY <1>7, <3>2 DEF Stretch
  <2> QED  BY <1>5, <2>1, <2>2, <2>3 DEF Stretch
<1> QED  BY <1>5, <1>6, <1>7

\* A push gives a blog its score once; nothing else touches the feed.
LEMMA ScoresStay ==
    ASSUME PublishInv, PushOnce, [FeedNext]_feedVars
    PROVE  /\ Mine \in [Blogs -> Scores] /\ Mine' \in [Blogs -> Scores]
           /\ \A b \in Blogs : Mine[b] > 0 => Mine'[b] = Mine[b]
           /\ Distinct(Reader)' => Distinct(Reader)
           /\ feed' = feed \/ \E b \in Blogs, f \in Fans : Push(b, f)
<1>1. feed \in [Fans -> [Blogs -> Scores]] /\ feed' \in [Fans -> [Blogs -> Scores]]
  <2>1. PublishInv'
    BY PublishInvNext
  <2> QED  BY <2>1 DEF PublishInv, PublishTypes
<1>2. feed' = feed \/ \E b \in Blogs, f \in Fans : Push(b, f)
  <2>1. CASE Tick \/ Move
    BY <2>1 DEF Tick, Move
  <2>2. ASSUME NEW b \in Blogs, SaveBlog(b)
        PROVE  feed' = feed \/ \E f \in Fans : Push(b, f)
    BY <2>2 DEF SaveBlog, StorePost, ReadFans, EndPost, FailPost
  <2>3. ASSUME NEW k \in Flights, Scroll(k) PROVE feed' = feed
    BY <2>3 DEF Scroll, SendAsk, ServeAsk, FailAsk, ReceiveAsk, publishVars
  <2>4. CASE UNCHANGED feedVars
    BY <2>4 DEF feedVars, publishVars
  <2> QED  BY <2>1, <2>2, <2>3, <2>4 DEF FeedNext
<1>3. \A f \in Fans, b \in Blogs : feed[f][b] > 0 => feed'[f][b] = feed[f][b]
  <2>1. ASSUME NEW c \in Blogs, NEW g \in Fans, Push(c, g), NEW f \in Fans, NEW b \in Blogs, feed[f][b] > 0
        PROVE  feed'[f][b] = feed[f][b]
    <3>1. feed[g][c] = 0 /\ feed' = [feed EXCEPT ![g][c] = post[c].score]
      BY <2>1 DEF Push, PushOnce
    <3>2. f # g \/ b # c
      BY <2>1, <3>1
    <3> QED  BY <1>1, <3>1, <3>2
  <2> QED  BY <1>2, <2>1
<1>4. Distinct(Reader)' => Distinct(Reader)
  <2>1. \A b \in Blogs : feed[Reader][b] \in Int /\ feed[Reader][b] >= 0
    BY <1>1, ReaderAssumption, FeedBounds DEF Scores
  <2>2. \A b \in Blogs : feed[Reader][b] # 0 => feed'[Reader][b] = feed[Reader][b]
    BY <1>3, <2>1, ReaderAssumption
  <2> QED  BY <2>2 DEF Distinct
<1> QED  BY <1>1, <1>2, <1>3, <1>4, ReaderAssumption DEF Mine

\* The fans are read before anything is pushed, and a push strikes its fan out.
LEMMA PushOnceNext == ASSUME PublishInv, PushOnce, [FeedNext]_feedVars PROVE PushOnce'
<1>1. ASSUME post' = post, feed' = feed PROVE PushOnce'
  BY <1>1 DEF PushOnce
<1>2. ASSUME NEW b \in Blogs, feed' = feed, \A c \in Blogs \ {b} : post'[c] = post[c],
             post'[b].pc = "push" => \A f \in post'[b].todo : feed[f][b] = 0
      PROVE  PushOnce'
  BY <1>2 DEF PushOnce
<1>3. post \in [Blogs -> PostType] /\ feed \in [Fans -> [Blogs -> Scores]]
  BY DEF PublishInv, PublishTypes
<1>4. CASE Tick \/ Move
  BY <1>1, <1>4 DEF Tick, Move
<1>5. ASSUME NEW b \in Blogs, NEW a \in Authors, StorePost(b, a) PROVE PushOnce'
  <2>1. post'[b].pc = "stored" /\ feed' = feed /\ \A c \in Blogs \ {b} : post'[c] = post[c]
    BY <1>3, <1>5 DEF StorePost, PostType
  <2> QED  BY <1>2, <2>1
<1>6. ASSUME NEW b \in Blogs, ReadFans(b) PROVE PushOnce'
  <2>1. /\ post'[b].todo \subseteq Fans /\ feed' = feed /\ post[b].pc = "stored"
        /\ \A c \in Blogs \ {b} : post'[c] = post[c]
    BY <1>3, <1>6 DEF ReadFans, PostType, FansOf
  <2>2. \A f \in Fans : feed[f][b] = 0
    BY <2>1 DEF PublishInv, PostOK
  <2> QED  BY <1>2, <2>1, <2>2
<1>7. ASSUME NEW b \in Blogs, NEW g \in Fans, Push(b, g) PROVE PushOnce'
  <2>1. /\ feed' = [feed EXCEPT ![g][b] = post[b].score] /\ post[b].pc = "push"
        /\ post'[b].todo = post[b].todo \ {g} /\ \A c \in Blogs \ {b} : post'[c] = post[c]
    BY <1>3, <1>7 DEF Push, PostType
  <2>2. \A c \in Blogs : post[c].todo \subseteq Fans
    BY <1>3 DEF PostType
  <2>3. \A f \in Fans, c \in Blogs : f # g \/ c # b => feed'[f][c] = feed[f][c]
    BY <1>3, <2>1
  <2>4. ASSUME NEW c \in Blogs, post'[c].pc = "push", NEW f \in post'[c].todo PROVE feed'[f][c] = 0
    <3>1. CASE c = b
      BY <2>1, <2>2, <2>3, <2>4, <3>1 DEF PushOnce
    <3>2. CASE c # b
      BY <2>1, <2>2, <2>3, <2>4, <3>2 DEF PushOnce
    <3> QED  BY <3>1, <3>2
  <2> QED  BY <2>4 DEF PushOnce
<1>8. ASSUME NEW b \in Blogs, EndPost(b) \/ FailPost(b) PROVE PushOnce'
  <2>1. post'[b].pc \in {"done", "failed"} /\ feed' = feed /\ \A c \in Blogs \ {b} : post'[c] = post[c]
    BY <1>3, <1>8 DEF EndPost, FailPost, PostType
  <2> QED  BY <1>2, <2>1
<1>9. ASSUME NEW k \in Flights, Scroll(k) PROVE PushOnce'
  BY <1>1, <1>9 DEF Scroll, SendAsk, ServeAsk, FailAsk, ReceiveAsk, publishVars
<1>10. CASE UNCHANGED feedVars
  BY <1>1, <1>10 DEF feedVars, publishVars
<1> QED  BY <1>4, <1>5, <1>6, <1>7, <1>8, <1>9, <1>10 DEF FeedNext, SaveBlog

\* What holds of a request's fields.
LEMMA AskingFields ==
    ASSUME ScrollTypes, NEW k \in Flights
    PROVE  /\ ask[k] # NoAsk =>
                /\ ask[k] \in Asking
                /\ ask[k].pc \in {"sent", "served"} /\ ask[k].clear \in BOOLEAN
                /\ ask[k].lastId \in Int /\ ask[k].offset \in Nat
                /\ ask[k].list \in Seq(Blogs) /\ ask[k].alone \in BOOLEAN
           /\ ask[k].pc \in {"sent", "served"} => ask[k] # NoAsk
<1>1. NoAsk.pc = "idle"
  BY DEF NoAsk
<1>2. ask[k] \in {NoAsk} \cup Asking
  BY DEF ScrollTypes
<1> QED  BY <1>1, <1>2 DEF Asking

\* Where neither feed nor page nor requests move, nothing is disturbed.
LEMMA QuietScrolls ==
    ASSUME ScrollTypes, SingleInv, ScrollOK, UNCHANGED <<feed, page, ask, late, blurred>>
    PROVE  ScrollTypes' /\ SingleInv' /\ ScrollOK'
<1>1. ScrollTypes' /\ SingleInv'
  BY DEF ScrollTypes, SingleInv
<1>2. /\ Distinct(Reader)' = Distinct(Reader) /\ Refreshing' = Refreshing
      /\ Mine' = Mine /\ Due' = Due
  BY DEF Distinct, Refreshing, Mine, Due
<1>3. PageOK' = PageOK /\ \A k \in Flights : RefreshOK(k)' = RefreshOK(k) /\ NextOK(k)' = NextOK(k)
  BY <1>2 DEF PageOK, RefreshOK, NextOK
<1> QED  BY <1>1, <1>2, <1>3 DEF ScrollOK

\* A blog pushed above the instant of the refresh is for the next refresh; one
\* pushed below comes late.
LEMMA PushScrolls ==
    ASSUME PublishInv, PushOnce, ScrollTypes, SingleInv, ScrollOK,
           NEW b \in Blogs, NEW g \in Fans, Push(b, g)
    PROVE  ScrollTypes' /\ SingleInv' /\ ScrollOK'
<1>1. /\ UNCHANGED <<page, ask, blurred>>
      /\ late' = IF g = Reader /\ post[b].score <= page.top THEN late \cup {b} ELSE late
      /\ feed' = [feed EXCEPT ![g][b] = post[b].score] /\ post[b].score \in Scores
  BY DEF Push, scrollVars, PublishInv, PublishTypes, PostType
<1>2. ScrollTypes' /\ SingleInv'
  <2>1. late' \subseteq Blogs
    BY <1>1 DEF ScrollTypes
  <2> QED  BY <1>1, <2>1 DEF ScrollTypes, SingleInv
<1>3. /\ Mine \in [Blogs -> Scores] /\ Mine' \in [Blogs -> Scores]
      /\ \A c \in Blogs : Mine[c] > 0 => Mine'[c] = Mine[c]
      /\ Distinct(Reader)' => Distinct(Reader)
  <2>1. [FeedNext]_feedVars
    BY DEF FeedNext, SaveBlog
  <2> QED  BY <2>1, ScoresStay
<1>4. Due \subseteq Blogs /\ Due' \subseteq Due
  BY <1>1 DEF Due
<1>5. page.top \in Int /\ page.minTime \in Int /\ page.list \in Seq(Blogs)
  BY DEF ScrollTypes
<1>6. ASSUME NEW high \in Int, high <= page.top
      PROVE  \A c \in Due' : Mine'[c] = Mine[c] \/ Mine'[c] > high
  <2>1. post[b].score \in Int
    BY <1>1, FeedBounds DEF Scores
  <2>2. feed \in [Fans -> [Blogs -> Scores]]
    BY DEF PublishInv, PublishTypes
  <2>3. \A c \in Blogs : g # Reader \/ c # b => Mine'[c] = Mine[c]
    BY <1>1, <2>2, ReaderAssumption DEF Mine
  <2>4. g = Reader => Mine'[b] = post[b].score /\ (b \in Due' => post[b].score > page.top)
    BY <1>1, <1>5, <2>1, <2>2, ReaderAssumption DEF Mine, Due
  <2>5. Due' \subseteq Blogs
    BY <1>4
  <2> QED  BY <1>5, <1>6, <2>1, <2>3, <2>4, <2>5
<1>7. \A s \in Seq(Blogs), high \in Int :
        /\ Falling(Mine, s) => Falling(Mine', s)
        /\ s # <<>> /\ Falling(Mine, s) => Mine'[Last(s)] = Mine[Last(s)]
        /\ high <= page.top /\ Stretch(Mine, Due, s, high) => Stretch(Mine', Due', s, high)
  <2> SUFFICES ASSUME NEW s \in Seq(Blogs), NEW high \in Int
               PROVE  /\ Falling(Mine, s) => Falling(Mine', s)
                      /\ s # <<>> /\ Falling(Mine, s) => Mine'[Last(s)] = Mine[Last(s)]
                      /\ high <= page.top /\ Stretch(Mine, Due, s, high) => Stretch(Mine', Due', s, high)
    OBVIOUS
  <2>1. Falling(Mine, s) => Falling(Mine', s) /\ (s # <<>> => Mine'[Last(s)] = Mine[Last(s)])
    <3>1. \A c \in Due' : Mine'[c] = Mine[c] \/ Mine'[c] > page.top
      BY <1>5, <1>6
    <3>2. ASSUME Falling(Mine, s)
          PROVE  Falling(Mine', s) /\ (s # <<>> => Mine'[Last(s)] = Mine[Last(s)])
      <4>1. /\ Falling(Mine, s) => Falling(Mine', s)
            /\ s # <<>> /\ Falling(Mine, s) => Mine'[Last(s)] = Mine[Last(s)]
            /\ Stretch(Mine, Due, s, page.top) => Stretch(Mine', Due', s, page.top)
        BY <1>3, <1>4, <1>5, <3>1, StretchStays
      <4> QED  BY <3>2, <4>1
    <3> QED  BY <3>2
  <2>2. ASSUME high <= page.top, Stretch(Mine, Due, s, high) PROVE Stretch(Mine', Due', s, high)
    BY <1>3, <1>4, <1>6, <2>2, StretchStays
  <2> QED  BY <2>1, <2>2
<1>8. \A s \in Seq(Blogs), lastId, offset, high \in Int :
        Stretch(Mine, Due, s, high) /\ Below(Mine, s, lastId, offset) => Below(Mine', s, lastId, offset)
  BY <1>7 DEF Below, Stretch
<1>9. \A k \in Flights, high \in Int :
        ask[k] # NoAsk /\ high <= page.top /\ Answers(Mine, Due, ask[k], high) => Answers(Mine', Due', ask[k], high)
  BY <1>7, <1>8, AskingFields DEF Answers
<1>10. ASSUME Distinct(Reader)' PROVE \A k \in Flights : RefreshOK(k)'
  <2>1. \A k \in Flights : RefreshOK(k)
    BY <1>3, <1>10 DEF ScrollOK
  <2> QED  BY <1>1, <1>5, <1>9, <2>1 DEF RefreshOK
<1>11. ASSUME Distinct(Reader)', ~blurred' PROVE PageOK' /\ \A k \in Flights : NextOK(k)'
  <2>1. PageOK /\ \A k \in Flights : NextOK(k)
    BY <1>1, <1>3, <1>11 DEF ScrollOK
  <2>2. Refreshing' = Refreshing
    BY <1>1 DEF Refreshing
  <2>3. PageOK'
    <3>1. page.offset \in Int
      BY DEF ScrollTypes
    <3> QED  BY <1>1, <1>5, <1>7, <1>8, <2>1, <2>2, <3>1 DEF PageOK
  <2>4. ASSUME NEW k \in Flights, ask[k] # NoAsk, ~ask[k].clear PROVE page.minTime - 1 <= page.top
    <3>1. ~Refreshing /\ page.list # <<>>
      BY <1>1, <1>11, <2>1, <2>4 DEF SingleInv, Refreshing, NextOK
    <3>2. Stretch(Mine, Due, page.list, page.top) /\ page.minTime = Mine[Last(page.list)]
      BY <2>1, <3>1 DEF PageOK, Below
    <3>3. Len(page.list) \in DOMAIN page.list
      BY <1>5, <3>1, EmptySeq, LenProperties
    <3> QED  BY <1>5, <3>2, <3>3 DEF Stretch, Last
  <2>5. ASSUME NEW k \in Flights PROVE NextOK(k)'
    BY <1>1, <1>5, <1>9, <2>1, <2>4 DEF NextOK
  <2> QED  BY <2>3, <2>5
<1> QED  BY <1>2, <1>10, <1>11 DEF ScrollOK

\* A request that is sent while another is under way blurs the list; one that
\* is not has what the page holds to go on from.
LEMMA SendScrolls ==
    ASSUME PublishInv, ScrollTypes, SingleInv, ScrollOK,
           NEW k \in Flights, NEW clear \in BOOLEAN, SendAsk(k, clear)
    PROVE  ScrollTypes' /\ SingleInv' /\ ScrollOK'
<1> DEFINE others == {j \in Flights : ask[j] # NoAsk}
           now == clock + 1 - Lag
           lastId == IF clear THEN now ELSE page.minTime
           offset == IF clear THEN 0 ELSE page.offset
           q == [pc |-> "sent", clear |-> clear, lastId |-> lastId, offset |-> offset,
                 list |-> <<>>, alone |-> others = {}]
<1>1. /\ ask[k] = NoAsk /\ (clear \/ page.minTime > 0)
      /\ ask' = [j \in Flights |-> IF j = k THEN q
                                   ELSE IF j \in others THEN [ask[j] EXCEPT !.alone = FALSE]
                                   ELSE NoAsk]
      /\ page' = IF clear THEN [page EXCEPT !.minTime = now, !.offset = 0, !.top = now] ELSE page
      /\ blurred' = (blurred \/ others # {})
      /\ feed' = feed /\ late' = late
  BY DEF SendAsk, publishVars
<1>2. /\ page.list \in Seq(Blogs) /\ page.minTime \in Int /\ page.offset \in Nat /\ page.top \in Int
      /\ now \in Int
  BY FeedBounds DEF ScrollTypes, PublishInv, PublishTypes
<1>3. /\ q \in Asking /\ q # NoAsk /\ q.pc = "sent" /\ q.clear = clear /\ q.lastId = lastId
      /\ q.offset = offset /\ q.alone = (others = {})
  <2>1. <<>> \in Seq(Blogs) /\ (others = {}) \in BOOLEAN /\ lastId \in Int /\ offset \in Nat
    BY <1>2, EmptySeq
  <2> HIDE DEF others, lastId, offset
  <2> QED  BY <2>1 DEF Asking, NoAsk
<1>4. /\ page'.list = page.list
      /\ clear => page'.top = now
      /\ ~clear => page' = page
      /\ page' \in [list : Seq(Blogs), minTime : Int, offset : Nat, top : Int]
  BY <1>1, <1>2 DEF ScrollTypes
<1>5. ASSUME NEW j \in Flights, ask[j] # NoAsk
      PROVE  /\ ask'[j] \in Asking /\ ask'[j].alone = FALSE /\ ask'[j] # NoAsk
             /\ others # {}
  <2>1. ask[j] \in Asking /\ j # k /\ j \in others
    BY <1>1, <1>5, AskingFields
  <2>2. ask'[j] = [ask[j] EXCEPT !.alone = FALSE]
    BY <1>1, <2>1
  <2> QED  BY <2>1, <2>2 DEF Asking, NoAsk
<1>6. /\ ask'[k] = q
      /\ \A j \in Flights \ {k} : ask[j] = NoAsk => ask'[j] = NoAsk
      /\ ask' = [j \in Flights |-> ask'[j]]
  BY <1>1
<1>7. others = {} => \A j \in Flights \ {k} : ask'[j] = NoAsk
  BY <1>6
<1> HIDE DEF q, others, now
<1>8. ScrollTypes'
  <2>1. \A j \in Flights : ask'[j] \in {NoAsk} \cup Asking
    BY <1>3, <1>5, <1>6
  <2> QED  BY <1>1, <1>4, <1>6, <2>1 DEF ScrollTypes
<1>9. SingleInv'
  <2>1. \A j \in Flights : ask'[j] # NoAsk => j = k \/ ask'[j].alone = FALSE
    BY <1>5, <1>6
  <2> QED  BY <1>1, <1>3, <1>6, <1>7, <2>1 DEF SingleInv
<1>10. Distinct(Reader)' = Distinct(Reader) /\ Mine' = Mine /\ Due' = Due
  BY <1>1 DEF Distinct, Mine, Due
<1>11. ASSUME NEW j \in Flights PROVE RefreshOK(j)'
  <2>1. CASE j = k
    BY <1>3, <1>4, <1>6, <2>1 DEF RefreshOK, Answers, lastId, offset
  <2>2. CASE j # k
    BY <1>5, <1>6, <2>2 DEF RefreshOK
  <2> QED  BY <2>1, <2>2
<1>12. ASSUME Distinct(Reader)', ~blurred' PROVE PageOK' /\ \A j \in Flights : NextOK(j)'
  <2>1. PageOK /\ others = {} /\ ~Refreshing
    BY <1>1, <1>10, <1>12 DEF ScrollOK, Refreshing, others
  <2>2. Falling(Mine', page'.list)
    BY <1>4, <1>10, <2>1 DEF PageOK
  <2>3. CASE clear
    <3>1. Refreshing'
      BY <1>3, <1>6, <2>3 DEF Refreshing
    <3>2. \A j \in Flights : NextOK(j)'
      BY <1>3, <1>6, <1>7, <2>1, <2>3 DEF NextOK
    <3> QED  BY <2>2, <3>1, <3>2 DEF PageOK
  <2>4. CASE ~clear
    <3>1. page' = page /\ page.list # <<>>
      BY <1>1, <1>4, <2>1, <2>4 DEF PageOK
    <3>2. PageOK'
      BY <1>10, <2>1, <3>1 DEF PageOK
    <3>3. \A j \in Flights : NextOK(j)'
      BY <1>3, <1>6, <1>7, <2>1, <2>4, <3>1 DEF NextOK, Answers, lastId, offset
    <3> QED  BY <3>2, <3>3
  <2> QED  BY <2>3, <2>4
<1> QED  BY <1>8, <1>9, <1>11, <1>12 DEF ScrollOK

\* The answer of the server is the stretch that was asked for.
LEMMA ServeScrolls ==
    ASSUME PublishInv, ScrollTypes, SingleInv, ScrollOK, NEW k \in Flights, ServeAsk(k)
    PROVE  ScrollTypes' /\ SingleInv' /\ ScrollOK'
<1> PICK s : s = RevRange(Reader, ask[k].lastId, ask[k].offset)
  OBVIOUS
<1>0. /\ ask[k] \in Asking /\ ask[k] # NoAsk /\ ask[k].pc = "sent"
      /\ ask[k].lastId \in Int /\ ask[k].offset \in Nat
  BY AskingFields DEF ServeAsk
<1> PICK q : q = [ask[k] EXCEPT !.pc = "served", !.list = s,
                     !.lastId = IF s = <<>> THEN 0 ELSE Mine[Last(s)],
                     !.offset = IF s = <<>> THEN 0 ELSE TrailingEqual(Reader, s)]
  OBVIOUS
<1>1. /\ ask' = [ask EXCEPT ![k] = q]
      /\ late' = IF ask[k].clear THEN {} ELSE late
      /\ UNCHANGED <<feed, page, blurred>>
  BY DEF ServeAsk, publishVars, Mine
<1>2. /\ feed \in [Fans -> [Blogs -> Scores]] /\ Mine \in [Blogs -> Scores]
      /\ \A b \in Blogs : Mine[b] \in Int
  BY ReaderAssumption, FeedBounds DEF PublishInv, PublishTypes, Mine, Scores
<1>3. s \in Seq(Blogs) /\ (s # <<>> => Last(s) \in Blogs)
  <2>1. s \in Seq(Blogs)
    BY <1>0, <1>2, ReaderAssumption, RangeRanks
  <2>2. s # <<>> => Len(s) \in 1..Len(s) /\ Len(s) \in Nat
    BY <2>1, EmptySeq, LenProperties
  <2> QED  BY <2>1, <2>2, ElementOfSeq DEF Last
<1>4. /\ q \in Asking /\ q # NoAsk /\ q.pc = "served" /\ q.list = s
      /\ q.clear = ask[k].clear /\ q.alone = ask[k].alone
      /\ s # <<>> => q.lastId = Mine[Last(s)] /\ q.offset = TrailingEqual(Reader, s)
  <2> PICK x, o : /\ x = (IF s = <<>> THEN 0 ELSE Mine[Last(s)])
                  /\ o = (IF s = <<>> THEN 0 ELSE TrailingEqual(Reader, s))
    OBVIOUS
  <2>1. TrailingEqual(Reader, s) \in Nat
    BY <1>3, TrailingIsNat
  <2>2. x \in Int /\ o \in Nat
    BY <1>2, <1>3, <2>1
  <2>3. q = [ask[k] EXCEPT !.pc = "served", !.list = s, !.lastId = x, !.offset = o]
    OBVIOUS
  <2>4. q \in Asking /\ q.pc = "served" /\ q.list = s /\ q.clear = ask[k].clear
        /\ q.alone = ask[k].alone /\ q.lastId = x /\ q.offset = o
    BY <1>0, <1>3, <2>2, <2>3 DEF Asking
  <2>5. q # NoAsk
    BY <2>4 DEF NoAsk
  <2> QED  BY <2>4, <2>5
<1>5. ask'[k] = q /\ \A j \in Flights \ {k} : ask'[j] = ask[j]
  BY <1>1 DEF ScrollTypes
<1>6. ScrollTypes' /\ SingleInv'
  <2>1. ScrollTypes'
    BY <1>1, <1>4 DEF ScrollTypes
  <2>2. SingleInv'
    BY <1>0, <1>1, <1>4, <1>5 DEF SingleInv
  <2> QED  BY <2>1, <2>2
<1>7. Distinct(Reader)' = Distinct(Reader) /\ Mine' = Mine /\ Due' \subseteq Blogs
  BY <1>1 DEF Distinct, Mine, Due
<1>8. ASSUME Distinct(Reader), ask[k].offset \in {0, 1}, s # <<>>,
             ask[k].offset = 1 => \E c \in Blogs : Mine[c] > 0 /\ Mine[c] = ask[k].lastId
      PROVE  Answers(Mine', Due', q, ask[k].lastId - ask[k].offset)
  <2>1. /\ Stretch(Mine, Blogs, s, ask[k].lastId - ask[k].offset)
        /\ TrailingEqual(Reader, s) = 1
    BY <1>0, <1>2, <1>8, PageIsStretch
  <2>2. Stretch(Mine', Due', s, ask[k].lastId - ask[k].offset)
    BY <1>7, <2>1 DEF Stretch
  <2> QED  BY <1>4, <1>7, <1>8, <2>1, <2>2 DEF Answers, Below
<1>9. ASSUME Distinct(Reader)', NEW j \in Flights PROVE RefreshOK(j)'
  <2>1. RefreshOK(j) /\ RefreshOK(k)
    BY <1>7, <1>9 DEF ScrollOK
  <2>2. CASE j = k
    <3> SUFFICES ASSUME q.clear, q.alone PROVE Answers(Mine', Due', q, page.top)
      BY <1>1, <1>4, <1>5, <2>2 DEF RefreshOK
    <3>1. ask[k].lastId = page.top /\ ask[k].offset = 0 /\ page.top \in Int
      BY <1>0, <1>4, <2>1 DEF RefreshOK, ScrollTypes
    <3>2. s # <<>> => Answers(Mine', Due', q, page.top - 0)
      BY <1>7, <1>8, <1>9, <3>1
    <3> QED  BY <1>4, <3>1, <3>2 DEF Answers
  <2>3. CASE j # k /\ ask[j] # NoAsk
    <3>1. ~ask[j].alone
      BY <1>0, <2>3 DEF SingleInv
    <3> QED  BY <1>5, <2>3, <3>1 DEF RefreshOK
  <2>4. CASE j # k /\ ask[j] = NoAsk
    BY <1>5, <2>4 DEF RefreshOK
  <2> QED  BY <2>2, <2>3, <2>4
<1>10. ASSUME Distinct(Reader)', ~blurred' PROVE PageOK' /\ \A j \in Flights : NextOK(j)'
  <2>1. PageOK /\ NextOK(k) /\ \A j \in Flights \ {k} : ask[j] = NoAsk
    BY <1>0, <1>1, <1>7, <1>10 DEF ScrollOK, SingleInv
  <2>2. Refreshing' <=> ask[k].clear
    BY <1>4, <1>5, <2>1 DEF Refreshing
  <2>3. Refreshing <=> ask[k].clear
    BY <1>0, <2>1 DEF Refreshing
  <2>4. PageOK'
    <3>1. CASE ask[k].clear
      BY <1>1, <1>7, <2>1, <2>2, <3>1 DEF PageOK
    <3>2. CASE ~ask[k].clear
      <4>1. Due' = Due
        BY <1>1, <3>2 DEF Due
      <4> QED  BY <1>1, <1>7, <2>1, <2>2, <2>3, <3>2, <4>1 DEF PageOK
    <3> QED  BY <3>1, <3>2
  <2>5. NextOK(k)'
    <3> SUFFICES ASSUME ~ask[k].clear
                 PROVE  page.list # <<>> /\ Answers(Mine', Due', q, page.minTime - 1)
      BY <1>1, <1>4, <1>5 DEF NextOK
    <3>1. /\ page.list # <<>> /\ ask[k].lastId = page.minTime /\ ask[k].offset = page.offset
          /\ page.list \in Seq(Blogs)
      BY <1>0, <2>1 DEF NextOK, ScrollTypes
    <3>2. page.minTime = Mine[Last(page.list)] /\ page.offset = 1 /\ Falling(Mine, page.list)
      BY <2>1, <2>3, <3>1 DEF PageOK, Below
    <3>3. Last(page.list) \in Blogs /\ Mine[Last(page.list)] > 0
      <4>1. Len(page.list) \in DOMAIN page.list /\ Len(page.list) \in 1..Len(page.list)
        BY <3>1, EmptySeq, LenProperties
      <4> QED  BY <3>1, <3>2, <4>1, ElementOfSeq DEF Falling, Last
    <3>4. s # <<>> => Answers(Mine', Due', q, page.minTime - 1)
      BY <1>7, <1>8, <1>10, <3>1, <3>2, <3>3
    <3> QED  BY <1>4, <3>1, <3>4 DEF Answers
  <2>6. \A j \in Flights \ {k} : NextOK(j)'
    BY <1>5, <2>1 DEF NextOK
  <2> QED  BY <2>4, <2>5, <2>6
<1> QED  BY <1>6, <1>9, <1>10 DEF ScrollOK

\* A read that fails, or an answer that is lost, tells the page nothing.
LEMMA FailScrolls ==
    ASSUME ScrollTypes, SingleInv, ScrollOK, NEW k \in Flights, FailAsk(k)
    PROVE  ScrollTypes' /\ SingleInv' /\ ScrollOK'
<1> PICK q : q = [ask[k] EXCEPT !.pc = "served", !.list = <<>>]
  OBVIOUS
<1>0. ask[k] \in Asking /\ ask[k] # NoAsk
  BY AskingFields DEF FailAsk
<1>1. /\ ask' = [ask EXCEPT ![k] = q]
      /\ UNCHANGED <<feed, page, late, blurred>>
  BY DEF FailAsk, publishVars
<1>2. /\ q \in Asking /\ q # NoAsk /\ q.pc = "served" /\ q.list = <<>>
      /\ q.clear = ask[k].clear /\ q.alone = ask[k].alone
  BY <1>0, EmptySeq DEF Asking, NoAsk
<1>3. ask'[k] = q /\ \A j \in Flights \ {k} : ask'[j] = ask[j]
  BY <1>1 DEF ScrollTypes
<1>4. ScrollTypes'
  BY <1>1, <1>2 DEF ScrollTypes
<1>5. SingleInv'
  BY <1>0, <1>1, <1>2, <1>3 DEF SingleInv
<1>6. /\ Distinct(Reader)' = Distinct(Reader) /\ Mine' = Mine /\ Due' = Due
      /\ Refreshing' = Refreshing
  BY <1>0, <1>1, <1>2, <1>3 DEF Distinct, Mine, Due, Refreshing
<1>7. PageOK' = PageOK
  BY <1>1, <1>6 DEF PageOK
<1>8. ASSUME NEW j \in Flights
      PROVE  (RefreshOK(j) => RefreshOK(j)') /\ (NextOK(j) => NextOK(j)')
  <2>1. CASE j = k
    BY <1>0, <1>1, <1>2, <1>3, <2>1 DEF RefreshOK, NextOK, Answers
  <2>2. CASE j # k
    BY <1>1, <1>3, <1>6, <2>2 DEF RefreshOK, NextOK
  <2> QED  BY <2>1, <2>2
<1> QED  BY <1>1, <1>4, <1>5, <1>6, <1>7, <1>8 DEF ScrollOK

\* An answer that met no other request is the list, or goes on with it.
LEMMA ReceiveScrolls ==
    ASSUME PublishInv, ScrollTypes, SingleInv, ScrollOK, NEW k \in Flights, ReceiveAsk(k)
    PROVE  ScrollTypes' /\ SingleInv' /\ ScrollOK'
<1> PICK a : a = ask[k]
  OBVIOUS
<1>0. /\ a # NoAsk /\ a.pc = "served" /\ a.clear \in BOOLEAN /\ a.alone \in BOOLEAN
      /\ a.lastId \in Int /\ a.offset \in Nat /\ a.list \in Seq(Blogs)
  BY AskingFields DEF ReceiveAsk
<1>1. /\ page' = IF a.list = <<>> THEN page
                 ELSE [page EXCEPT !.list = IF a.clear THEN a.list ELSE @ \o a.list,
                                   !.minTime = a.lastId, !.offset = a.offset]
      /\ blurred' = IF a.clear THEN a.list = <<>> \/ ~a.alone ELSE blurred
      /\ ask' = [ask EXCEPT ![k] = NoAsk]
      /\ feed' = feed /\ late' = late
  BY DEF ReceiveAsk, publishVars
<1>2. /\ page \in [list : Seq(Blogs), minTime : Int, offset : Nat, top : Int]
      /\ page.list \in Seq(Blogs) /\ page.top \in Int
  BY DEF ScrollTypes
<1>3. PICK l \in Seq(Blogs) : l = IF a.clear THEN a.list ELSE page.list \o a.list
  BY <1>0, <1>2, ConcatProperties
<1>4. /\ page' \in [list : Seq(Blogs), minTime : Int, offset : Nat, top : Int]
      /\ page'.top = page.top
      /\ a.list = <<>> => page' = page
      /\ a.list # <<>> => page'.list = l /\ page'.minTime = a.lastId /\ page'.offset = a.offset
  BY <1>0, <1>1, <1>2, <1>3
<1>5. ask'[k] = NoAsk /\ \A j \in Flights \ {k} : ask'[j] = ask[j]
  BY <1>1 DEF ScrollTypes
<1>6. blurred' \in BOOLEAN
  BY <1>0, <1>1 DEF ScrollTypes
<1>7. ScrollTypes'
  BY <1>1, <1>4, <1>6 DEF ScrollTypes
<1>8. ~blurred' => a.alone /\ \A j \in Flights : ask'[j] = NoAsk
  <2>1. ~blurred' => a.alone
    BY <1>0, <1>1 DEF SingleInv
  <2> QED  BY <1>0, <1>5, <2>1 DEF SingleInv
<1>9. SingleInv'
  BY <1>5, <1>8 DEF SingleInv
<1>10. Distinct(Reader)' = Distinct(Reader) /\ Mine' = Mine /\ Due' = Due
  BY <1>1 DEF Distinct, Mine, Due
<1>11. ASSUME Distinct(Reader)', NEW j \in Flights PROVE RefreshOK(j)'
  BY <1>0, <1>5 DEF RefreshOK, SingleInv
<1>12. ASSUME Distinct(Reader)', ~blurred' PROVE PageOK' /\ \A j \in Flights : NextOK(j)'
  <2>1. \A j \in Flights : NextOK(j)'
    BY <1>8, <1>12 DEF NextOK
  <2>2. CASE a.clear
    <3>1. a.list # <<>> /\ a.alone /\ RefreshOK(k)
      BY <1>1, <1>8, <1>10, <1>12, <2>2 DEF ScrollOK
    <3>2. Stretch(Mine, Due, a.list, page.top) /\ Below(Mine, a.list, a.lastId, a.offset)
      BY <1>0, <2>2, <3>1 DEF RefreshOK, Answers
    <3>3. page'.list = a.list /\ page'.minTime = a.lastId /\ page'.offset = a.offset
      BY <1>3, <1>4, <2>2, <3>1
    <3> QED  BY <1>4, <1>10, <2>1, <3>1, <3>2, <3>3 DEF PageOK, Stretch
  <2>3. CASE ~a.clear
    <3>1. PageOK /\ NextOK(k) /\ ~Refreshing
      BY <1>0, <1>1, <1>8, <1>5, <1>10, <1>12, <2>3 DEF ScrollOK, Refreshing
    <3>2. /\ Stretch(Mine, Due, page.list, page.top) /\ page.minTime = Mine[Last(page.list)]
          /\ page.list # <<>>
      BY <1>0, <2>3, <3>1 DEF PageOK, NextOK, Below
    <3>3. CASE a.list = <<>>
      BY <1>4, <1>10, <2>1, <3>1, <3>2, <3>3 DEF PageOK
    <3>4. CASE a.list # <<>>
      <4>1. Stretch(Mine, Due, a.list, page.minTime - 1) /\ Below(Mine, a.list, a.lastId, a.offset)
        BY <1>0, <2>3, <3>1, <3>4 DEF NextOK, Answers
      <4>2. Mine \in [Blogs -> Scores] /\ Due \subseteq Blogs
        BY ReaderAssumption DEF PublishInv, PublishTypes, Mine, Due
      <4>3. Stretch(Mine, Due, l, page.top) /\ Last(l) = Last(a.list) /\ Falling(Mine, l)
        <5> PICK p \in Seq(Blogs), r \in Seq(Blogs), top \in Int :
                   p = page.list /\ r = a.list /\ top = page.top
          BY <1>0, <1>2
        <5>1. Stretch(Mine, Due, p, top) /\ Stretch(Mine, Due, r, Mine[Last(p)] - 1)
          BY <3>2, <4>1
        <5>2. /\ Stretch(Mine, Due, p \o r, top) /\ Last(p \o r) = Last(r)
              /\ Falling(Mine, p \o r)
          BY <4>2, <5>1, StretchesJoin
        <5> QED  BY <1>3, <2>3, <5>2
      <4>4. Below(Mine, l, a.lastId, a.offset) /\ l # <<>>
        BY <4>1, <4>3 DEF Below, Stretch
      <4> QED  BY <1>4, <1>10, <2>1, <3>4, <4>3, <4>4 DEF PageOK
    <3> QED  BY <3>3, <3>4
  <2> QED  BY <1>0, <2>2, <2>3
<1> QED  BY <1>7, <1>9, <1>11, <1>12 DEF ScrollOK

\* The page begins empty with nothing under way.
LEMMA ScrollInvInit == FeedInit => ScrollInv
<1> SUFFICES ASSUME FeedInit PROVE ScrollInv
  OBVIOUS
<1>1. PushOnce
  <2>1. \A b \in Blogs : post[b].pc = "draft"
    BY DEF FeedInit, NoPost
  <2> QED  BY <2>1 DEF PushOnce
<1>2. ScrollTypes /\ SingleInv
  <2>1. <<>> \in Seq(Blogs)
    BY EmptySeq
  <2>2. page \in [list : Seq(Blogs), minTime : Int, offset : Nat, top : Int]
    BY <2>1 DEF FeedInit
  <2> QED  BY <2>2 DEF FeedInit, ScrollTypes, SingleInv
<1>3. \A k \in Flights : RefreshOK(k) /\ NextOK(k)
  BY DEF FeedInit, RefreshOK, NextOK
<1>4. PageOK
  BY EmptySeq DEF FeedInit, PageOK, Falling
<1> QED  BY <1>1, <1>2, <1>3, <1>4, PublishInvInit DEF ScrollInv, ScrollOK

\* Every step keeps what scrolling relies on.
LEMMA ScrollInvNext == ScrollInv /\ [FeedNext]_feedVars => ScrollInv'
<1> SUFFICES ASSUME ScrollInv, [FeedNext]_feedVars PROVE ScrollInv'
  OBVIOUS
<1>1. PublishInv /\ PushOnce /\ ScrollTypes /\ SingleInv /\ ScrollOK
  BY DEF ScrollInv
<1>2. PublishInv' /\ PushOnce'
  BY <1>1, PublishInvNext, PushOnceNext
<1>3. ASSUME UNCHANGED <<feed, page, ask, late, blurred>>
      PROVE  ScrollTypes' /\ SingleInv' /\ ScrollOK'
  BY <1>1, <1>3, QuietScrolls
<1>4. ASSUME Tick \/ Move PROVE ScrollTypes' /\ SingleInv' /\ ScrollOK'
  BY <1>3, <1>4 DEF Tick, Move, scrollVars
<1>5. ASSUME NEW b \in Blogs, SaveBlog(b) PROVE ScrollTypes' /\ SingleInv' /\ ScrollOK'
  <2>1. CASE \E f \in Fans : Push(b, f)
    BY <1>1, <2>1, PushScrolls
  <2>2. CASE (\E a \in Authors : StorePost(b, a)) \/ ReadFans(b) \/ EndPost(b) \/ FailPost(b)
    BY <1>1, <2>2, QuietScrolls DEF StorePost, ReadFans, EndPost, FailPost, scrollVars
  <2> QED  BY <1>5, <2>1, <2>2 DEF SaveBlog
<1>6. ASSUME NEW k \in Flights, Scroll(k) PROVE ScrollTypes' /\ SingleInv' /\ ScrollOK'
  BY <1>1, <1>6, SendScrolls, ServeScrolls, FailScrolls, ReceiveScrolls DEF Scroll
<1>7. ASSUME UNCHANGED feedVars PROVE ScrollTypes' /\ SingleInv' /\ ScrollOK'
  BY <1>3, <1>7 DEF feedVars, publishVars, scrollVars
<1>8. ScrollTypes' /\ SingleInv' /\ ScrollOK'
  BY <1>4, <1>5, <1>6, <1>7 DEF FeedNext
<1> QED  BY <1>2, <1>8 DEF ScrollInv

\* However blogs are pushed while the user scrolls, the page shows the newest
\* first and nothing twice, for pages of any size, any number of requests and
\* any lag of the browser's clock.
THEOREM ScrollIsOrdered == FeedSpec => []ScrollOrder
<1>1. ScrollInv => ScrollOrder
  BY DEF ScrollInv, ScrollOK, PageOK, Falling, Mine, ScrollOrder
<1> QED  BY <1>1, ScrollInvInit, ScrollInvNext, PTL DEF FeedSpec

\* Nor does scrolling skip a blog that was not pushed behind the reader: the
\* offset of the next page never cuts one off.
THEOREM ScrollSkipsNothing == FeedSpec => []ScrollComplete
<1>1. ScrollInv => ScrollComplete
  BY DEF ScrollInv, ScrollOK, PageOK, Stretch, Refreshing, Mine, Due, ScrollComplete
<1> QED  BY <1>1, ScrollInvInit, ScrollInvNext, PTL DEF FeedSpec

-----------------------------------------------------------------------------
(* The list of types *)

\* Whatever has come, all that precede it in the table came before it.
Followed(s) ==
    \A i \in DOMAIN s, k \in DOMAIN Table : s[i] = Table[k] =>
        \A m \in 1..(k - 1) : \E j \in 1..(i - 1) : s[j] = Table[m]

Filling(r) == reader[r].pc = "push"

\* A filler has pushed the table up to where it is, and while no push is lost
\* somebody is filling the list until it has all of it.
FillInv ==
    /\ Followed(list)
    /\ \A r \in Readers : Filling(r) =>
           \A m \in 1..(reader[r].next - 1) : Contains(list, Table[m])
    /\ list = <<>> \/ (\E r \in Readers : Filling(r)) \/ \A m \in DOMAIN Table : Contains(list, Table[m])
    /\ ShownIsPrefix

TypesInv ==
    /\ TypesTypeOK
    /\ \A r \in Readers : reader[r].pc \in {"read", "load"} => reader[r].next = 1
    /\ ~cutShort => FillInv

\* The places in a finite set of numbers are those from 0 to its size, in order.
LEMMA PlacesOrder ==
    ASSUME NEW S, IsFiniteSet(S), S \subseteq Int
    PROVE  /\ Cardinality(S) \in Nat
           /\ \A i \in S : Place(S, i) \in 0..(Cardinality(S) - 1)
           /\ \A i, j \in S : i < j => Place(S, i) < Place(S, j)
           /\ \A r \in 0..(Cardinality(S) - 1) : \E i \in S : Place(S, i) = r
<1> DEFINE Less(i) == {j \in S : j < i}
           n == Cardinality(S)
           T == 0..(n - 1)
<1>1. n \in Nat
  BY FS_CardinalityType
<1>2. ASSUME NEW i \in S
      PROVE  /\ IsFiniteSet(Less(i)) /\ Cardinality(Less(i)) \in Nat
             /\ i \notin Less(i) /\ Less(i) \subseteq S \ {i}
  <2>1. i \notin Less(i) /\ Less(i) \subseteq S \ {i}
    OBVIOUS
  <2> QED  BY <2>1, FS_Subset, FS_CardinalityType
<1>3. ASSUME NEW i \in S PROVE Cardinality(Less(i)) \in T
  <2>1. IsFiniteSet(S \ {i}) /\ Cardinality(S \ {i}) = n - 1
    BY FS_RemoveElement
  <2>2. Cardinality(Less(i)) <= Cardinality(S \ {i})
    BY <1>2, <2>1, FS_Subset
  <2>3. Cardinality(Less(i)) \in Nat
    BY <1>2
  <2> HIDE DEF Less, n
  <2> QED  BY <1>1, <2>1, <2>2, <2>3
<1>4. ASSUME NEW i \in S, NEW j \in S, i < j PROVE Cardinality(Less(i)) < Cardinality(Less(j))
  <2>1. i \in Less(j) /\ Less(i) \subseteq Less(j)
    <3>1. i \in Int /\ j \in Int
      OBVIOUS
    <3>2. ASSUME NEW k \in S, k < i PROVE k < j
      <4>1. k \in Int
        OBVIOUS
      <4> QED  BY <1>4, <3>1, <3>2, <4>1
    <3> QED  BY <1>4, <3>2
  <2>2. i \notin Less(i) /\ IsFiniteSet(Less(j)) /\ Cardinality(Less(i)) \in Nat /\ Cardinality(Less(j)) \in Nat
    BY <1>2
  <2> HIDE DEF Less
  <2>3. /\ Cardinality(Less(i)) <= Cardinality(Less(j))
        /\ Cardinality(Less(j)) = Cardinality(Less(i)) => Less(j) = Less(i)
    BY <2>1, <2>2, FS_Subset
  <2> QED  BY <2>1, <2>2, <2>3
<1> DEFINE place == [i \in S |-> Cardinality(Less(i))]
<1>5. place \in Injection(S, T)
  <2>1. place \in [S -> T]
    BY <1>3
  <2>2. ASSUME NEW i \in S, NEW j \in S, place[i] = place[j] PROVE i = j
    <3>1. \A a, b \in S : a < b => place[a] < place[b] /\ place[a] \in Int /\ place[b] \in Int
      BY <1>2, <1>4
    <3> HIDE DEF place
    <3> QED  BY <2>2, <3>1
  <2> HIDE DEF place
  <2> QED  BY <2>1, <2>2 DEF Injection, IsInjective
<1>6. IsFiniteSet(T) /\ Cardinality(T) = n
  <2> HIDE DEF n
  <2>1. 0 \in Int /\ n - 1 \in Int
    BY <1>1
  <2>2. /\ IsFiniteSet(0..(n - 1))
        /\ Cardinality(0..(n - 1)) = IF 0 > n - 1 THEN 0 ELSE n - 1 - 0 + 1
    BY <2>1, FS_Interval
  <2> QED  BY <1>1, <2>2
<1>7. place \in Surjection(S, T)
  <2> HIDE DEF place, T
  <2> QED  BY <1>5, <1>6, FS_Injection
<1>8. \A r \in T : \E i \in S : Cardinality(Less(i)) = r
  BY <1>7 DEF Surjection
<1> QED  BY <1>1, <1>3, <1>4, <1>8 DEF Place

\* What is in a sequence is there for a first time.
LEMMA FirstOne ==
    ASSUME NEW s \in Seq(Range(Table)), NEW i \in DOMAIN s
    PROVE  /\ Firsts(s) \subseteq 1..Len(s) /\ IsFiniteSet(Firsts(s)) /\ Firsts(s) \subseteq Int
           /\ \E j \in Firsts(s) : j <= i /\ s[j] = s[i]
<1>1. DOMAIN s = 1..Len(s) /\ Len(s) \in Nat
  BY LenProperties
<1>2. Firsts(s) \subseteq 1..Len(s) /\ IsFiniteSet(1..Len(s)) /\ 1..Len(s) \subseteq Int
  BY <1>1, FS_Interval DEF Firsts
<1> DEFINE S == {j \in DOMAIN s : s[j] = s[i]}
<1>3. S \subseteq 1..Len(s) /\ IsFiniteSet(S) /\ S \subseteq Int /\ i \in S
  BY <1>1, <1>2, FS_Subset
<1>4. PICK j \in S : Place(S, j) = 0
  <2>1. /\ Cardinality(S) \in Nat /\ Place(S, i) \in 0..(Cardinality(S) - 1)
        /\ \A r \in 0..(Cardinality(S) - 1) : \E j \in S : Place(S, j) = r
    BY <1>3, PlacesOrder
  <2>2. 0 \in 0..(Cardinality(S) - 1)
    BY <2>1
  <2> QED  BY <2>1, <2>2
<1>5. \A k \in S : ~(k < j)
  <2>1. \A k \in S : Place(S, k) \in 0..(Cardinality(S) - 1) /\ (k < j => Place(S, k) < Place(S, j))
    BY <1>3, PlacesOrder
  <2>2. Cardinality(S) \in Nat
    BY <1>3, PlacesOrder
  <2> HIDE DEF S
  <2> QED  BY <1>4, <2>1, <2>2
<1>6. j \in Firsts(s) /\ j <= i /\ s[j] = s[i]
  <2>1. j \in 1..Len(s) /\ s[j] = s[i] /\ i \in Int
    BY <1>1, <1>3
  <2>2. ASSUME NEW k \in 1..(j - 1) PROVE s[k] # s[j]
    <3>1. k \in 1..Len(s) /\ k < j
      BY <1>1, <2>1
    <3> QED  BY <1>1, <1>5, <2>1, <3>1
  <2>3. j <= i
    BY <1>3, <1>5, <2>1
  <2> QED  BY <1>1, <2>1, <2>2, <2>3 DEF Firsts
<1> QED  BY <1>2, <1>6, FS_Subset

\* A list in which everything has its predecessors before it shows the table up
\* to the last type it has.
LEMMA Decorated ==
    ASSUME NEW s \in Seq(Range(Table)), Followed(s)
    PROVE  \E n \in 0..Len(Table) :
             /\ DecorateTypes(s) = [k \in 1..n |-> Table[k]]
             /\ \A k \in DOMAIN Table : Contains(s, Table[k]) => k <= n
<1> DEFINE F == Firsts(s)
           n == Cardinality(F)
           N == Len(Table)
<1>1. /\ DOMAIN s = 1..Len(s) /\ Len(s) \in Nat /\ DOMAIN Table = 1..N /\ N \in Nat
      /\ \A k, m \in 1..N : Table[k] = Table[m] => k = m
      /\ \A i \in DOMAIN s : \E k \in 1..N : s[i] = Table[k]
  <2>1. \A i \in DOMAIN s : s[i] \in Range(Table)
    BY LenProperties, ElementOfSeq
  <2> QED  BY <2>1, TableAssumption, LenProperties DEF IsInjective, Range
<1>2. /\ F \subseteq 1..Len(s) /\ IsFiniteSet(F) /\ F \subseteq Int
      /\ \A i \in DOMAIN s : \E j \in F : j <= i /\ s[j] = s[i]
  <2>1. CASE DOMAIN s = {}
    BY <2>1, FS_EmptySet DEF Firsts
  <2>2. CASE DOMAIN s # {}
    BY <2>2, FirstOne
  <2> QED  BY <2>1, <2>2
<1>3. /\ \A i, j \in F : s[i] = s[j] => i = j
      /\ \A i \in F : \A j \in 1..Len(s) : j < i => s[j] # s[i]
  <2>1. \A i \in F : i \in 1..Len(s) /\ \A j \in 1..(i - 1) : s[j] # s[i]
    BY <1>1, <1>2 DEF Firsts
  <2>2. \A i, j \in 1..Len(s) : (j < i => j \in 1..(i - 1)) /\ (i = j \/ i < j \/ j < i)
    BY <1>1
  <2> HIDE DEF F
  <2> QED  BY <2>1, <2>2
<1> HIDE DEF F, N
<1>0. ASSUME NEW i \in 1..Len(s), NEW m \in 1..N, s[i] = Table[m], NEW k \in 1..N, k < m
      PROVE  \E a \in 1..Len(s) : a < i /\ s[a] = Table[k]
  <2>1. k \in 1..(m - 1) /\ i \in DOMAIN s /\ m \in DOMAIN Table
    BY <1>0, <1>1
  <2>2. PICK a \in 1..(i - 1) : s[a] = Table[k]
    BY <1>0, <2>1 DEF Followed
  <2>3. a \in 1..Len(s) /\ a < i
    OBVIOUS
  <2> QED  BY <2>2, <2>3
<1>4. ASSUME NEW i \in F, NEW m \in 1..N, s[i] = Table[m] PROVE Place(F, i) = m - 1
  <2> DEFINE Less == {j \in F : j < i}
             idx == [j \in Less |-> CHOOSE k \in 1..N : s[j] = Table[k]]
  <2>0. i \in 1..Len(s) /\ \A j \in F : j \in 1..Len(s)
    BY <1>2
  <2>1. \A j \in F : \A k \in 1..N : s[j] = Table[k] => (j < i <=> k < m)
    <3> SUFFICES ASSUME NEW j \in F, NEW k \in 1..N, s[j] = Table[k] PROVE j < i <=> k < m
      OBVIOUS
    <3>0. s[j] = Table[k]
      OBVIOUS
    <3>1. k = m => j = i
      BY <1>3, <1>4
    <3>2. ASSUME k < m PROVE j < i
      <4>1. PICK a \in 1..Len(s) : a < i /\ s[a] = Table[k]
        BY <1>0, <1>4, <2>0, <3>2
      <4>2. ~(a < j)
        BY <1>3, <3>0, <4>1
      <4> QED  BY <2>0, <4>1, <4>2
    <3>3. ASSUME m < k PROVE i < j
      <4>1. PICK a \in 1..Len(s) : a < j /\ s[a] = Table[m]
        BY <1>0, <2>0, <3>0, <3>3
      <4>2. ~(a < i)
        BY <1>3, <1>4, <4>1
      <4> QED  BY <2>0, <4>1, <4>2
    <3>4. i \in Int /\ j \in Int /\ k \in Int /\ m \in Int
      BY <1>1, <2>0
    <3> QED  BY <3>1, <3>2, <3>3, <3>4
  <2>2. \A j \in Less : idx[j] \in 1..N /\ s[j] = Table[idx[j]] /\ idx[j] < m
    <3>1. \A j \in Less : \E k \in 1..N : s[j] = Table[k]
      BY <1>1, <1>2
    <3>2. \A j \in Less : idx[j] \in 1..N /\ s[j] = Table[idx[j]]
      BY <3>1
    <3> QED  BY <2>1, <3>2
  <2>3. idx \in [Less -> 1..(m - 1)]
    BY <1>1, <2>2
  <2>4. \A a, b \in Less : idx[a] = idx[b] => a = b
    BY <1>3, <2>2
  <2>5. \A k \in 1..(m - 1) : \E j \in Less : idx[j] = k
    <3> SUFFICES ASSUME NEW k \in 1..(m - 1) PROVE \E j \in Less : idx[j] = k
      OBVIOUS
    <3>1. k \in 1..N /\ k < m
      BY <1>1
    <3>2. PICK a \in 1..Len(s) : s[a] = Table[k]
      BY <1>0, <1>4, <2>0, <3>1
    <3>3. a \in DOMAIN s
      BY <1>1
    <3>4. PICK j \in F : s[j] = Table[k]
      BY <1>2, <3>2, <3>3
    <3>5. j \in Less
      BY <2>1, <3>1, <3>4
    <3> QED  BY <1>1, <2>2, <3>1, <3>4, <3>5
  <2> HIDE DEF idx
  <2>6. idx \in Bijection(Less, 1..(m - 1))
    BY <2>3, <2>4, <2>5 DEF Bijection, Injection, Surjection, IsInjective
  <2>7. IsFiniteSet(Less)
    BY <1>2, FS_Subset
  <2>8. Cardinality(1..(m - 1)) = Cardinality(Less)
    <3> HIDE DEF Less
    <3> QED  BY <2>6, <2>7, FS_Bijection DEF ExistsBijection
  <2>9. Cardinality(1..(m - 1)) = m - 1
    <3>1. m - 1 \in Int /\ 1 \in Int /\ m >= 1
      BY <1>1
    <3>2. Cardinality(1..(m - 1)) = IF 1 > m - 1 THEN 0 ELSE m - 1 - 1 + 1
      BY <3>1, FS_Interval
    <3> QED  BY <3>1, <3>2
  <2> QED  BY <2>8, <2>9 DEF Place
<1>5. /\ n \in Nat
      /\ \A i \in F : Place(F, i) \in 0..(n - 1)
      /\ \A r \in 0..(n - 1) : \E i \in F : Place(F, i) = r
  BY <1>2, PlacesOrder
<1> HIDE DEF n
<1>6. \A i \in F : Place(F, i) + 1 \in 1..N /\ s[i] = Table[Place(F, i) + 1]
  <2> SUFFICES ASSUME NEW i \in F PROVE Place(F, i) + 1 \in 1..N /\ s[i] = Table[Place(F, i) + 1]
    OBVIOUS
  <2>1. PICK m \in 1..N : s[i] = Table[m]
    BY <1>1, <1>2
  <2>2. Place(F, i) + 1 = m
    BY <1>1, <1>4, <2>1
  <2> QED  BY <2>1, <2>2
<1>7. n <= N
  <2>1. n > 0 => \E i \in F : Place(F, i) = n - 1
    BY <1>5
  <2> QED  BY <1>1, <1>5, <1>6, <2>1
<1>8. \A k \in 1..n : s[CHOOSE i \in F : Place(F, i) = k - 1] = Table[k]
  <2> SUFFICES ASSUME NEW k \in 1..n PROVE s[CHOOSE i \in F : Place(F, i) = k - 1] = Table[k]
    OBVIOUS
  <2>1. \E i \in F : Place(F, i) = k - 1
    BY <1>5
  <2>2. PICK i \in F : i = (CHOOSE j \in F : Place(F, j) = k - 1) /\ Place(F, i) = k - 1
    BY <2>1
  <2>3. s[i] = Table[k]
    BY <1>5, <1>6, <2>2
  <2> QED  BY <2>2, <2>3
<1>9. DecorateTypes(s) = [k \in 1..n |-> Table[k]]
  BY <1>8 DEF DecorateTypes, F, n
<1>10. ASSUME NEW k \in DOMAIN Table, Contains(s, Table[k]) PROVE k <= n
  <2>1. PICK i \in DOMAIN s : s[i] = Table[k]
    BY <1>1, <1>10 DEF Contains
  <2>2. PICK j \in F : s[j] = Table[k]
    BY <1>2, <2>1
  <2>3. Place(F, j) = k - 1
    BY <1>1, <1>4, <2>2
  <2> QED  BY <1>1, <1>5, <2>2, <2>3
<1> QED  BY <1>1, <1>5, <1>7, <1>9, <1>10 DEF N

\* What is shown is the table up to some type: a prefix, and all of it when the
\* list has all.
LEMMA DecoratedIsPrefix ==
    ASSUME NEW s \in Seq(Range(Table)), Followed(s)
    PROVE  /\ DecorateTypes(s) \in Seq(Range(Table)) /\ IsPrefix(DecorateTypes(s), Table)
           /\ (\A k \in DOMAIN Table : Contains(s, Table[k])) => DecorateTypes(s) = Table
<1>1. PICK n \in 0..Len(Table) :
         /\ DecorateTypes(s) = [k \in 1..n |-> Table[k]]
         /\ \A k \in DOMAIN Table : Contains(s, Table[k]) => k <= n
  BY Decorated
<1> PICK t : t = DecorateTypes(s)
  OBVIOUS
<1>2. Table \in Seq(Range(Table)) /\ DOMAIN Table = 1..Len(Table) /\ Len(Table) \in Nat
  BY TableAssumption, LenProperties
<1>3. n \in Nat /\ n <= Len(Table) /\ \A k \in 1..n : k \in DOMAIN Table
  BY <1>2
<1>4. t \in [1..n -> Range(Table)] /\ \A k \in 1..n : t[k] = Table[k]
  BY <1>1, <1>3 DEF Range
<1>5. t \in Seq(Range(Table)) /\ Len(t) = n /\ DOMAIN t = 1..n
  BY <1>3, <1>4, FunctionIsSeq
<1>6. SubSeq(t, 1, n) = SubSeq(Table, 1, n)
  <2>1. 1 \in Int /\ n \in Int /\ n - 1 + 1 = n /\ \A i \in 1..n : 1 + i - 1 = i
    BY <1>3
  <2>2. \A i \in 1..n : t[i] \in Range(Table) /\ Table[i] \in Range(Table)
    BY <1>4
  <2>3. /\ SubSeq(t, 1, n) \in Seq(Range(Table)) /\ SubSeq(Table, 1, n) \in Seq(Range(Table))
        /\ Len(SubSeq(t, 1, n)) = Len(SubSeq(Table, 1, n))
        /\ Len(SubSeq(t, 1, n)) = IF 1 <= n THEN n ELSE 0
        /\ \A i \in 1..n : SubSeq(t, 1, n)[i] = t[i] /\ SubSeq(Table, 1, n)[i] = Table[i]
    <3>1. /\ SubSeq(t, 1, n) \in Seq(Range(Table))
          /\ Len(SubSeq(t, 1, n)) = IF 1 <= n THEN n - 1 + 1 ELSE 0
          /\ \A i \in 1..(n - 1 + 1) : SubSeq(t, 1, n)[i] = t[1 + i - 1]
      BY <2>1, <2>2, SubSeqProperties
    <3>2. /\ SubSeq(Table, 1, n) \in Seq(Range(Table))
          /\ Len(SubSeq(Table, 1, n)) = IF 1 <= n THEN n - 1 + 1 ELSE 0
          /\ \A i \in 1..(n - 1 + 1) : SubSeq(Table, 1, n)[i] = Table[1 + i - 1]
      BY <2>1, <2>2, SubSeqProperties
    <3> QED  BY <2>1, <3>1, <3>2
  <2>4. \A i \in 1..Len(SubSeq(t, 1, n)) : SubSeq(t, 1, n)[i] = SubSeq(Table, 1, n)[i]
    <3>1. \A i \in 1..Len(SubSeq(t, 1, n)) : i \in 1..n
      BY <1>3, <2>3
    <3> QED  BY <1>4, <2>3, <3>1
  <2> QED  BY <2>3, <2>4, SeqEqual
<1>7. IsPrefix(t, Table)
  BY <1>3, <1>5, <1>6 DEF IsPrefix
<1>8. (\A k \in DOMAIN Table : Contains(s, Table[k])) => t = Table
  <2> SUFFICES ASSUME \A k \in DOMAIN Table : Contains(s, Table[k]) PROVE t = Table
    OBVIOUS
  <2>1. n = Len(Table)
    <3>1. Len(Table) > 0
      BY <1>2, TableAssumption, EmptySeq
    <3>2. Len(Table) \in DOMAIN Table
      BY <1>2, <3>1
    <3> QED  BY <1>1, <1>3, <3>2
  <2> QED  BY <1>2, <1>4, <1>5, <2>1, SeqEqual
<1> QED  BY <1>5, <1>7, <1>8

\* The table has every type once, each after those that precede it.
LEMMA TableOnce ==
    /\ DOMAIN Table = 1..Len(Table) /\ Len(Table) \in Nat
    /\ \A j, m \in DOMAIN Table : Table[j] = Table[m] => j = m
    /\ Table \in Seq(Range(Table)) /\ Followed(Table)
    /\ \A k \in DOMAIN Table : Contains(Table, Table[k])
<1>1. /\ DOMAIN Table = 1..Len(Table) /\ Len(Table) \in Nat /\ Table \in Seq(Range(Table))
      /\ \A j, m \in DOMAIN Table : Table[j] = Table[m] => j = m
  BY TableAssumption, LenProperties DEF IsInjective
<1> QED  BY <1>1 DEF Followed, Contains

\* A list that is added to in the order of the table keeps that order.
LEMMA PushFollows ==
    ASSUME NEW s \in Seq(Range(Table)), Followed(s), NEW k \in DOMAIN Table,
           \A m \in 1..(k - 1) : Contains(s, Table[m])
    PROVE  /\ Append(s, Table[k]) \in Seq(Range(Table)) /\ Followed(Append(s, Table[k]))
           /\ Contains(Append(s, Table[k]), Table[k])
           /\ \A t : Contains(s, t) => Contains(Append(s, Table[k]), t)
<1> PICK p : p = Append(s, Table[k])
  OBVIOUS
<1>1. Table[k] \in Range(Table)
  BY DEF Range
<1>2. /\ p \in Seq(Range(Table)) /\ Len(p) = Len(s) + 1 /\ p[Len(s) + 1] = Table[k]
      /\ \A i \in 1..Len(s) : p[i] = s[i]
  BY <1>1, AppendProperties
<1>3. Len(s) \in Nat /\ DOMAIN s = 1..Len(s) /\ DOMAIN p = 1..(Len(s) + 1)
  BY <1>2, LenProperties
<1>4. \A i \in 1..(Len(s) + 1) : i \in 1..Len(s) \/ i = Len(s) + 1
  BY <1>3
<1>5. \A t : Contains(s, t) => \E j \in 1..Len(s) : p[j] = t
  BY <1>2 DEF Contains
<1>6. \A j \in 1..Len(s) : j \in 1..(Len(s) + 1)
  BY <1>3
<1>7. ASSUME NEW i \in DOMAIN p, NEW l \in DOMAIN Table, p[i] = Table[l], NEW m \in 1..(l - 1)
      PROVE  \E j \in 1..(i - 1) : p[j] = Table[m]
  <2>1. CASE i \in 1..Len(s)
    <3>1. PICK j \in 1..(i - 1) : s[j] = Table[m]
      BY <1>2, <1>3, <1>7, <2>1 DEF Followed
    <3>2. j \in 1..Len(s)
      BY <1>3, <2>1
    <3> QED  BY <1>2, <3>1, <3>2
  <2>2. CASE i = Len(s) + 1
    <3>1. l = k
      BY TableOnce, <1>2, <1>7, <2>2
    <3>2. PICK j \in 1..Len(s) : p[j] = Table[m]
      BY <1>5, <3>1
    <3>3. j \in 1..(i - 1)
      BY <1>3, <2>2
    <3> QED  BY <3>2, <3>3
  <2> QED  BY <1>3, <1>4, <2>1, <2>2
<1>8. Followed(p)
  BY <1>7 DEF Followed
<1>9. Contains(p, Table[k]) /\ \A t : Contains(s, t) => Contains(p, t)
  <2>1. Len(s) + 1 \in 1..Len(p)
    BY <1>2, <1>3
  <2> QED  BY <1>2, <1>5, <1>6, <2>1 DEF Contains
<1> QED  BY <1>2, <1>8, <1>9

\* Whatever the list is like, what is shown is made of the types of the table.
LEMMA DecoratedTypes ==
    ASSUME NEW s \in Seq(Range(Table)) PROVE DecorateTypes(s) \in Seq(Range(Table))
<1> DEFINE F == Firsts(s)
           n == Cardinality(F)
<1>1. DOMAIN s = 1..Len(s) /\ Len(s) \in Nat /\ \A i \in 1..Len(s) : s[i] \in Range(Table)
  BY LenProperties, ElementOfSeq
<1>2. F \subseteq 1..Len(s) /\ IsFiniteSet(F) /\ F \subseteq Int
  <2>1. F \subseteq 1..Len(s) /\ IsFiniteSet(1..Len(s))
    BY <1>1, FS_Interval DEF Firsts
  <2> QED  BY <1>1, <2>1, FS_Subset
<1>3. n \in Nat /\ \A r \in 0..(n - 1) : \E i \in F : Place(F, i) = r
  BY <1>2, PlacesOrder
<1> DEFINE t == [k \in 1..n |-> s[CHOOSE i \in F : Place(F, i) = k - 1]]
<1>4. t = DecorateTypes(s)
  BY DEF DecorateTypes
<1> HIDE DEF F, n
<1>5. \A k \in 1..n : (CHOOSE i \in F : Place(F, i) = k - 1) \in F
  <2>1. \A k \in 1..n : \E i \in F : Place(F, i) = k - 1
    BY <1>3
  <2> QED  BY <2>1
<1>6. t \in [1..n -> Range(Table)]
  BY <1>1, <1>2, <1>5
<1> HIDE DEF t
<1>7. t \in Seq(Range(Table))
  BY <1>3, <1>6, FunctionIsSeq
<1> QED  BY <1>4, <1>7

\* What a filler pushed stays in the list, and who stops filling has pushed all.
LEMMA FillingStays ==
    ASSUME FillInv, NEW r \in Readers, ~cutShort,
           \A q \in Readers \ {r} : reader'[q] = reader[q],
           Followed(list'), \A t : Contains(list, t) => Contains(list', t),
           Filling(r)' => \A m \in 1..(reader'[r].next - 1) : Contains(list', Table[m]),
           \/ list' = list /\ (Filling(r) => Filling(r)')
           \/ Filling(r)'
           \/ \A m \in DOMAIN Table : Contains(list', Table[m]),
           \A q \in Readers : shown'[q] = shown[q] \/ IsPrefix(shown'[q], Table)
    PROVE  FillInv'
<1>1. \A q \in Readers : Filling(q)' => \A m \in 1..(reader'[q].next - 1) : Contains(list', Table[m])
  BY DEF FillInv, Filling
<1>2. list' = <<>> \/ (\E q \in Readers : Filling(q)') \/ \A m \in DOMAIN Table : Contains(list', Table[m])
  BY DEF FillInv, Filling
<1>3. ShownIsPrefix'
  BY DEF FillInv, ShownIsPrefix
<1> QED  BY <1>1, <1>2, <1>3 DEF FillInv, Filling

\* Every step keeps the list in order.
LEMMA TypesInvNext == TypesInv /\ [TypesNext]_typeVars => TypesInv'
<1> SUFFICES ASSUME TypesInv, [TypesNext]_typeVars PROVE TypesInv'
  OBVIOUS
<1>1. /\ list \in Seq(Range(Table)) /\ reader \in [Readers -> ReaderState]
      /\ shown \in [Readers -> Seq(Range(Table))] /\ cutShort \in BOOLEAN
      /\ typeFaults \in 0..MaxTypeFaults /\ TypesTypeOK
      /\ \A r \in Readers : reader[r].next \in 1..(Len(Table) + 1)
      /\ \A r \in Readers : reader[r].pc \in {"read", "load"} => reader[r].next = 1
      /\ ~cutShort => FillInv
  BY DEF TypesInv, TypesTypeOK, ReaderState
<1>2. Len(Table) \in Nat /\ DOMAIN Table = 1..Len(Table)
  BY TableOnce
<1>3. CASE UNCHANGED typeVars
  BY <1>1, <1>3 DEF typeVars, TypesInv, TypesTypeOK, FillInv, Filling, ShownIsPrefix
<1>4. ASSUME NEW r \in Readers, ReadList(r) PROVE TypesInv'
  <2>1. ~cutShort => Followed(list)
    BY <1>1 DEF FillInv
  <2>2. /\ list' = list /\ cutShort' = cutShort /\ typeFaults' = typeFaults
        /\ shown' = [shown EXCEPT ![r] = DecorateTypes(list)]
        /\ reader' = [reader EXCEPT ![r].pc = "done"] /\ reader[r].pc = "read"
    BY <1>4 DEF ReadList
  <2>3. /\ reader' \in [Readers -> ReaderState] /\ reader'[r].pc = "done"
        /\ \A q \in Readers \ {r} : reader'[q] = reader[q]
        /\ \A q \in Readers \ {r} : shown'[q] = shown[q]
        /\ shown'[r] = DecorateTypes(list)
    BY <1>1, <2>2 DEF ReaderState
  <2>4. DecorateTypes(list) \in Seq(Range(Table))
    BY <1>1, DecoratedTypes
  <2>5. TypesTypeOK'
    BY <1>1, <2>2, <2>3, <2>4 DEF TypesTypeOK
  <2>6. ASSUME ~cutShort PROVE FillInv'
    <3>1. IsPrefix(DecorateTypes(list), Table)
      BY <1>1, <2>1, <2>6, DecoratedIsPrefix
    <3> QED  BY <1>1, <2>1, <2>2, <2>3, <2>6, <3>1, FillingStays DEF Filling
  <2> QED  BY <1>1, <2>2, <2>3, <2>5, <2>6 DEF TypesInv
<1>5. ASSUME NEW r \in Readers, MissList(r) \/ FailRead(r) PROVE TypesInv'
  <2>1. /\ list' = list /\ cutShort' = cutShort /\ shown' = shown
        /\ reader' = [reader EXCEPT ![r].pc = "load"] /\ reader[r].pc = "read"
    BY <1>5 DEF MissList, FailRead
  <2>2. /\ reader' \in [Readers -> ReaderState] /\ reader'[r].pc = "load" /\ reader'[r].next = 1
        /\ \A q \in Readers \ {r} : reader'[q] = reader[q]
    BY <1>1, <2>1 DEF ReaderState
  <2>3. TypesTypeOK'
    BY <1>1, <1>5, <2>1, <2>2, TypeFaultsAssumption DEF TypesTypeOK, MissList, FailRead
  <2>4. ASSUME ~cutShort PROVE FillInv'
    <3>1. Followed(list)
      BY <1>1, <2>4 DEF FillInv
    <3> QED  BY <1>1, <2>1, <2>2, <2>4, <3>1, FillingStays DEF Filling
  <2> QED  BY <1>1, <2>1, <2>2, <2>3, <2>4 DEF TypesInv
<1>6. ASSUME NEW r \in Readers, LoadTypes(r) PROVE TypesInv'
  <2>1. /\ list' = list /\ cutShort' = cutShort /\ shown' = shown /\ typeFaults' = typeFaults
        /\ reader' = [reader EXCEPT ![r].pc = "push"] /\ reader[r].pc = "load"
    BY <1>6 DEF LoadTypes
  <2>2. /\ reader' \in [Readers -> ReaderState] /\ reader'[r].pc = "push" /\ reader'[r].next = 1
        /\ \A q \in Readers \ {r} : reader'[q] = reader[q]
    BY <1>1, <2>1 DEF ReaderState
  <2>3. TypesTypeOK'
    BY <1>1, <2>1, <2>2 DEF TypesTypeOK
  <2>4. ASSUME ~cutShort PROVE FillInv'
    <3>1. Followed(list)
      BY <1>1, <2>4 DEF FillInv
    <3> QED  BY <1>1, <2>1, <2>2, <2>4, <3>1, FillingStays DEF Filling
  <2> QED  BY <1>1, <2>1, <2>2, <2>3, <2>4 DEF TypesInv
<1>7. ASSUME NEW r \in Readers, PushType(r) PROVE TypesInv'
  <2>1. PICK k \in DOMAIN Table : k = reader[r].next
    BY <1>1, <1>2, <1>7 DEF PushType
  <2>2. /\ list' = Append(list, Table[k]) /\ cutShort' = cutShort /\ shown' = shown
        /\ typeFaults' = typeFaults
        /\ reader' = [reader EXCEPT ![r].next = k + 1] /\ reader[r].pc = "push"
    BY <1>1, <1>7, <2>1 DEF PushType
  <2>3. /\ reader' \in [Readers -> ReaderState] /\ reader'[r].pc = "push" /\ reader'[r].next = k + 1
        /\ \A q \in Readers \ {r} : reader'[q] = reader[q]
    BY <1>1, <1>2, <2>2 DEF ReaderState
  <2>4. list' \in Seq(Range(Table))
    BY <1>1, <2>2, AppendProperties DEF Range
  <2>5. TypesTypeOK'
    BY <1>1, <2>2, <2>3, <2>4 DEF TypesTypeOK
  <2>6. ASSUME ~cutShort PROVE FillInv'
    <3>1. Followed(list) /\ \A m \in 1..(k - 1) : Contains(list, Table[m])
      BY <1>1, <2>1, <2>2, <2>6 DEF FillInv, Filling
    <3>2. /\ Followed(list') /\ Contains(list', Table[k])
          /\ \A t : Contains(list, t) => Contains(list', t)
      BY <1>1, <2>2, <3>1, PushFollows
    <3>3. \A m \in 1..(k + 1 - 1) : m \in 1..(k - 1) \/ m = k
      BY <1>2
    <3>4. ASSUME NEW m \in 1..(k + 1 - 1) PROVE Contains(list', Table[m])
      <4>1. CASE m = k
        BY <3>2, <4>1
      <4>2. CASE m \in 1..(k - 1)
        <5>1. Contains(list, Table[m])
          BY <3>1, <4>2
        <5> QED  BY <3>2, <5>1
      <4> QED  BY <3>3, <4>1, <4>2
    <3>7. \A m \in 1..(reader'[r].next - 1) : Contains(list', Table[m])
      <4>1. reader'[r].next - 1 = k + 1 - 1
        <5>1. reader'[r].next = k + 1 /\ k \in Int
          BY <1>2, <2>3
        <5> QED  BY <5>1
      <4> QED  BY <3>4, <4>1
    <3>5. Filling(r)'
      BY <2>3 DEF Filling
    <3>6. FillInv
      BY <1>1, <2>6
    <3> QED  BY <2>2, <2>3, <2>6, <3>2, <3>5, <3>6, <3>7, FillingStays
  <2> QED  BY <1>1, <2>2, <2>3, <2>5, <2>6 DEF TypesInv
<1>8. ASSUME NEW r \in Readers, LosePush(r) \/ StopFilling(r) PROVE TypesInv'
  <2>1. /\ list' = list /\ cutShort' = TRUE /\ shown' = shown /\ typeFaults' = typeFaults + 1
        /\ typeFaults < MaxTypeFaults
        /\ \/ reader' = [reader EXCEPT ![r].next = @ + 1] /\ reader[r].next <= Len(Table)
           \/ reader' = [reader EXCEPT ![r].pc = "done"]
        /\ reader[r].pc = "push"
    BY <1>8 DEF LosePush, StopFilling
  <2>2. /\ reader' \in [Readers -> ReaderState] /\ reader'[r].pc \in {"push", "done"}
        /\ \A q \in Readers \ {r} : reader'[q] = reader[q]
    <3>1. PICK n \in Int : n = reader[r].next
      BY <1>1
    <3>2. CASE reader' = [reader EXCEPT ![r].next = @ + 1] /\ reader[r].next <= Len(Table)
      <4>1. n + 1 \in 1..(Len(Table) + 1)
        BY <1>1, <1>2, <3>1, <3>2
      <4>2. reader'[r] = [reader[r] EXCEPT !.next = n + 1] /\ reader[r] \in ReaderState
        BY <1>1, <3>1, <3>2
      <4>3. reader'[r] \in ReaderState /\ reader'[r].pc = "push"
        BY <2>1, <4>1, <4>2 DEF ReaderState
      <4> QED  BY <1>1, <3>2, <4>3
    <3>3. CASE reader' = [reader EXCEPT ![r].pc = "done"]
      BY <1>1, <3>3 DEF ReaderState
    <3> QED  BY <2>1, <3>2, <3>3
  <2>3. TypesTypeOK'
    BY <1>1, <2>1, <2>2, TypeFaultsAssumption DEF TypesTypeOK
  <2> QED  BY <1>1, <2>1, <2>2, <2>3 DEF TypesInv
<1>9. ASSUME NEW r \in Readers, AnswerLoaded(r) PROVE TypesInv'
  <2>1. /\ list' = list /\ cutShort' = cutShort /\ typeFaults' = typeFaults
        /\ shown' = [shown EXCEPT ![r] = DecorateTypes(Table)]
        /\ reader' = [reader EXCEPT ![r].pc = "done"] /\ reader[r].pc = "push"
        /\ reader[r].next > Len(Table)
    BY <1>9 DEF AnswerLoaded
  <2>2. /\ reader' \in [Readers -> ReaderState] /\ reader'[r].pc = "done"
        /\ \A q \in Readers \ {r} : reader'[q] = reader[q]
        /\ \A q \in Readers \ {r} : shown'[q] = shown[q]
        /\ shown'[r] = DecorateTypes(Table)
    BY <1>1, <2>1 DEF ReaderState
  <2>3. DecorateTypes(Table) \in Seq(Range(Table)) /\ IsPrefix(DecorateTypes(Table), Table)
    BY TableOnce, DecoratedIsPrefix
  <2>4. TypesTypeOK'
    BY <1>1, <2>1, <2>2, <2>3 DEF TypesTypeOK
  <2>5. ASSUME ~cutShort PROVE FillInv'
    <3>1. Followed(list) /\ \A m \in 1..(reader[r].next - 1) : Contains(list, Table[m])
      BY <1>1, <2>1, <2>5 DEF FillInv, Filling
    <3>2. \A m \in DOMAIN Table : m \in 1..(reader[r].next - 1)
      BY <1>1, <1>2, <2>1
    <3>3. \A m \in DOMAIN Table : Contains(list, Table[m])
      BY <3>1, <3>2
    <3> QED  BY <1>1, <2>1, <2>2, <2>3, <2>5, <3>1, <3>3, FillingStays DEF Filling
  <2> QED  BY <1>1, <2>1, <2>2, <2>4, <2>5 DEF TypesInv
<1> QED  BY <1>3, <1>4, <1>5, <1>6, <1>7, <1>8, <1>9 DEF TypesNext

\* The list is empty and nobody reads it.
LEMMA TypesInvInit == TypesInit => TypesInv
<1> SUFFICES ASSUME TypesInit PROVE TypesInv
  OBVIOUS
<1>1. <<>> \in Seq(Range(Table)) /\ Len(Table) \in Nat /\ DOMAIN <<>> = {} /\ Len(<<>>) = 0
  BY TableOnce, EmptySeq
<1>2. TypesTypeOK
  <2>1. 1 \in 1..(Len(Table) + 1) /\ 0 \in 0..MaxTypeFaults
    BY <1>1, TypeFaultsAssumption
  <2>2. reader \in [Readers -> ReaderState]
    BY <2>1 DEF TypesInit, ReaderState
  <2>3. shown \in [Readers -> Seq(Range(Table))]
    BY <1>1 DEF TypesInit
  <2> QED  BY <1>1, <2>1, <2>2, <2>3 DEF TypesInit, TypesTypeOK
<1>3. FillInv
  <2>1. SubSeq(<<>>, 1, 0) = <<>> /\ SubSeq(Table, 1, 0) = <<>>
    BY SubSeqEmpty
  <2>2. IsPrefix(<<>>, Table)
    BY <1>1, <2>1 DEF IsPrefix
  <2> QED  BY <1>1, <2>2 DEF TypesInit, FillInv, Followed, Filling, ShownIsPrefix
<1> QED  BY <1>2, <1>3 DEF TypesInit, TypesInv

\* However many readers fill the list at once, each shows the types in the
\* order of the table, each once and none left out before the last one; and
\* once nobody fills the list it has all of them, for a table of any length.
THEOREM TypesComeInOrder == TypesSpec => []TypesInOrder
<1>1. TypesInv => TypesInOrder
  <2> SUFFICES ASSUME TypesInv PROVE ShownIsPrefix /\ FilledIsWhole
    BY DEF TypesInOrder
  <2>1. list \in Seq(Range(Table))
    BY DEF TypesInv, TypesTypeOK
  <2>2. ShownIsPrefix
    BY DEF TypesInv, FillInv, ShownIsPrefix
  <2>3. FilledIsWhole
    BY <2>1, DecoratedIsPrefix DEF TypesInv, FillInv, Filling, FilledIsWhole
  <2> QED  BY <2>2, <2>3
<1> QED  BY <1>1, TypesInvInit, TypesInvNext, PTL DEF TypesSpec

-----------------------------------------------------------------------------
(* Types *)

\* The types of likes, follows and the list of types are part of what keeps
\* them right.
THEOREM LikesTypes == LikesSpec => []LikesTypeOK
<1>1. LikesInv => LikesTypeOK
  BY DEF LikesInv
<1> QED  BY <1>1, LikesInvInit, LikesInvNext, PTL DEF LikesSpec

\* The rows, sets and calls of follows are of their types.
THEOREM FollowsTypes == FollowsSpec => []FollowsTypeOK
<1>1. FollowsInv => FollowsTypeOK
  BY DEF FollowsInv
<1> QED  BY <1>1, FollowsInvInit, FollowsInvNext, PTL DEF FollowsSpec

\* The list of types and its readers are of their types.
THEOREM ListTypes == TypesSpec => []TypesTypeOK
<1>1. TypesInv => TypesTypeOK
  BY DEF TypesInv
<1> QED  BY <1>1, TypesInvInit, TypesInvNext, PTL DEF TypesSpec

\* The page asks for no instant that is still to come, as far as the browser's
\* clock can tell, and what it asks is counted.
FeedLimits ==
    /\ page.minTime <= MaxClock + 1 /\ page.top <= MaxClock + 1
    /\ \A k \in Flights : ask[k] # NoAsk => ask[k].lastId <= MaxClock + 1
    /\ asks \in 0..MaxAsks
    /\ feedFaults \in 0..MaxFeedFaults

\* Nothing was asked yet.
LEMMA FeedLimitsInit == FeedInit => FeedLimits
<1>1. ASSUME FeedInit, NEW k \in Flights PROVE ask[k] = NoAsk
  BY <1>1 DEF FeedInit
<1>2. 0 <= MaxClock + 1
  BY FeedBounds
<1> QED  BY <1>1, <1>2, FeedBounds DEF FeedInit, FeedLimits

\* A request asks for now, or goes on where the last answer ended.
LEMMA SendLimits ==
    ASSUME PublishInv, ScrollTypes, FeedLimits, NEW k \in Flights, NEW clear \in BOOLEAN, SendAsk(k, clear)
    PROVE  FeedLimits'
<1>1. PICK now \in Int : now = clock + 1 - Lag /\ now <= MaxClock + 1
  BY FeedBounds DEF PublishInv, PublishTypes
<1>2. PICK last \in Int : last = (IF clear THEN now ELSE page.minTime) /\ last <= MaxClock + 1
  BY <1>1 DEF ScrollTypes, FeedLimits
<1>3. /\ page' = IF clear THEN [page EXCEPT !.minTime = now, !.offset = 0, !.top = now] ELSE page
      /\ asks < MaxAsks /\ asks' = asks + 1 /\ feedFaults' = feedFaults
      /\ ask' = [j \in Flights |->
             IF j = k THEN [pc |-> "sent", clear |-> clear, lastId |-> last,
                            offset |-> IF clear THEN 0 ELSE page.offset,
                            list |-> <<>>, alone |-> {i \in Flights : ask[i] # NoAsk} = {}]
             ELSE IF j \in {i \in Flights : ask[i] # NoAsk} THEN [ask[j] EXCEPT !.alone = FALSE]
             ELSE NoAsk]
  BY <1>1, <1>2 DEF SendAsk
<1>4. page'.minTime <= MaxClock + 1 /\ page'.top <= MaxClock + 1
  BY <1>1, <1>3 DEF ScrollTypes, FeedLimits
<1>5. ASSUME NEW j \in Flights, ask'[j] # NoAsk PROVE ask'[j].lastId <= MaxClock + 1
  <2>1. CASE j = k
    BY <1>2, <1>3, <2>1
  <2>2. CASE j # k
    <3>1. ask[j] # NoAsk /\ ask'[j] = [ask[j] EXCEPT !.alone = FALSE]
      BY <1>3, <1>5, <2>2
    <3>2. ask[j] \in Asking /\ ask[j].lastId <= MaxClock + 1
      BY <3>1, AskingFields DEF FeedLimits
    <3> QED  BY <3>1, <3>2 DEF Asking
  <2> QED  BY <2>1, <2>2
<1>6. asks' \in 0..MaxAsks /\ feedFaults' \in 0..MaxFeedFaults
  BY <1>3, FeedBounds DEF FeedLimits
<1> QED  BY <1>4, <1>5, <1>6 DEF FeedLimits

\* An answer ends with the score of a blog.
LEMMA ServeLimits ==
    ASSUME PublishInv, ScrollTypes, ScrollTypes', FeedLimits, NEW k \in Flights, ServeAsk(k)
    PROVE  FeedLimits'
<1>1. PICK s : s = RevRange(Reader, ask[k].lastId, ask[k].offset)
  OBVIOUS
<1>2. /\ ask' = [ask EXCEPT ![k].pc = "served", ![k].list = s,
                     ![k].lastId = IF s = <<>> THEN 0 ELSE feed[Reader][Last(s)],
                     ![k].offset = IF s = <<>> THEN 0 ELSE TrailingEqual(Reader, s)]
      /\ page' = page /\ asks' = asks /\ feedFaults' = feedFaults /\ ask[k].pc = "sent"
  BY <1>1 DEF ServeAsk
<1>3. ask[k] \in Asking
  BY <1>2, AskingFields
<1>4. ask'[k].list = s /\ ask'[k].lastId = IF s = <<>> THEN 0 ELSE feed[Reader][Last(s)]
  BY <1>2, <1>3 DEF Asking, ScrollTypes
<1>5. ask'[k] # NoAsk /\ ask'[k] \in Asking
  <2>1. ask'[k].pc = "served"
    BY <1>2, <1>3 DEF Asking, ScrollTypes
  <2> QED  BY <2>1 DEF ScrollTypes, NoAsk
<1>6. ask'[k].lastId <= MaxClock + 1
  <2>1. CASE s = <<>>
    BY <1>4, <2>1, FeedBounds
  <2>2. CASE s # <<>>
    <3>1. s \in Seq(Blogs)
      BY <1>4, <1>5 DEF Asking
    <3>2. Last(s) \in Blogs
      BY <2>2, <3>1 DEF Last
    <3>3. feed[Reader][Last(s)] \in Scores
      BY <3>2, ReaderAssumption DEF PublishInv, PublishTypes
    <3> QED  BY <1>4, <2>2, <3>3, FeedBounds DEF Scores
  <2> QED  BY <2>1, <2>2
<1>7. ASSUME NEW j \in Flights, ask'[j] # NoAsk PROVE ask'[j].lastId <= MaxClock + 1
  <2>1. CASE j = k
    BY <1>6, <2>1
  <2>2. CASE j # k
    BY <1>2, <1>7, <2>2 DEF FeedLimits, ScrollTypes
  <2> QED  BY <2>1, <2>2
<1> QED  BY <1>2, <1>7 DEF FeedLimits

\* An answer that comes, or does not, is no later than its request.
LEMMA AnswerLimits ==
    ASSUME ScrollTypes, FeedLimits, NEW k \in Flights, FailAsk(k) \/ ReceiveAsk(k)
    PROVE  FeedLimits'
<1>1. CASE FailAsk(k)
  <2>1. /\ ask' = [ask EXCEPT ![k].pc = "served", ![k].list = <<>>]
        /\ page' = page /\ asks' = asks /\ feedFaults < MaxFeedFaults /\ feedFaults' = feedFaults + 1
        /\ ask[k].pc = "sent"
    BY <1>1 DEF FailAsk
  <2>2. ask[k] \in Asking /\ ask[k] # NoAsk
    BY <2>1, AskingFields
  <2>3. ASSUME NEW j \in Flights, ask'[j] # NoAsk PROVE ask'[j].lastId <= MaxClock + 1
    <3>1. CASE j = k
      <4>1. ask'[k].lastId = ask[k].lastId
        BY <2>1, <2>2 DEF ScrollTypes, Asking
      <4> QED  BY <2>2, <3>1, <4>1 DEF FeedLimits
    <3>2. CASE j # k
      BY <2>1, <2>3, <3>2 DEF FeedLimits, ScrollTypes
    <3> QED  BY <3>1, <3>2
  <2>4. feedFaults' \in 0..MaxFeedFaults
    BY <2>1, FeedBounds DEF FeedLimits
  <2> QED  BY <2>1, <2>3, <2>4 DEF FeedLimits
<1>2. CASE ReceiveAsk(k)
  <2>1. /\ page' = IF ask[k].list = <<>> THEN page
                   ELSE [page EXCEPT !.list = IF ask[k].clear THEN ask[k].list ELSE @ \o ask[k].list,
                                     !.minTime = ask[k].lastId, !.offset = ask[k].offset]
        /\ ask' = [ask EXCEPT ![k] = NoAsk] /\ asks' = asks /\ feedFaults' = feedFaults
        /\ ask[k].pc = "served"
    BY <1>2 DEF ReceiveAsk
  <2>2. ask[k] # NoAsk /\ ask[k].lastId <= MaxClock + 1
    BY <2>1, AskingFields DEF FeedLimits
  <2>3. page'.minTime <= MaxClock + 1 /\ page'.top <= MaxClock + 1
    BY <2>1, <2>2 DEF FeedLimits, ScrollTypes
  <2>4. ASSUME NEW j \in Flights, ask'[j] # NoAsk PROVE ask'[j].lastId <= MaxClock + 1
    BY <2>1, <2>4 DEF FeedLimits, ScrollTypes
  <2> QED  BY <2>1, <2>3, <2>4 DEF FeedLimits
<1> QED  BY <1>1, <1>2

\* Every step keeps the limits.
LEMMA FeedLimitsNext ==
    ASSUME ScrollInv, ScrollInv', FeedLimits, [FeedNext]_feedVars PROVE FeedLimits'
<1>1. PublishInv /\ ScrollTypes /\ ScrollTypes'
  BY DEF ScrollInv
<1>2. ASSUME UNCHANGED <<page, ask, asks>>, feedFaults' \in 0..MaxFeedFaults PROVE FeedLimits'
  BY <1>2 DEF FeedLimits
<1>3. feedFaults \in 0..MaxFeedFaults
  BY DEF FeedLimits
<1>4. CASE Tick \/ Move
  BY <1>2, <1>3, <1>4 DEF Tick, Move, scrollVars
<1>5. ASSUME NEW b \in Blogs, SaveBlog(b) PROVE FeedLimits'
  <2>1. CASE FailPost(b)
    <3>1. feedFaults' \in 0..MaxFeedFaults
      BY <1>3, <2>1, FeedBounds DEF FailPost
    <3> QED  BY <1>2, <2>1, <3>1 DEF FailPost, scrollVars
  <2>2. CASE ~FailPost(b)
    BY <1>2, <1>3, <1>5, <2>2 DEF SaveBlog, StorePost, ReadFans, Push, EndPost, scrollVars
  <2> QED  BY <2>1, <2>2
<1>6. ASSUME NEW k \in Flights, Scroll(k) PROVE FeedLimits'
  BY <1>1, <1>6, SendLimits, ServeLimits, AnswerLimits DEF Scroll
<1>7. CASE UNCHANGED feedVars
  BY <1>2, <1>3, <1>7 DEF feedVars, scrollVars
<1> QED  BY <1>4, <1>5, <1>6, <1>7 DEF FeedNext

\* The types of the feed follow.
LEMMA FeedTyped == ASSUME ScrollInv, FeedLimits PROVE FeedTypeOK
<1>1. PublishTypes /\ ScrollTypes
  BY DEF ScrollInv, PublishInv
<1>2. \A k \in Flights : ask[k].pc \in {"idle", "sent", "served"}
  BY <1>1 DEF ScrollTypes, Asking, NoAsk
<1> QED  BY <1>1, <1>2 DEF PublishTypes, ScrollTypes, FeedLimits, FeedTypeOK

\* Blogs, feeds, the reader's page and its requests are of their types, and no
\* request is for an instant after now by the browser's clock.
THEOREM FeedTypes == FeedSpec => []FeedTypeOK
<1>1. FeedInit => ScrollInv /\ FeedLimits
  BY ScrollInvInit, FeedLimitsInit
<1>2. ScrollInv /\ FeedLimits /\ [FeedNext]_feedVars => (ScrollInv /\ FeedLimits)'
  BY ScrollInvNext, FeedLimitsNext
<1>3. ScrollInv /\ FeedLimits => FeedTypeOK
  BY FeedTyped
<1> QED  BY <1>1, <1>2, <1>3, PTL DEF FeedSpec

-----------------------------------------------------------------------------
(* The four together *)

\* All that is kept of the four; nothing of one rests on another.
SocialInv == LikesInv /\ FollowsInv /\ ScrollInv /\ FeedLimits /\ TypesInv

\* The parts publish, scroll and follow as the feed does.
LEMMA PartsAreFeed ==
    ASSUME Move \/ SaveBlog(1) \/ ScrollNext \/ LongNext PROVE FeedNext
<1>1. 1 \in Blogs /\ 1..3 \subseteq Blogs
  BY PartsAssumption, FeedBounds DEF Blogs
<1>2. ASSUME NEW blogs \in SUBSET Blogs, NEW time, Publishing(blogs, time) PROVE FeedNext
  <2>1. CASE Tick
    BY <2>1 DEF FeedNext
  <2>2. ASSUME NEW b \in blogs, ReadFans(b) \/ StorePost(b, a1) \/ Push(b, f1) PROVE FeedNext
    <3>1. b \in Blogs /\ SaveBlog(b)
      BY <2>2, PartsAssumption DEF SaveBlog
    <3> QED  BY <3>1 DEF FeedNext
  <2> QED  BY <1>2, <2>1, <2>2 DEF Publishing
<1>3. ASSUME NEW k \in Flights, Scroll(k) PROVE FeedNext
  BY <1>3 DEF FeedNext
<1>4. Move \/ SaveBlog(1) => FeedNext
  BY <1>1 DEF FeedNext
<1>5. ScrollNext => FeedNext
  BY <1>1, <1>2, <1>3 DEF ScrollNext
<1>6. LongNext => FeedNext
  BY <1>2, <1>3 DEF LongNext
<1> QED  BY <1>4, <1>5, <1>6

\* Every part begins as its module does.
LEMMA SocialInvInit == Init => SocialInv
<1>1. Init => LikesInit /\ FeedInit /\ TypesInit /\ FollowsInit
  BY DEF Init, FeedInit
<1> QED  BY <1>1, LikesInvInit, FollowsInvInit, ScrollInvInit, FeedLimitsInit, TypesInvInit DEF SocialInv

\* A step is one of its part, and the others stay as they are.
LEMMA SocialInvNext == SocialInv /\ [Next]_vars => SocialInv'
<1> SUFFICES ASSUME SocialInv, [Next]_vars PROVE SocialInv'
  OBVIOUS
<1>1. [LikesNext]_likesVars /\ [FeedNext]_feedVars /\ [TypesNext]_typeVars
  BY PartsAreFeed DEF Next, vars
<1>2. [FollowsNext]_followVars
  <2>1. CASE FeedNext
    BY <2>1 DEF FeedNext, Tick, Move, SaveBlog, StorePost, ReadFans, Push, EndPost, FailPost,
                Scroll, SendAsk, ServeAsk, FailAsk, ReceiveAsk
  <2>2. CASE UNCHANGED feedVars
    BY <2>2 DEF feedVars
  <2> QED  BY <1>1, <2>1, <2>2
<1>3. LikesInv /\ FollowsInv /\ ScrollInv /\ FeedLimits /\ TypesInv
  BY DEF SocialInv
<1>4. LikesInv' /\ FollowsInv' /\ TypesInv' /\ ScrollInv'
  BY <1>1, <1>2, <1>3, LikesInvNext, FollowsInvNext, TypesInvNext, ScrollInvNext
<1>5. FeedLimits'
  BY <1>1, <1>3, <1>4, FeedLimitsNext
<1> QED  BY <1>4, <1>5 DEF SocialInv

\* The types of all four hold in the composition that the run checks: of
\* whatever is liked, followed, published, scrolled and listed.
THEOREM SocialTypes == Spec => []TypeOK
<1>1. SocialInv => TypeOK
  BY FeedTyped DEF SocialInv, LikesInv, FollowsInv, TypesInv, TypeOK
<1> QED  BY <1>1, SocialInvInit, SocialInvNext, PTL DEF Spec

=============================================================================
