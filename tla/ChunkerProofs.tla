-------------------------- MODULE ChunkerProofs ---------------------------
(***************************************************************************)
(* Whatever the document, the limit, the overlap and the template:         *)
(*                                                                         *)
(*   - nothing of the document is lost, given twice as new or moved        *)
(*     (NothingLost, from TextInv);                                        *)
(*   - a chunk is under the titles that it carries and begins at its       *)
(*     position (ChunksArePlaced, from TextInv and PlaceInv);              *)
(*   - a chunk is as large as it may be, rows of a table have their header *)
(*     and a pair has all of its answer (CutsKeep, from TextInv, PlaceInv, *)
(*     CutInv and WholeInv);                                               *)
(*   - no chunk is without text, and positions, titles and overlaps are    *)
(*     such as this document can have (ChunkTypeOK, from TextInv and       *)
(*     FormInv).                                                           *)
(*                                                                         *)
(* FlattenSeq and the chunker's own loops are recursive functions.  A      *)
(* function that is given step by step exists (Recursion), and what each   *)
(* step keeps holds of its last value (StepByStep); both rest on the       *)
(* natural numbers being well founded.                                     *)
(***************************************************************************)
EXTENDS Chunker, SequenceTheorems, FiniteSetTheorems, WellFoundedInduction, TLAPS

-----------------------------------------------------------------------------
(* Steps, sequences and FlattenSeq *)

\* A set of numbers has a least one.
LEMMA Least ==
    ASSUME NEW T, T \subseteq Nat, T # {}
    PROVE  \E x \in T : \A y \in T : ~(y < x)
<1>1. IsWellFoundedOn(OpToRel(<, Nat), Nat)
  BY NatLessThanWellFounded
<1>2. \E x \in T : \A y \in T : ~(<<y, x>> \in OpToRel(<, Nat))
  BY <1>1, WFMin
<1>3. \A x, y \in T : y < x => <<y, x>> \in OpToRel(<, Nat)
  BY DEF OpToRel
<1> QED  BY <1>2, <1>3

\* What holds at 0 and goes on holding holds up to N.
LEMMA StepByStep ==
    ASSUME NEW N \in Nat, NEW G, 0 \in G, \A k \in 1..N : k - 1 \in G => k \in G
    PROVE  \A k \in 0..N : k \in G
<1> DEFINE T == {k \in 0..N : k \notin G}
<1>1. ASSUME T # {} PROVE FALSE
  <2>1. T \subseteq Nat
    OBVIOUS
  <2>2. PICK k \in T : \A y \in T : ~(y < k)
    BY <1>1, <2>1, Least
  <2>3. k \in 1..N /\ k - 1 \in 0..N /\ k - 1 < k
    BY <2>2
  <2>4. k - 1 \in G
    BY <2>2, <2>3
  <2> QED  BY <2>2, <2>3, <2>4
<1> QED  BY <1>1

\* A function that is given step by step exists.
Goes(p, V, N, b, F) ==
    /\ p \in [0..N -> V]
    /\ p[0] = b
    /\ \A k \in 1..N : p[k] = F[<<p[k - 1], k>>]

\* A function that is given step by step exists.
LEMMA Recursion ==
    ASSUME NEW V, NEW N \in Nat, NEW b \in V, NEW F \in [V \X (1..N) -> V]
    PROVE  \E p : Goes(p, V, N, b, F)
<1> DEFINE Upto(p, n) == p[0] = b /\ \A k \in 1..n : p[k] = F[<<p[k - 1], k>>]
           G == {n \in 0..N : \E p \in [0..n -> V] : Upto(p, n)}
<1>1. 0 \in G
  <2>1. PICK p : p = [k \in 0..0 |-> b]
    OBVIOUS
  <2>2. p \in [0..0 -> V] /\ p[0] = b
    BY <2>1
  <2>3. Upto(p, 0)
    BY <2>2
  <2> QED  BY <2>2, <2>3
<1>2. ASSUME NEW n \in 1..N, n - 1 \in G PROVE n \in G
  <2>1. PICK p \in [0..(n - 1) -> V] : Upto(p, n - 1)
    BY <1>2
  <2>2. p[n - 1] \in V
    BY <2>1
  <2>3. PICK x \in V : x = F[<<p[n - 1], n>>]
    BY <2>2
  <2>4. PICK q : q = [k \in 0..n |-> IF k = n THEN x ELSE p[k]]
    OBVIOUS
  <2>5. q \in [0..n -> V]
    <3>1. \A k \in 0..n : k # n => k \in 0..(n - 1)
      OBVIOUS
    <3> QED  BY <2>1, <2>3, <2>4, <3>1
  <2>6. q[0] = b
    BY <2>1, <2>4
  <2>7. ASSUME NEW k \in 1..n PROVE q[k] = F[<<q[k - 1], k>>]
    <3>1. q[k - 1] = p[k - 1]
      BY <2>4
    <3>2. CASE k = n
      <4>1. n \in 0..n
        OBVIOUS
      <4>2. q[n] = x
        BY <2>4, <4>1
      <4> QED  BY <2>3, <3>1, <3>2, <4>2
    <3>3. CASE k # n
      <4>1. k \in 1..(n - 1)
        BY <3>3
      <4>2. q[k] = p[k]
        BY <2>4, <3>3
      <4> QED  BY <2>1, <3>1, <4>1, <4>2
    <3> QED  BY <3>2, <3>3
  <2>8. Upto(q, n)
    BY <2>6, <2>7
  <2>9. n \in 0..N
    OBVIOUS
  <2> QED  BY <2>5, <2>8, <2>9
<1>3. N \in G
  <2> HIDE DEF G
  <2>1. \A k \in 0..N : k \in G
    BY <1>1, <1>2, StepByStep
  <2> QED  BY <2>1
<1> QED  BY <1>3 DEF Goes

\* A sequence with one more.
LEMMA AppendType ==
    ASSUME NEW S, NEW s \in Seq(S), NEW x \in S
    PROVE  Append(s, x) \in Seq(S) /\ Append(s, x) # <<>>
BY AppendProperties

\* A function on 1..n is a sequence.
LEMMA SequenceIs ==
    ASSUME NEW S, NEW n \in Nat, NEW s, s = [i \in 1..n |-> s[i]], \A i \in 1..n : s[i] \in S
    PROVE  s \in Seq(S) /\ Len(s) = n /\ DOMAIN s = 1..n
OBVIOUS

\* z is the m elements of s and then the n of t.
Follows(z, s, t, m, n) ==
    /\ Len(z) = m + n /\ DOMAIN z = 1..(m + n)
    /\ z = [i \in 1..(m + n) |-> z[i]]
    /\ \A i \in 1..(m + n) : z[i] = IF i <= m THEN s[i] ELSE t[i - m]

\* What Follows says is so of a concatenation.
LEMMA ConcatIs ==
    ASSUME NEW S, NEW s \in Seq(S), NEW t \in Seq(S), NEW m \in Nat, m = Len(s), NEW n \in Nat, n = Len(t),
           NEW z, z = s \o t
    PROVE  z \in Seq(S) /\ Follows(z, s, t, m, n)
<1>1. z \in Seq(S) /\ Len(z) = m + n
  BY ConcatProperties
<1>2. DOMAIN z = 1..(m + n) /\ z = [i \in 1..(m + n) |-> z[i]]
  BY <1>1, LenProperties
<1>3. \A i \in 1..(m + n) : (s \o t)[i] = IF i <= m THEN s[i] ELSE t[i - m]
  BY ConcatProperties
<1> QED  BY <1>1, <1>2, <1>3 DEF Follows

\* Three texts in a row, grouped either way.
Grouped(x, y, z) == (x \o y) \o z = x \o (y \o z)

\* Grouping does not matter.
LEMMA Grouping ==
    ASSUME NEW S, NEW x \in Seq(S), NEW y \in Seq(S), NEW z \in Seq(S) PROVE Grouped(x, y, z)
BY ConcatAssociative DEF Grouped

\* FlattenSeq, whose definition is a recursive function.
Flattens(f, s) == f = [i \in 1..Len(s) |-> IF i = 1 THEN s[i] ELSE f[i - 1] \o s[i]]

\* The recursive function of a sequence that is not empty.
LEMMA FlattenIs ==
    ASSUME NEW S, NEW s \in Seq(S), s # <<>>
    PROVE  FlattenSeq(s) = (CHOOSE f : Flattens(f, s))[Len(s)]
<1>1. Len(s) # 0
  BY EmptySeq
<1> QED  BY <1>1 DEF FlattenSeq, Flattens

\* No texts are no text.
LEMMA FlattenNone == FlattenSeq(<<>>) = <<>>
BY DEF FlattenSeq

\* The texts that s begins with.
Concats(p, S, s) ==
    /\ p \in [0..Len(s) -> Seq(S)]
    /\ p[0] = <<>>
    /\ \A k \in 1..Len(s) : p[k] = p[k - 1] \o s[k]

\* The texts that s begins with end in its flattened text.
LEMMA FlattenBy ==
    ASSUME NEW S, NEW s \in Seq(Seq(S)), NEW p, Concats(p, S, s)
    PROVE  FlattenSeq(s) = p[Len(s)]
<1>1. PICK n \in Nat : n = Len(s)
  OBVIOUS
<1>2. CASE s = <<>>
  <2>1. Len(s) = 0
    BY <1>2
  <2> QED  BY <1>2, <2>1, FlattenNone DEF Concats
<1>3. CASE s # <<>>
  <2>1. n > 0
    BY <1>1, <1>3, EmptySeq
  <2>2. \A k \in 1..n : s[k] \in Seq(S)
    BY <1>1
  <2>3. /\ \A k \in 0..n : p[k] \in Seq(S)
        /\ p[0] = <<>>
        /\ \A k \in 1..n : p[k] = p[k - 1] \o s[k]
    BY <1>1 DEF Concats
  <2>4. \E f : Flattens(f, s)
    <3>1. PICK f : f = [i \in 1..n |-> p[i]]
      OBVIOUS
    <3>2. ASSUME NEW i \in 1..n PROVE f[i] = IF i = 1 THEN s[i] ELSE f[i - 1] \o s[i]
      <4>1. CASE i = 1
        <5>1. p[1] = p[0] \o s[1]
          <6>1. 1 \in 1..n
            BY <2>1
          <6>2. p[1] = p[1 - 1] \o s[1]
            BY <2>3, <6>1
          <6> QED  BY <6>2
        <5>2. <<>> \o s[1] = s[1]
          BY <2>1, <2>2, ConcatEmptySeq
        <5> QED  BY <2>3, <3>1, <4>1, <5>1, <5>2
      <4>2. CASE i # 1
        <5>1. i - 1 \in 1..n
          BY <4>2
        <5> QED  BY <2>3, <3>1, <4>2, <5>1
      <4> QED  BY <4>1, <4>2
    <3>3. f = [i \in 1..n |-> IF i = 1 THEN s[i] ELSE f[i - 1] \o s[i]]
      <4>1. f = [i \in 1..n |-> f[i]]
        BY <3>1
      <4> QED  BY <3>2, <4>1
    <3> QED  BY <1>1, <3>3 DEF Flattens
  <2>5. PICK g : g = CHOOSE f : Flattens(f, s)
    OBVIOUS
  <2>6. Flattens(g, s)
    BY <2>4, <2>5
  <2>7. \A i \in 1..n : g[i] = IF i = 1 THEN s[i] ELSE g[i - 1] \o s[i]
    BY <1>1, <2>6 DEF Flattens
  <2>8. \A k \in 0..n : k \in {j \in 0..n : j = 0 \/ g[j] = p[j]}
    <3> DEFINE G == {j \in 0..n : j = 0 \/ g[j] = p[j]}
    <3>1. 0 \in G
      OBVIOUS
    <3>2. ASSUME NEW k \in 1..n, k - 1 \in G PROVE k \in G
      <4>1. k \in 0..n
        OBVIOUS
      <4>2. CASE k = 1
        <5>1. g[1] = s[1]
          BY <2>1, <2>7
        <5>2. p[1] = p[0] \o s[1]
          <6>1. 1 \in 1..n
            BY <2>1
          <6>2. p[1] = p[1 - 1] \o s[1]
            BY <2>3, <6>1
          <6> QED  BY <6>2
        <5>3. <<>> \o s[1] = s[1]
          BY <2>1, <2>2, ConcatEmptySeq
        <5> QED  BY <2>3, <4>1, <4>2, <5>1, <5>2, <5>3
      <4>3. CASE k # 1
        <5>1. g[k] = g[k - 1] \o s[k]
          BY <2>7, <4>3
        <5>2. g[k - 1] = p[k - 1]
          BY <3>2, <4>3
        <5> QED  BY <2>3, <4>1, <5>1, <5>2
      <4> QED  BY <4>2, <4>3
    <3> HIDE DEF G
    <3>3. \A k \in 0..n : k \in G
      BY <3>1, <3>2, StepByStep
    <3> QED  BY <3>3 DEF G
  <2>9. g[n] = p[n]
    BY <2>1, <2>8
  <2> QED  BY <1>1, <1>3, <2>5, <2>9, FlattenIs
<1> QED  BY <1>2, <1>3

\* There are such texts.
LEMMA FlattenHas ==
    ASSUME NEW S, NEW s \in Seq(Seq(S))
    PROVE  \E p : Concats(p, S, s) /\ FlattenSeq(s) = p[Len(s)]
<1>1. PICK n \in Nat : n = Len(s)
  OBVIOUS
<1>2. \A k \in 1..n : s[k] \in Seq(S)
  BY <1>1
<1>3. PICK F : F = [x \in Seq(S) \X (1..n) |-> x[1] \o s[x[2]]]
  OBVIOUS
<1>4. F \in [Seq(S) \X (1..n) -> Seq(S)]
  <2>1. \A x \in Seq(S) \X (1..n) : x[1] \o s[x[2]] \in Seq(S)
    BY <1>2, ConcatProperties
  <2> QED  BY <1>3, <2>1
<1>5. <<>> \in Seq(S)
  OBVIOUS
<1>6. PICK p : Goes(p, Seq(S), n, <<>>, F)
  BY <1>4, <1>5, Recursion
<1>7. ASSUME NEW k \in 1..n PROVE p[k] = p[k - 1] \o s[k]
  <2>1. p[k - 1] \in Seq(S)
    <3>1. k - 1 \in 0..n
      OBVIOUS
    <3> QED  BY <1>6, <3>1 DEF Goes
  <2>2. F[<<p[k - 1], k>>] = p[k - 1] \o s[k]
    BY <1>3, <2>1
  <2> QED  BY <1>6, <2>2 DEF Goes
<1>8. Concats(p, S, s)
  BY <1>1, <1>6, <1>7 DEF Concats, Goes
<1> QED  BY <1>8, FlattenBy

\* FlattenSeq and the operators on sequences.
LEMMA FlattenType ==
    ASSUME NEW S, NEW s \in Seq(Seq(S)) PROVE FlattenSeq(s) \in Seq(S)
<1>1. PICK p : Concats(p, S, s) /\ FlattenSeq(s) = p[Len(s)]
  BY FlattenHas
<1>2. Len(s) \in Nat
  OBVIOUS
<1> QED  BY <1>1, <1>2 DEF Concats

\* One text more comes last.
LEMMA FlattenAppend ==
    ASSUME NEW S, NEW s \in Seq(Seq(S)), NEW x \in Seq(S)
    PROVE  FlattenSeq(Append(s, x)) = FlattenSeq(s) \o x
<1>1. PICK n \in Nat : n = Len(s)
  OBVIOUS
<1>2. PICK p : Concats(p, S, s) /\ FlattenSeq(s) = p[n]
  BY <1>1, FlattenHas
<1>3. PICK t : t = Append(s, x)
  OBVIOUS
<1>4. t \in Seq(Seq(S)) /\ Len(t) = n + 1 /\ t[n + 1] = x /\ \A k \in 1..n : t[k] = s[k]
  BY <1>1, <1>3, AppendProperties
<1>5. /\ p \in [0..n -> Seq(S)] /\ p[n] \in Seq(S) /\ p[0] = <<>>
      /\ \A k \in 1..n : p[k] = p[k - 1] \o s[k]
  <2>1. n \in 0..n
    OBVIOUS
  <2> QED  BY <1>1, <1>2, <2>1 DEF Concats
<1>6. PICK q : q = [k \in 0..(n + 1) |-> IF k = n + 1 THEN p[n] \o x ELSE p[k]]
  OBVIOUS
<1>7. Concats(q, S, t)
  <2>1. q \in [0..(n + 1) -> Seq(S)]
    <3>1. \A k \in 0..(n + 1) : k # n + 1 => p[k] \in Seq(S)
      <4>1. \A k \in 0..(n + 1) : k # n + 1 => k \in 0..n
        OBVIOUS
      <4> QED  BY <1>5, <4>1
    <3>2. p[n] \o x \in Seq(S)
      BY <1>5, ConcatProperties
    <3> QED  BY <1>6, <3>1, <3>2
  <2>2. q[0] = <<>>
    BY <1>5, <1>6
  <2>3. ASSUME NEW k \in 1..(n + 1) PROVE q[k] = q[k - 1] \o t[k]
    <3>1. q[k - 1] = p[k - 1]
      BY <1>6
    <3>2. CASE k = n + 1
      <4>1. q[k] = p[n] \o x /\ k - 1 = n
        BY <1>6, <3>2
      <4> QED  BY <1>4, <3>1, <3>2, <4>1
    <3>3. CASE k # n + 1
      <4>1. k \in 1..n
        BY <3>3
      <4>2. q[k] = p[k]
        BY <1>6, <3>3
      <4>3. p[k] = p[k - 1] \o s[k] /\ t[k] = s[k]
        BY <1>4, <1>5, <4>1
      <4> QED  BY <3>1, <4>2, <4>3
    <3> QED  BY <3>2, <3>3
  <2> QED  BY <1>4, <2>1, <2>2, <2>3 DEF Concats
<1>8. FlattenSeq(t) = q[n + 1]
  BY <1>4, <1>7, FlattenBy
<1>9. q[n + 1] = p[n] \o x
  BY <1>6
<1> QED  BY <1>2, <1>3, <1>8, <1>9

\* One text is itself.
LEMMA FlattenOne ==
    ASSUME NEW S, NEW x \in Seq(S) PROVE FlattenSeq(<<x>>) = x
<1>1. <<>> \in Seq(Seq(S)) /\ Append(<<>>, x) = <<x>>
  OBVIOUS
<1>2. FlattenSeq(<<x>>) = <<>> \o x
  BY <1>1, FlattenAppend, FlattenNone
<1> QED  BY <1>2, ConcatEmptySeq

\* The texts of two sequences in a row are those of both.
LEMMA FlattenConcat ==
    ASSUME NEW S, NEW s \in Seq(Seq(S)), NEW t \in Seq(Seq(S))
    PROVE  FlattenSeq(s \o t) = FlattenSeq(s) \o FlattenSeq(t)
<1> DEFINE upto(k) == SubSeq(t, 1, k)
           G == {k \in 0..Len(t) : FlattenSeq(s \o upto(k)) = FlattenSeq(s) \o FlattenSeq(upto(k))}
<1>1. PICK n \in Nat : n = Len(t)
  OBVIOUS
<1>2. PICK T : T = Seq(S)
  OBVIOUS
<1>3. s \in Seq(T) /\ t \in Seq(T)
  BY <1>2
<1>4. FlattenSeq(s) \in T
  BY <1>2, FlattenType
<1>5. 0 \in G
  <2>1. upto(0) = <<>>
    BY SubSeqEmpty
  <2>2. s \o <<>> = s
    BY <1>3, ConcatEmptySeq
  <2>3. FlattenSeq(s) \o <<>> = FlattenSeq(s)
    BY <1>2, <1>4, ConcatEmptySeq
  <2>4. 0 \in 0..Len(t)
    BY <1>1
  <2> QED  BY <2>1, <2>2, <2>3, <2>4, FlattenNone
<1>6. ASSUME NEW k \in 1..n, k - 1 \in G PROVE k \in G
  <2>1. PICK u : u = upto(k - 1)
    OBVIOUS
  <2>2. t[k] \in T
    BY <1>1, <1>3, ElementOfSeq
  <2>3. u \in Seq(T)
    <3>1. \A i \in 1..(k - 1) : t[i] \in T
      BY <1>1, <1>3, ElementOfSeq
    <3> QED  BY <2>1, <3>1, SubSeqProperties
  <2>4. upto(k) = Append(u, t[k])
    <3>1. SubSeq(t, 1, k) = SubSeq(t, 1, k - 1) \o <<t[k]>>
      BY <1>1, <1>3, SubSeqRecursiveSecond
    <3>2. Append(u, t[k]) = u \o <<t[k]>>
      BY <2>2, <2>3, AppendIsConcat
    <3> QED  BY <2>1, <3>1, <3>2
  <2>5. PICK w : w = s \o u
    OBVIOUS
  <2>6. w \in Seq(T)
    BY <1>3, <2>3, <2>5, ConcatProperties
  <2>7. s \o upto(k) = Append(w, t[k])
    <3>1. <<t[k]>> \in Seq(T)
      BY <2>2
    <3>2. (s \o u) \o <<t[k]>> = s \o (u \o <<t[k]>>)
      <4>1. Grouped(s, u, <<t[k]>>)
        BY <1>3, <2>3, <3>1, Grouping
      <4> QED  BY <4>1 DEF Grouped
    <3>3. Append(w, t[k]) = w \o <<t[k]>>
      BY <2>2, <2>6, AppendIsConcat
    <3>4. Append(u, t[k]) = u \o <<t[k]>>
      BY <2>2, <2>3, AppendIsConcat
    <3> QED  BY <2>4, <2>5, <3>2, <3>3, <3>4
  <2>8. FlattenSeq(w) = FlattenSeq(s) \o FlattenSeq(u)
    BY <1>6, <2>1, <2>5
  <2>9. FlattenSeq(Append(w, t[k])) = FlattenSeq(w) \o t[k]
    BY <1>2, <2>2, <2>6, FlattenAppend
  <2>10. FlattenSeq(Append(u, t[k])) = FlattenSeq(u) \o t[k]
    BY <1>2, <2>2, <2>3, FlattenAppend
  <2>11. FlattenSeq(u) \in T
    BY <1>2, <2>3, FlattenType
  <2>12. (FlattenSeq(s) \o FlattenSeq(u)) \o t[k] = FlattenSeq(s) \o (FlattenSeq(u) \o t[k])
    <3>1. PICK x, y, z : x = FlattenSeq(s) /\ y = FlattenSeq(u) /\ z = t[k]
      OBVIOUS
    <3>2. x \in Seq(S) /\ y \in Seq(S) /\ z \in Seq(S)
      BY <1>2, <1>4, <2>2, <2>11, <3>1
    <3>3. (x \o y) \o z = x \o (y \o z)
      <4>1. Grouped(x, y, z)
        BY <3>2, Grouping
      <4> QED  BY <4>1 DEF Grouped
    <3> QED  BY <3>1, <3>3
  <2>13. FlattenSeq(s \o upto(k)) = FlattenSeq(s) \o FlattenSeq(upto(k))
    <3> HIDE DEF upto
    <3> QED  BY <2>4, <2>7, <2>8, <2>9, <2>10, <2>12
  <2>14. k \in 0..Len(t)
    BY <1>1
  <2> QED  BY <2>13, <2>14
<1>7. n \in G
  <2> HIDE DEF G
  <2>1. \A k \in 0..n : k \in G
    BY <1>5, <1>6, StepByStep
  <2> QED  BY <2>1
<1>8. upto(n) = t
  BY <1>1, <1>3, SubSeqFull
<1> QED  BY <1>7, <1>8

\* The first of the texts.
LEMMA FlattenFirst ==
    ASSUME NEW S, NEW s \in Seq(Seq(S)), s # <<>>
    PROVE  FlattenSeq(s) = Head(s) \o FlattenSeq(Tail(s))
<1>1. PICK T : T = Seq(S)
  OBVIOUS
<1>2. s \in Seq(T) /\ Head(s) \in T /\ Tail(s) \in Seq(T)
  BY <1>1, HeadTailProperties
<1>3. s = <<Head(s)>> \o Tail(s)
  BY <1>2
<1>4. <<Head(s)>> \in Seq(T)
  BY <1>2
<1>5. FlattenSeq(<<Head(s)>> \o Tail(s)) = FlattenSeq(<<Head(s)>>) \o FlattenSeq(Tail(s))
  BY <1>1, <1>2, <1>4, FlattenConcat
<1> QED  BY <1>1, <1>2, <1>3, <1>5, FlattenOne

\* A text is its sentences one by one.
LEMMA FlattenSingles ==
    ASSUME NEW S, NEW x \in Seq(S), NEW n \in Nat, n = Len(x)
    PROVE  FlattenSeq([k \in 1..n |-> <<x[k]>>]) = x
<1>1. PICK s : s = [k \in 1..n |-> <<x[k]>>]
  OBVIOUS
<1>2. s \in Seq(Seq(S)) /\ Len(s) = n /\ \A k \in 1..n : s[k] = <<x[k]>>
  BY <1>1
<1>3. PICK p : p = [k \in 0..n |-> SubSeq(x, 1, k)]
  OBVIOUS
<1>4. \A k \in 0..n : SubSeq(x, 1, k) \in Seq(S)
  <2> TAKE k \in 0..n
  <2>1. \A i \in 1..k : x[i] \in S
    OBVIOUS
  <2> QED  BY <2>1, SubSeqProperties
<1>5. SubSeq(x, 1, 0) = <<>>
  BY SubSeqEmpty
<1>6. ASSUME NEW k \in 1..n PROVE SubSeq(x, 1, k) = SubSeq(x, 1, k - 1) \o <<x[k]>>
  BY SubSeqRecursiveSecond
<1>7. Concats(p, S, s)
  <2>1. p \in [0..n -> Seq(S)]
    BY <1>3, <1>4
  <2>2. p[0] = <<>>
    BY <1>3, <1>5
  <2>3. ASSUME NEW k \in 1..n PROVE p[k] = p[k - 1] \o s[k]
    <3>1. k \in 0..n /\ k - 1 \in 0..n
      OBVIOUS
    <3>2. p[k] = SubSeq(x, 1, k) /\ p[k - 1] = SubSeq(x, 1, k - 1)
      BY <1>3, <3>1
    <3> QED  BY <1>2, <1>6, <3>2
  <2> QED  BY <1>2, <2>1, <2>2, <2>3 DEF Concats
<1>8. SubSeq(x, 1, n) = x
  BY SubSeqFull
<1>9. FlattenSeq(s) = p[n]
  BY <1>2, <1>7, FlattenBy
<1>10. p[n] = x
  BY <1>3, <1>8
<1> QED  BY <1>1, <1>9, <1>10

-----------------------------------------------------------------------------
(* Token counts and pieces *)

\* The sentences of the document.
Names ==
    {n \in Nat \X Nat \X Nat : /\ n[1] \in DOMAIN doc
                               /\ n[2] \in DOMAIN doc[n[1]].text
                               /\ n[3] \in DOMAIN doc[n[1]].text[n[2]]}

\* The tokens of a sentence.
Weight(n) == doc[n[1]].text[n[2]][n[3]]

\* A sentence has a number of tokens.
LEMMA WeightType ==
    ASSUME doc \in Seq(Kinds), NEW n \in Names PROVE Weight(n) \in Nat
<1>1. n[1] \in DOMAIN doc /\ n[2] \in DOMAIN doc[n[1]].text /\ n[3] \in DOMAIN doc[n[1]].text[n[2]]
  BY DEF Names
<1>2. doc[n[1]] \in Kinds
  BY <1>1
<1>3. doc[n[1]].text \in Seq(Seq(Nat))
  BY <1>2, KindsAssumption
<1>4. PICK t \in Seq(Nat) : t = doc[n[1]].text[n[2]]
  BY <1>1, <1>3
<1>5. t[n[3]] \in Nat
  <2>1. n[3] \in DOMAIN t
    BY <1>1, <1>4
  <2> QED  BY <2>1
<1> QED  BY <1>4, <1>5 DEF Weight

\* The recursive function of TokenCount.
Sums(f, s) ==
    f = [k \in 0..Len(s) |->
           IF k = 0 THEN 0 ELSE f[k - 1] + doc[s[k][1]].text[s[k][2]][s[k][3]]]

\* f[k] is how many tokens the first k of the n sentences of s have.
Counts(f, s, n) ==
    /\ f[0] = 0 /\ \A k \in 1..n : f[k] = f[k - 1] + Weight(s[k])
    /\ \A k \in 0..n : f[k] \in Nat
    /\ TokenCount(s) = f[n]

\* TokenCount adds the weights one by one.
LEMMA CountIs ==
    ASSUME doc \in Seq(Kinds), NEW s \in Seq(Names), NEW n \in Nat, n = Len(s)
    PROVE  \E f : Counts(f, s, n)
<1>1. n = Len(s)
  OBVIOUS
<1>2. \A k \in 1..n : Weight(s[k]) \in Nat
  BY <1>1, WeightType
<1>3. PICK F : F = [x \in Nat \X (1..n) |-> x[1] + Weight(s[x[2]])]
  OBVIOUS
<1>4. F \in [Nat \X (1..n) -> Nat]
  BY <1>2, <1>3
<1>5. PICK p : Goes(p, Nat, n, 0, F)
  BY <1>4, Recursion
<1>6. \E f : Sums(f, s)
  <2>1. p = [k \in 0..n |-> p[k]]
    BY <1>5 DEF Goes
  <2>2. ASSUME NEW k \in 0..n PROVE p[k] = IF k = 0 THEN 0 ELSE p[k - 1] + Weight(s[k])
    <3>1. CASE k = 0
      BY <1>5, <3>1 DEF Goes
    <3>2. CASE k # 0
      <4>1. k \in 1..n /\ k - 1 \in 0..n
        BY <3>2
      <4>2. p[k - 1] \in Nat
        BY <1>5, <4>1 DEF Goes
      <4>3. F[<<p[k - 1], k>>] = p[k - 1] + Weight(s[k])
        BY <1>3, <4>1, <4>2
      <4> QED  BY <1>5, <3>2, <4>1, <4>3 DEF Goes
    <3> QED  BY <3>1, <3>2
  <2>3. p = [k \in 0..n |-> IF k = 0 THEN 0 ELSE p[k - 1] + Weight(s[k])]
    BY <2>1, <2>2
  <2> QED  BY <1>1, <2>3 DEF Sums, Weight
<1>7. PICK f : f = CHOOSE g : Sums(g, s)
  OBVIOUS
<1>8. Sums(f, s)
  BY <1>6, <1>7
<1>9. \A k \in 0..n : f[k] = IF k = 0 THEN 0 ELSE f[k - 1] + Weight(s[k])
  BY <1>1, <1>8 DEF Sums, Weight
<1>10. \A k \in 0..n : f[k] \in Nat
  <2> DEFINE G == {k \in 0..n : f[k] \in Nat}
  <2>1. 0 \in G
    BY <1>9
  <2>2. ASSUME NEW k \in 1..n, k - 1 \in G PROVE k \in G
    BY <1>2, <1>9, <2>2
  <2> HIDE DEF G
  <2>3. \A k \in 0..n : k \in G
    BY <2>1, <2>2, StepByStep
  <2> QED  BY <2>3 DEF G
<1>11. TokenCount(s) = f[n]
  BY <1>1, <1>7 DEF TokenCount, Sums
<1>12. f[0] = 0 /\ \A k \in 1..n : f[k] = f[k - 1] + Weight(s[k])
  BY <1>9
<1>13. Counts(f, s, n)
  BY <1>10, <1>11, <1>12 DEF Counts
<1> QED  BY <1>13

\* So has a text: TokenCount.
LEMMA CountType ==
    ASSUME doc \in Seq(Kinds), NEW s \in Seq(Names) PROVE TokenCount(s) \in Nat
<1>1. PICK n \in Nat : n = Len(s)
  OBVIOUS
<1>2. PICK f : Counts(f, s, n)
  BY <1>1, CountIs
<1>3. n \in 0..n
  OBVIOUS
<1> QED  BY <1>2, <1>3 DEF Counts

\* A text that is being cut into pieces.
Cutting == [out : Seq(Seq(Names)), open : Seq(Names), tokens : Nat]

\* The text in it.
Held(p) == FlattenSeq(p.out) \o p.open

\* Nothing has been cut.
LEMMA NoPiecesHold == NoPieces \in Cutting /\ Held(NoPieces) = <<>>
<1>1. NoPieces \in Cutting
  BY DEF NoPieces, Cutting
<1>2. <<>> \o <<>> = <<>>
  OBVIOUS
<1> QED  BY <1>1, <1>2, FlattenNone DEF NoPieces, Held

\* The open piece is put with those that are done.
LEMMA OpenPieceKept ==
    ASSUME NEW p \in Cutting, NEW q, q.out = Append(p.out, p.open), q.open = <<>>
    PROVE  q.out \in Seq(Seq(Names)) /\ Held(q) = Held(p)
<1>1. PICK S : S = Names
  OBVIOUS
<1>2. p.out \in Seq(Seq(S)) /\ p.open \in Seq(S)
  BY <1>1 DEF Cutting
<1>3. q.out \in Seq(Seq(S))
  BY <1>2
<1>4. FlattenSeq(q.out) = FlattenSeq(p.out) \o p.open
  BY <1>2, FlattenAppend
<1>5. FlattenSeq(q.out) \in Seq(S)
  BY <1>3, FlattenType
<1>6. FlattenSeq(q.out) \o <<>> = FlattenSeq(q.out)
  BY <1>5, ConcatEmptySeq
<1> QED  BY <1>1, <1>3, <1>4, <1>6 DEF Held

\* The open piece is done and nothing of it is lost.
LEMMA DoneHolds ==
    ASSUME NEW p \in Cutting PROVE Done(p) \in Cutting /\ Held(Done(p)) = Held(p)
<1>1. CASE p.tokens > 0
  <2>1. Done(p) = [out |-> Append(p.out, p.open), open |-> <<>>, tokens |-> 0]
    BY <1>1 DEF Done, NoPieces
  <2>2. Done(p).out = Append(p.out, p.open) /\ Done(p).open = <<>>
    BY <2>1
  <2>3. Done(p).out \in Seq(Seq(Names)) /\ Held(Done(p)) = Held(p)
    BY <2>2, OpenPieceKept
  <2>4. Done(p) \in Cutting
    BY <2>1, <2>2, <2>3 DEF Cutting
  <2> QED  BY <2>3, <2>4
<1>2. CASE ~(p.tokens > 0)
  BY <1>2 DEF Done
<1> QED  BY <1>1, <1>2

\* Text is put after the open piece.
More(p, u, n) == [p EXCEPT !.open = @ \o u, !.tokens = @ + n]

\* A text at the end of the open piece.
LEMMA OpenPieceGrows ==
    ASSUME doc \in Seq(Kinds), NEW p \in Cutting, NEW u \in Seq(Names), NEW n \in Nat
    PROVE  More(p, u, n) \in Cutting /\ Held(More(p, u, n)) = Held(p) \o u
<1> PICK q : q = More(p, u, n)
  OBVIOUS
<1>1. q \in Cutting /\ q.out = p.out /\ q.open = p.open \o u
  <2>1. q = [out |-> p.out, open |-> p.open \o u, tokens |-> p.tokens + n]
    <3>1. p = [out |-> p.out, open |-> p.open, tokens |-> p.tokens]
      BY DEF Cutting
    <3>2. q = [p EXCEPT !.open = p.open \o u, !.tokens = p.tokens + n]
      BY DEF More
    <3> QED  BY <3>1, <3>2
  <2>2. p.out \in Seq(Seq(Names)) /\ p.open \in Seq(Names) /\ p.tokens + n \in Nat
    BY DEF Cutting
  <2>3. p.open \o u \in Seq(Names)
    BY <2>2, ConcatProperties
  <2> QED  BY <2>1, <2>2, <2>3 DEF Cutting
<1>2. PICK x, y, S : x = FlattenSeq(p.out) /\ y = p.open /\ S = Names
  OBVIOUS
<1>3. x \in Seq(S) /\ y \in Seq(S) /\ u \in Seq(S)
  <2>1. p.out \in Seq(Seq(S)) /\ p.open \in Seq(S)
    BY <1>2 DEF Cutting
  <2> QED  BY <1>2, <2>1, FlattenType
<1>4. (x \o y) \o u = x \o (y \o u)
  <2>1. Grouped(x, y, u)
    BY <1>3, Grouping
  <2> QED  BY <2>1 DEF Grouped
<1>5. Held(q) = Held(p) \o u
  BY <1>1, <1>2, <1>4 DEF Held
<1> QED  BY <1>1, <1>5

\* A text, in the open piece or in a new one.
LEMMA AddTextHolds ==
    ASSUME doc \in Seq(Kinds), NEW p \in Cutting, NEW u \in Seq(Names)
    PROVE  AddText(p, u) \in Cutting /\ Held(AddText(p, u)) = Held(p) \o u
<1>1. PICK q \in Cutting :
        Held(q) = Held(p) /\ AddText(p, u) = More(q, u, TokenCount(u))
  <2>1. CASE p.tokens + TokenCount(u) > MaxTokens
    BY <2>1, DoneHolds DEF AddText, More
  <2>2. CASE ~(p.tokens + TokenCount(u) > MaxTokens)
    BY <2>2 DEF AddText, More
  <2> QED  BY <2>1, <2>2
<1>2. TokenCount(u) \in Nat
  BY CountType
<1> QED  BY <1>1, <1>2, OpenPieceGrows

\* Whatever adds the texts of s one by one holds them all at the end.
LEMMA AllHeld ==
    ASSUME NEW s \in Seq(Seq(Names)), NEW b \in Cutting, NEW f, NEW n \in Nat, n = Len(s), f[0] = b,
           \A k \in 1..n : f[k - 1] \in Cutting =>
                              f[k] \in Cutting /\ Held(f[k]) = Held(f[k - 1]) \o s[k]
    PROVE  f[n] \in Cutting /\ Held(f[n]) = Held(b) \o FlattenSeq(s)
<1>1. PICK S, x : S = Names /\ x = Held(b)
  OBVIOUS
<1>2. PICK p : Concats(p, S, s) /\ FlattenSeq(s) = p[n]
  BY <1>1, FlattenHas
<1>3. /\ \A k \in 0..n : p[k] \in Seq(S)
      /\ p[0] = <<>>
      /\ \A k \in 1..n : p[k] = p[k - 1] \o s[k] /\ s[k] \in Seq(S)
  <2>1. \A k \in 1..n : s[k] \in Seq(S)
    BY <1>1, ElementOfSeq
  <2> QED  BY <1>2, <2>1 DEF Concats
<1>4. x \in Seq(S)
  <2>1. b.out \in Seq(Seq(S)) /\ b.open \in Seq(S)
    BY <1>1 DEF Cutting
  <2>2. FlattenSeq(b.out) \in Seq(S)
    BY <2>1, FlattenType
  <2>3. FlattenSeq(b.out) \o b.open \in Seq(S)
    BY <2>1, <2>2, ConcatProperties
  <2> QED  BY <1>1, <2>3 DEF Held
<1> DEFINE G == {k \in 0..n : f[k] \in Cutting /\ Held(f[k]) = x \o p[k]}
<1>5. 0 \in G
  <2>1. x \o <<>> = x
    BY <1>4, ConcatEmptySeq
  <2>2. f[0] \in Cutting /\ Held(f[0]) = x \o p[0]
    BY <1>1, <1>3, <2>1
  <2> QED  BY <2>2
<1>6. ASSUME NEW k \in 1..n, k - 1 \in G PROVE k \in G
  <2>1. f[k - 1] \in Cutting /\ Held(f[k - 1]) = x \o p[k - 1]
    BY <1>6
  <2>2. f[k] \in Cutting /\ Held(f[k]) = Held(f[k - 1]) \o s[k]
    BY <2>1
  <2>3. PICK y, z : y = p[k - 1] /\ z = s[k]
    OBVIOUS
  <2>4. k - 1 \in 0..n /\ k \in 0..n
    OBVIOUS
  <2>5. y \in Seq(S) /\ z \in Seq(S)
    BY <1>3, <2>3, <2>4
  <2>6. (x \o y) \o z = x \o (y \o z)
    <3>1. Grouped(x, y, z)
      BY <1>4, <2>5, Grouping
    <3> QED  BY <3>1 DEF Grouped
  <2>7. p[k] = y \o z
    BY <1>3, <2>3
  <2> QED  BY <2>1, <2>2, <2>3, <2>4, <2>6, <2>7
<1>7. n \in G
  <2> HIDE DEF G
  <2>1. \A k \in 0..n : k \in G
    BY <1>5, <1>6, StepByStep
  <2> QED  BY <2>1
<1> QED  BY <1>1, <1>2, <1>7

\* The recursive function of AddParagraph.
Adds(f, p, para) ==
    f = [k \in 0..Len(para) |-> IF k = 0 THEN Done(p) ELSE AddText(f[k - 1], <<para[k]>>)]

\* A paragraph that is too long is added by sentences.
LEMMA AddParagraphIs ==
    ASSUME doc \in Seq(Kinds), NEW p \in Cutting, NEW para \in Seq(Names), NEW n \in Nat, n = Len(para),
           ~(TokenCount(para) <= MaxTokens)
    PROVE  \E f : /\ f[0] = Done(p)
                  /\ \A k \in 1..n : f[k] = AddText(f[k - 1], <<para[k]>>)
                  /\ AddParagraph(p, para) = f[n]
<1>1. PICK s : s = [k \in 1..n |-> <<para[k]>>]
  OBVIOUS
<1>2. \A k \in 1..n : s[k] = <<para[k]>> /\ s[k] \in Seq(Names)
  BY <1>1
<1>3. PICK F : F = [x \in Cutting \X (1..n) |-> AddText(x[1], s[x[2]])]
  OBVIOUS
<1>4. F \in [Cutting \X (1..n) -> Cutting]
  <2>1. ASSUME NEW x \in Cutting \X (1..n) PROVE AddText(x[1], s[x[2]]) \in Cutting
    <3>1. x[1] \in Cutting /\ s[x[2]] \in Seq(Names)
      BY <1>2
    <3> QED  BY <3>1, AddTextHolds
  <2> QED  BY <1>3, <2>1
<1>5. PICK b \in Cutting : b = Done(p)
  BY DoneHolds
<1>6. PICK g : Goes(g, Cutting, n, b, F)
  BY <1>4, Recursion
<1>7. \E f : Adds(f, p, para)
  <2>1. g = [k \in 0..n |-> g[k]]
    BY <1>6 DEF Goes
  <2>2. ASSUME NEW k \in 0..n PROVE g[k] = IF k = 0 THEN Done(p) ELSE AddText(g[k - 1], <<para[k]>>)
    <3>1. CASE k = 0
      BY <1>5, <1>6, <3>1 DEF Goes
    <3>2. CASE k # 0
      <4>1. k \in 1..n /\ k - 1 \in 0..n
        BY <3>2
      <4>2. g[k - 1] \in Cutting
        BY <1>6, <4>1 DEF Goes
      <4>3. F[<<g[k - 1], k>>] = AddText(g[k - 1], <<para[k]>>)
        BY <1>2, <1>3, <4>1, <4>2
      <4> QED  BY <1>6, <3>2, <4>1, <4>3 DEF Goes
    <3> QED  BY <3>1, <3>2
  <2>3. g = [k \in 0..n |-> IF k = 0 THEN Done(p) ELSE AddText(g[k - 1], <<para[k]>>)]
    BY <2>1, <2>2
  <2> QED  BY <2>3 DEF Adds
<1>8. PICK f : f = CHOOSE h : Adds(h, p, para)
  OBVIOUS
<1>9. Adds(f, p, para)
  BY <1>7, <1>8
<1>10. \A k \in 0..n : f[k] = IF k = 0 THEN Done(p) ELSE AddText(f[k - 1], <<para[k]>>)
  BY <1>9 DEF Adds
<1>11. f[0] = Done(p)
  <2>1. 0 \in 0..n
    OBVIOUS
  <2> QED  BY <1>10, <2>1
<1>12. ASSUME NEW k \in 1..n PROVE f[k] = AddText(f[k - 1], <<para[k]>>)
  <2>1. k \in 0..n /\ k # 0
    OBVIOUS
  <2> QED  BY <1>10, <2>1
<1>13. AddParagraph(p, para) = f[n]
  BY <1>8 DEF AddParagraph, Adds
<1> QED  BY <1>11, <1>12, <1>13

\* A paragraph, whole or by sentences.
LEMMA AddParagraphHolds ==
    ASSUME doc \in Seq(Kinds), NEW p \in Cutting, NEW para \in Seq(Names)
    PROVE  AddParagraph(p, para) \in Cutting /\ Held(AddParagraph(p, para)) = Held(p) \o para
<1>1. CASE TokenCount(para) <= MaxTokens
  BY <1>1, AddTextHolds DEF AddParagraph
<1>2. CASE ~(TokenCount(para) <= MaxTokens)
  <2>1. PICK n \in Nat : n = Len(para)
    OBVIOUS
  <2>2. PICK s : s = [k \in 1..n |-> <<para[k]>>]
    OBVIOUS
  <2>3. s \in Seq(Seq(Names)) /\ Len(s) = n /\ \A k \in 1..n : s[k] = <<para[k]>> /\ s[k] \in Seq(Names)
    BY <2>1, <2>2
  <2>4. PICK b \in Cutting : b = Done(p) /\ Held(b) = Held(p)
    BY DoneHolds
  <2>5. PICK f : /\ f[0] = Done(p)
                 /\ \A k \in 1..n : f[k] = AddText(f[k - 1], <<para[k]>>)
                 /\ AddParagraph(p, para) = f[n]
    BY <1>2, <2>1, AddParagraphIs
  <2>6. f[0] = b /\ \A k \in 1..n : f[k] = AddText(f[k - 1], s[k])
    BY <2>3, <2>4, <2>5
  <2>7. ASSUME NEW k \in 1..n, f[k - 1] \in Cutting
        PROVE  f[k] \in Cutting /\ Held(f[k]) = Held(f[k - 1]) \o s[k]
    BY <2>3, <2>6, <2>7, AddTextHolds
  <2>8. f[n] \in Cutting /\ Held(f[n]) = Held(b) \o FlattenSeq(s)
    BY <2>3, <2>6, <2>7, AllHeld
  <2>9. FlattenSeq(s) = para
    BY <2>1, <2>2, FlattenSingles
  <2> QED  BY <2>4, <2>5, <2>8, <2>9
<1> QED  BY <1>1, <1>2

\* The recursive function of Packed.
Packs(f, text) ==
    f = [k \in 0..Len(text) |-> IF k = 0 THEN NoPieces ELSE AddParagraph(f[k - 1], text[k])]

\* Paragraphs are added one by one.
LEMMA PackedIs ==
    ASSUME doc \in Seq(Kinds), NEW text \in Seq(Seq(Names)), NEW n \in Nat, n = Len(text)
    PROVE  \E f : /\ f[0] = NoPieces
                  /\ \A k \in 1..n : f[k] = AddParagraph(f[k - 1], text[k])
                  /\ Packed(text) = f[n]
<1>2. \A k \in 1..n : text[k] \in Seq(Names)
  OBVIOUS
<1>3. PICK F : F = [x \in Cutting \X (1..n) |-> AddParagraph(x[1], text[x[2]])]
  OBVIOUS
<1>4. F \in [Cutting \X (1..n) -> Cutting]
  <2>1. ASSUME NEW x \in Cutting \X (1..n) PROVE AddParagraph(x[1], text[x[2]]) \in Cutting
    <3>1. x[1] \in Cutting /\ text[x[2]] \in Seq(Names)
      BY <1>2
    <3> QED  BY <3>1, AddParagraphHolds
  <2> QED  BY <1>3, <2>1
<1>5. PICK b \in Cutting : b = NoPieces
  BY NoPiecesHold
<1>6. PICK g : Goes(g, Cutting, n, b, F)
  BY <1>4, Recursion
<1>7. \E f : Packs(f, text)
  <2>1. g = [k \in 0..n |-> g[k]]
    BY <1>6 DEF Goes
  <2>2. ASSUME NEW k \in 0..n PROVE g[k] = IF k = 0 THEN NoPieces ELSE AddParagraph(g[k - 1], text[k])
    <3>1. CASE k = 0
      BY <1>5, <1>6, <3>1 DEF Goes
    <3>2. CASE k # 0
      <4>1. k \in 1..n /\ k - 1 \in 0..n
        BY <3>2
      <4>2. g[k - 1] \in Cutting
        BY <1>6, <4>1 DEF Goes
      <4>3. F[<<g[k - 1], k>>] = AddParagraph(g[k - 1], text[k])
        BY <1>3, <4>1, <4>2
      <4> QED  BY <1>6, <3>2, <4>1, <4>3 DEF Goes
    <3> QED  BY <3>1, <3>2
  <2>3. g = [k \in 0..n |-> IF k = 0 THEN NoPieces ELSE AddParagraph(g[k - 1], text[k])]
    BY <2>1, <2>2
  <2> QED  BY <2>3 DEF Packs
<1>8. PICK f : f = CHOOSE h : Packs(h, text)
  OBVIOUS
<1>9. Packs(f, text)
  BY <1>7, <1>8
<1>10. \A k \in 0..n : f[k] = IF k = 0 THEN NoPieces ELSE AddParagraph(f[k - 1], text[k])
  BY <1>9 DEF Packs
<1>11. f[0] = NoPieces
  <2>1. 0 \in 0..n
    OBVIOUS
  <2> QED  BY <1>10, <2>1
<1>12. ASSUME NEW k \in 1..n PROVE f[k] = AddParagraph(f[k - 1], text[k])
  <2>1. k \in 0..n /\ k # 0
    OBVIOUS
  <2> QED  BY <1>10, <2>1
<1>13. Packed(text) = f[n]
  BY <1>8 DEF Packed, Packs
<1> QED  BY <1>11, <1>12, <1>13

\* All paragraphs.
LEMMA PackedHolds ==
    ASSUME doc \in Seq(Kinds), NEW text \in Seq(Seq(Names))
    PROVE  Packed(text) \in Cutting /\ Held(Packed(text)) = FlattenSeq(text)
<1>1. PICK n \in Nat : n = Len(text)
  OBVIOUS
<1>2. PICK f : /\ f[0] = NoPieces
               /\ \A k \in 1..n : f[k] = AddParagraph(f[k - 1], text[k])
               /\ Packed(text) = f[n]
  BY <1>1, PackedIs
<1>3. PICK b \in Cutting : b = NoPieces /\ Held(b) = <<>>
  BY NoPiecesHold
<1>4. \A k \in 1..n : text[k] \in Seq(Names)
  BY <1>1
<1>5. ASSUME NEW k \in 1..n, f[k - 1] \in Cutting
      PROVE  f[k] \in Cutting /\ Held(f[k]) = Held(f[k - 1]) \o text[k]
  BY <1>2, <1>4, <1>5, AddParagraphHolds
<1>6. f[n] \in Cutting /\ Held(f[n]) = Held(b) \o FlattenSeq(text)
  BY <1>1, <1>2, <1>3, <1>5, AllHeld
<1>7. <<>> \o FlattenSeq(text) = FlattenSeq(text)
  BY FlattenType, ConcatEmptySeq
<1> QED  BY <1>2, <1>3, <1>6, <1>7

\* splitPiece cuts a text and keeps it.
LEMMA SplitPieceKeeps ==
    ASSUME doc \in Seq(Kinds), NEW text \in Seq(Seq(Names))
    PROVE  SplitPiece(text) \in Seq(Seq(Names)) /\ FlattenSeq(SplitPiece(text)) = FlattenSeq(text)
<1>1. PICK S : S = Names
  OBVIOUS
<1>2. PICK whole \in Seq(S) : whole = FlattenSeq(text)
  BY <1>1, FlattenType
<1>3. CASE TokenCount(whole) <= MaxTokens
  <2>1. SplitPiece(text) = <<whole>>
    BY <1>2, <1>3 DEF SplitPiece
  <2>2. <<whole>> \in Seq(Seq(S))
    OBVIOUS
  <2> QED  BY <1>1, <1>2, <2>1, <2>2, FlattenOne
<1>4. CASE ~(TokenCount(whole) <= MaxTokens)
  <2>1. PICK p : p = Packed(text)
    OBVIOUS
  <2>2. p \in Cutting /\ FlattenSeq(p.out) \o p.open = whole
    BY <1>2, <2>1, PackedHolds DEF Held
  <2>3. p.out \in Seq(Seq(S)) /\ p.open \in Seq(S)
    BY <1>1, <2>2 DEF Cutting
  <2>4. CASE p.open = <<>>
    <3>1. SplitPiece(text) = p.out
      BY <1>2, <1>4, <2>1, <2>4 DEF SplitPiece
    <3>2. FlattenSeq(p.out) \o <<>> = FlattenSeq(p.out)
      BY <2>3, FlattenType, ConcatEmptySeq
    <3> QED  BY <1>1, <1>2, <2>2, <2>3, <2>4, <3>1, <3>2
  <2>5. CASE p.open # <<>>
    <3>1. SplitPiece(text) = Append(p.out, p.open)
      BY <1>2, <1>4, <2>1, <2>5 DEF SplitPiece
    <3>2. FlattenSeq(Append(p.out, p.open)) = FlattenSeq(p.out) \o p.open
      BY <2>3, FlattenAppend
    <3>3. Append(p.out, p.open) \in Seq(Seq(S))
      BY <2>3
    <3> QED  BY <1>1, <1>2, <2>2, <3>1, <3>2, <3>3
  <2> QED  BY <2>4, <2>5
<1> QED  BY <1>3, <1>4

\* A row, with those before it or in a new part.
LEMMA AddRowHolds ==
    ASSUME doc \in Seq(Kinds), NEW p \in Cutting, NEW row \in Seq(Names), NEW header \in Seq(Names)
    PROVE  AddRow(p, row, header) \in Cutting /\ Held(AddRow(p, row, header)) = Held(p) \o row
<1>1. TokenCount(row) \in Nat /\ TokenCount(header) \in Nat
  BY CountType
<1>2. PICK m \in Nat, n \in Nat : m = TokenCount(header) /\ n = TokenCount(row)
  BY <1>1
<1>3. CASE p.tokens + TokenCount(row) > MaxTokens /\ p.open # <<>>
  <2>1. PICK q : q = [out |-> Append(p.out, p.open), open |-> <<>>, tokens |-> m]
    OBVIOUS
  <2>2. q.out = Append(p.out, p.open) /\ q.open = <<>>
    BY <2>1
  <2>3. q.out \in Seq(Seq(Names)) /\ Held(q) = Held(p)
    BY <2>2, OpenPieceKept
  <2>4. q \in Cutting
    BY <2>1, <2>2, <2>3 DEF Cutting
  <2>5. AddRow(p, row, header) = More(q, row, n)
    <3>1. AddRow(p, row, header) = [out |-> Append(p.out, p.open), open |-> row, tokens |-> m + n]
      BY <1>2, <1>3 DEF AddRow
    <3>2. More(q, row, n) = [out |-> Append(p.out, p.open), open |-> <<>> \o row, tokens |-> m + n]
      <4>1. More(q, row, n) = [q EXCEPT !.open = q.open \o row, !.tokens = q.tokens + n]
        BY DEF More
      <4>2. q.open = <<>> /\ q.tokens = m
        BY <2>1
      <4> QED  BY <2>1, <4>1, <4>2
    <3>3. <<>> \o row = row
      BY ConcatEmptySeq
    <3> QED  BY <3>1, <3>2, <3>3
  <2> QED  BY <2>3, <2>4, <2>5, OpenPieceGrows
<1>4. CASE ~(p.tokens + TokenCount(row) > MaxTokens /\ p.open # <<>>)
  <2>1. AddRow(p, row, header) = More(p, row, n)
    BY <1>2, <1>4 DEF AddRow, More
  <2> QED  BY <2>1, OpenPieceGrows
<1> QED  BY <1>3, <1>4

\* A text put before the first one comes before all.
LEMMA FirstGrows ==
    ASSUME NEW S, NEW s \in Seq(Seq(S)), s # <<>>, NEW h \in Seq(S),
           NEW t, t = [i \in DOMAIN s |-> IF i = 1 THEN h \o s[1] ELSE s[i]]
    PROVE  t \in Seq(Seq(S)) /\ FlattenSeq(t) = h \o FlattenSeq(s)
<1>1. PICK n \in Nat : n = Len(s) /\ DOMAIN s = 1..n
  OBVIOUS
<1>2. \A i \in 1..n : s[i] \in Seq(S)
  BY <1>1
<1>3. n > 0
  BY <1>1, EmptySeq
<1>4. 1 \in 1..n
  BY <1>3
<1>5. h \o s[1] \in Seq(S)
  BY <1>2, <1>4, ConcatProperties
<1>6. t \in Seq(Seq(S)) /\ Len(t) = n
  BY <1>1, <1>2, <1>5
<1>7. t # <<>>
  BY <1>3, <1>6
<1>8. /\ Head(s) = s[1] /\ Tail(s) \in Seq(Seq(S)) /\ Len(Tail(s)) = n - 1
      /\ \A i \in 1..(n - 1) : Tail(s)[i] = s[i + 1]
  BY <1>1, HeadTailProperties
<1>9. /\ Head(t) = t[1] /\ Tail(t) \in Seq(Seq(S)) /\ Len(Tail(t)) = n - 1
      /\ \A i \in 1..(n - 1) : Tail(t)[i] = t[i + 1]
  BY <1>6, <1>7, HeadTailProperties
<1>10. Tail(t) = Tail(s)
  <2>1. ASSUME NEW i \in 1..(n - 1) PROVE Tail(t)[i] = Tail(s)[i]
    <3>1. i + 1 \in 1..n /\ i + 1 # 1
      OBVIOUS
    <3>2. t[i + 1] = s[i + 1]
      BY <1>1, <3>1
    <3> QED  BY <1>8, <1>9, <3>2
  <2> QED  BY <1>8, <1>9, <2>1
<1>11. FlattenSeq(t) = (h \o s[1]) \o FlattenSeq(Tail(s))
  <2>1. t[1] = h \o s[1]
    BY <1>1, <1>4
  <2>2. FlattenSeq(t) = Head(t) \o FlattenSeq(Tail(t))
    BY <1>6, <1>7, FlattenFirst
  <2> QED  BY <1>9, <1>10, <2>1, <2>2
<1>12. FlattenSeq(s) = s[1] \o FlattenSeq(Tail(s))
  BY <1>8, FlattenFirst
<1>13. PICK x, y : x = s[1] /\ y = FlattenSeq(Tail(s))
  OBVIOUS
<1>14. x \in Seq(S) /\ y \in Seq(S)
  BY <1>2, <1>4, <1>8, <1>13, FlattenType
<1>15. (h \o x) \o y = h \o (x \o y)
  <2>1. Grouped(h, x, y)
    BY <1>14, Grouping
  <2> QED  BY <2>1 DEF Grouped
<1> QED  BY <1>6, <1>11, <1>12, <1>13, <1>15

\* Pieces of a table, and the own texts of pieces or chunks.
PieceType == [own : Seq(Names), head : Seq(Names)]
OwnsOf(cs) == [i \in DOMAIN cs |-> cs[i].own]

\* The recursive function of SplitTable, and its last value.
Cuts(f, text, header) ==
    f = [k \in 0..(Len(text) - 2) |->
           IF k = 0 THEN [NoPieces EXCEPT !.tokens = TokenCount(header)]
           ELSE AddRow(f[k - 1], text[k + 2], header)]

RowsCut(text, header) == (CHOOSE f : Cuts(f, text, header))[Len(text) - 2]

\* The rows of a table are those after its first two.
LEMMA RowCount == ASSUME NEW n \in Nat PROVE (IF 3 <= n + 2 THEN n + 2 - 3 + 1 ELSE 0) = n
OBVIOUS

\* f[k] is what the first k of n rows are put together to.
RowsGo(f, text, header, n) ==
    /\ f[0] = [NoPieces EXCEPT !.tokens = TokenCount(header)]
    /\ \A k \in 1..n : f[k] = AddRow(f[k - 1], text[k + 2], header)
    /\ RowsCut(text, header) = f[n]

\* Rows are put together one by one.
LEMMA RowsAre ==
    ASSUME doc \in Seq(Kinds), NEW header \in Seq(Names), NEW text \in Seq(Seq(Names)),
           NEW n \in Nat, n = Len(text) - 2
    PROVE  \E f : RowsGo(f, text, header, n)
<1>1. Len(text) = n + 2
  OBVIOUS
<1>2. \A k \in 1..n : text[k + 2] \in Seq(Names)
  <2> TAKE k \in 1..n
  <2>1. k + 2 \in 1..Len(text)
    BY <1>1
  <2> QED  BY <2>1
<1>3. PICK F : F = [x \in Cutting \X (1..n) |-> AddRow(x[1], text[x[2] + 2], header)]
  OBVIOUS
<1>4. F \in [Cutting \X (1..n) -> Cutting]
  <2>1. ASSUME NEW x \in Cutting \X (1..n) PROVE AddRow(x[1], text[x[2] + 2], header) \in Cutting
    <3>1. x[1] \in Cutting /\ text[x[2] + 2] \in Seq(Names)
      BY <1>2
    <3> QED  BY <3>1, AddRowHolds
  <2> QED  BY <1>3, <2>1
<1>5. PICK b \in Cutting : b = [NoPieces EXCEPT !.tokens = TokenCount(header)]
  <2>1. [out |-> <<>>, open |-> <<>>, tokens |-> TokenCount(header)] \in Cutting
    BY CountType DEF Cutting
  <2> QED  BY <2>1 DEF NoPieces
<1>6. PICK g : Goes(g, Cutting, n, b, F)
  BY <1>4, Recursion
<1> DEFINE Step(h, k) == IF k = 0 THEN [NoPieces EXCEPT !.tokens = TokenCount(header)]
                         ELSE AddRow(h[k - 1], text[k + 2], header)
<1>7. Cuts(g, text, header)
  <2>1. g = [k \in 0..n |-> g[k]]
    BY <1>6 DEF Goes
  <2>2. ASSUME NEW k \in 0..n PROVE g[k] = Step(g, k)
    <3>1. CASE k = 0
      BY <1>5, <1>6, <3>1 DEF Goes
    <3>2. CASE k # 0
      <4>1. k \in 1..n /\ k - 1 \in 0..n
        BY <3>2
      <4>2. g[k - 1] \in Cutting
        BY <1>6, <4>1 DEF Goes
      <4>3. F[<<g[k - 1], k>>] = AddRow(g[k - 1], text[k + 2], header)
        BY <1>3, <4>1, <4>2
      <4>4. g[k] = F[<<g[k - 1], k>>]
        BY <1>6, <4>1 DEF Goes
      <4> QED  BY <3>2, <4>3, <4>4
    <3> QED  BY <3>1, <3>2
  <2>3. g = [k \in 0..n |-> Step(g, k)]
    <3> HIDE DEF Step
    <3> QED  BY <2>1, <2>2
  <2> QED  BY <2>3 DEF Cuts
<1>8. PICK f : f = CHOOSE h : Cuts(h, text, header)
  OBVIOUS
<1>9. Cuts(f, text, header)
  BY <1>7, <1>8
<1>10. \A k \in 0..n : f[k] = Step(f, k)
  BY <1>9 DEF Cuts
<1>11. f[0] = [NoPieces EXCEPT !.tokens = TokenCount(header)]
  <2>1. 0 \in 0..n
    OBVIOUS
  <2>2. f[0] = Step(f, 0)
    BY <1>10, <2>1
  <2> QED  BY <2>2
<1>12. ASSUME NEW k \in 1..n PROVE f[k] = AddRow(f[k - 1], text[k + 2], header)
  <2>1. k \in 0..n /\ k # 0
    OBVIOUS
  <2>2. f[k] = Step(f, k)
    BY <1>10, <2>1
  <2> QED  BY <2>1, <2>2
<1>13. RowsCut(text, header) = f[n]
  BY <1>8 DEF RowsCut
<1>14. RowsGo(f, text, header, n)
  BY <1>11, <1>12, <1>13 DEF RowsGo
<1> QED  BY <1>14

\* The rows of a table hold all of them.
LEMMA RowsHeld ==
    ASSUME doc \in Seq(Kinds), NEW header \in Seq(Names), NEW text \in Seq(Seq(Names)),
           NEW n \in Nat, n = Len(text) - 2, NEW rows, rows = SubSeq(text, 3, Len(text))
    PROVE  /\ rows \in Seq(Seq(Names))
           /\ RowsCut(text, header) \in Cutting
           /\ Held(RowsCut(text, header)) = FlattenSeq(rows)
<1>1. Len(text) = n + 2
  OBVIOUS
<1>2. /\ rows \in Seq(Seq(Names)) /\ Len(rows) = n
      /\ \A k \in 1..n : rows[k] = text[k + 2] /\ rows[k] \in Seq(Names)
  <2>1. \A i \in 3..(n + 2) : text[i] \in Seq(Names)
    BY <1>1
  <2>2. /\ SubSeq(text, 3, n + 2) \in Seq(Seq(Names))
        /\ Len(SubSeq(text, 3, n + 2)) = IF 3 <= n + 2 THEN n + 2 - 3 + 1 ELSE 0
        /\ \A i \in 1..(n + 2 - 3 + 1) : SubSeq(text, 3, n + 2)[i] = text[3 + i - 1]
    BY <2>1, SubSeqProperties
  <2>3. rows \in Seq(Seq(Names)) /\ Len(rows) = n
    <3>1. rows = SubSeq(text, 3, n + 2)
      BY <1>1
    <3>2. (IF 3 <= n + 2 THEN n + 2 - 3 + 1 ELSE 0) = n
      BY RowCount
    <3> QED  BY <2>2, <3>1, <3>2
  <2>4. ASSUME NEW k \in 1..n PROVE rows[k] = text[k + 2] /\ rows[k] \in Seq(Names)
    <3>1. k \in 1..(n + 2 - 3 + 1) /\ 3 + k - 1 = k + 2
      OBVIOUS
    <3>2. rows[k] = text[k + 2]
      BY <1>1, <2>2, <3>1
    <3> QED  BY <2>3, <3>2, ElementOfSeq
  <2> QED  BY <2>3, <2>4
<1>3. PICK b \in Cutting : b = [NoPieces EXCEPT !.tokens = TokenCount(header)] /\ Held(b) = <<>>
  <2>1. PICK b : b = [NoPieces EXCEPT !.tokens = TokenCount(header)]
    OBVIOUS
  <2>2. b = [out |-> <<>>, open |-> <<>>, tokens |-> TokenCount(header)]
    BY <2>1 DEF NoPieces
  <2>3. TokenCount(header) \in Nat
    BY CountType
  <2>4. b \in Cutting
    BY <2>2, <2>3 DEF Cutting
  <2>5. <<>> \o <<>> = <<>>
    OBVIOUS
  <2>6. Held(b) = <<>>
    BY <2>2, <2>5, FlattenNone DEF Held
  <2> QED  BY <2>1, <2>4, <2>6
<1>4. PICK f : RowsGo(f, text, header, n)
  BY RowsAre
<1> USE DEF RowsGo
<1>5. ASSUME NEW k \in 1..n, f[k - 1] \in Cutting
      PROVE  f[k] \in Cutting /\ Held(f[k]) = Held(f[k - 1]) \o rows[k]
  <2>1. PICK p \in Cutting : p = f[k - 1]
    BY <1>5
  <2>2. PICK row \in Seq(Names) : row = rows[k]
    BY <1>2
  <2>3. AddRow(p, row, header) \in Cutting /\ Held(AddRow(p, row, header)) = Held(p) \o row
    BY AddRowHolds
  <2>4. f[k] = AddRow(p, row, header)
    BY <1>2, <1>4, <2>1, <2>2
  <2> QED  BY <2>1, <2>2, <2>3, <2>4
<1>6. f[n] \in Cutting /\ Held(f[n]) = Held(b) \o FlattenSeq(rows)
  <2>1. f[0] = b
    BY <1>3, <1>4
  <2> QED  BY <1>2, <1>5, <2>1, AllHeld
<1>7. <<>> \o FlattenSeq(rows) = FlattenSeq(rows)
  BY <1>2, FlattenType, ConcatEmptySeq
<1> QED  BY <1>2, <1>3, <1>4, <1>6, <1>7

\* splitTable cuts a table by rows, repeats its header and keeps it otherwise.
LEMMA SplitTableKeeps ==
    ASSUME doc \in Seq(Kinds), NEW text \in Seq(Seq(Names)), text # <<>>
    PROVE  /\ SplitTable(text) \in Seq(PieceType)
           /\ FlattenSeq(OwnsOf(SplitTable(text))) = FlattenSeq(text)
<1>1. PICK S : S = Names
  OBVIOUS
<1>2. text \in Seq(Seq(S)) /\ Len(text) \in Nat /\ Len(text) > 0
  BY <1>1, EmptySeq
<1>3. CASE Len(text) < 3
  <2>1. PICK whole : whole = SplitPiece(text)
    OBVIOUS
  <2>2. whole \in Seq(Seq(S)) /\ FlattenSeq(whole) = FlattenSeq(text)
    BY <1>1, <2>1, SplitPieceKeeps
  <2>3. PICK t : t = [i \in DOMAIN whole |-> [own |-> whole[i], head |-> <<>>]]
    OBVIOUS
  <2>4. SplitTable(text) = t
    BY <1>3, <2>1, <2>3 DEF SplitTable, Piece
  <2>5. t \in Seq(PieceType)
    <3>1. PICK n \in Nat : n = Len(whole) /\ DOMAIN whole = 1..n
      BY <2>2
    <3>2. \A i \in 1..n : [own |-> whole[i], head |-> <<>>] \in PieceType
      BY <1>1, <2>2, <3>1 DEF PieceType
    <3> QED  BY <2>3, <3>1, <3>2
  <2>6. OwnsOf(t) = whole
    <3>1. whole = [i \in DOMAIN whole |-> whole[i]]
      BY <2>2
    <3>2. \A i \in DOMAIN whole : t[i].own = whole[i]
      BY <2>3
    <3> QED  BY <2>3, <3>1, <3>2 DEF OwnsOf
  <2> QED  BY <2>2, <2>4, <2>5, <2>6
<1>4. CASE ~(Len(text) < 3)
  <2>1. PICK n \in Nat : n = Len(text) - 2
    <3>1. Len(text) - 2 \in Nat
      BY <1>2, <1>4
    <3> QED  BY <3>1
  <2>2. text[1] \in Seq(S) /\ text[2] \in Seq(S)
    BY <1>2, <1>4
  <2>3. PICK header \in Seq(S) : header = text[1] \o text[2]
    BY <2>2, ConcatProperties
  <2>4. PICK rows : rows = SubSeq(text, 3, Len(text))
    OBVIOUS
  <2>5. PICK p : p = RowsCut(text, header)
    OBVIOUS
  <2>6. p \in Cutting /\ Held(p) = FlattenSeq(rows) /\ rows \in Seq(Seq(S))
    BY <1>1, <2>1, <2>3, <2>4, <2>5, RowsHeld
  <2>7. PICK parts : parts = Append(p.out, p.open)
    OBVIOUS
  <2>8. p.out \in Seq(Seq(S)) /\ p.open \in Seq(S)
    BY <1>1, <2>6 DEF Cutting
  <2>9. parts \in Seq(Seq(S)) /\ parts # <<>>
    <3>1. PICK T : T = Seq(S)
      OBVIOUS
    <3>2. p.out \in Seq(T) /\ p.open \in T
      BY <2>8, <3>1
    <3>3. parts \in Seq(T) /\ parts # <<>>
      BY <2>7, <3>2, AppendType
    <3> QED  BY <3>1, <3>3
  <2>10. FlattenSeq(parts) = FlattenSeq(rows)
    BY <2>6, <2>7, <2>8, FlattenAppend DEF Held
  <2>11. PICK t : t = [i \in DOMAIN parts |->
                         IF i = 1 THEN [own |-> header \o parts[1], head |-> <<>>]
                         ELSE [own |-> parts[i], head |-> header]]
    OBVIOUS
  <2>12. SplitTable(text) = t
    <3>1. PICK q : q = RowsCut(text, text[1] \o text[2])
      OBVIOUS
    <3>2. SplitTable(text) =
            [i \in DOMAIN Append(q.out, q.open) |->
               IF i = 1 THEN [own |-> (text[1] \o text[2]) \o Append(q.out, q.open)[1], head |-> <<>>]
               ELSE [own |-> Append(q.out, q.open)[i], head |-> text[1] \o text[2]]]
      BY <1>4, <3>1 DEF SplitTable, RowsCut, Cuts, Piece
    <3>3. q = p
      BY <2>3, <2>5, <3>1
    <3> QED  BY <2>3, <2>7, <2>11, <3>2, <3>3
  <2>13. PICK u : u = [i \in DOMAIN parts |-> IF i = 1 THEN header \o parts[1] ELSE parts[i]]
    OBVIOUS
  <2>14. u \in Seq(Seq(S)) /\ FlattenSeq(u) = header \o FlattenSeq(parts)
    <3>1. PICK h \in Seq(S) : h = header
      BY <2>3
    <3>2. u = [i \in DOMAIN parts |-> IF i = 1 THEN h \o parts[1] ELSE parts[i]]
      BY <2>13, <3>1
    <3>3. u \in Seq(Seq(S)) /\ FlattenSeq(u) = h \o FlattenSeq(parts)
      BY <2>9, <3>2, FirstGrows
    <3> QED  BY <3>1, <3>3
  <2>15. PICK m \in Nat : m = Len(parts) /\ DOMAIN parts = 1..m
    BY <2>9
  <2>16. ASSUME NEW i \in 1..m PROVE t[i].own = u[i] /\ t[i] \in PieceType
    <3>1. u[i] \in Seq(S)
      <4>1. DOMAIN u = 1..m
        BY <2>13, <2>15
      <4> QED  BY <2>14, <4>1
    <3>2. t[i].own = u[i] /\ t[i] = [own |-> u[i], head |-> IF i = 1 THEN <<>> ELSE header]
      BY <2>11, <2>13, <2>15
    <3> QED  BY <1>1, <2>3, <3>1, <3>2 DEF PieceType
  <2>17. t \in Seq(PieceType)
    <3>1. t = [i \in 1..m |-> t[i]]
      BY <2>11, <2>15
    <3> QED  BY <2>16, <3>1, SequenceIs
  <2>18. OwnsOf(t) = u
    <3>1. DOMAIN t = 1..m /\ u = [i \in 1..m |-> u[i]]
      BY <2>11, <2>13, <2>15
    <3> QED  BY <2>16, <3>1 DEF OwnsOf
  <2>19. FlattenSeq(text) = header \o FlattenSeq(rows)
    <3>1. PICK two : two = SubSeq(text, 1, 2)
      OBVIOUS
    <3>2. two \in Seq(Seq(S)) /\ two = <<text[1], text[2]>>
      <4>1. Len(two) = 2 /\ two[1] = text[1] /\ two[2] = text[2] /\ two \in Seq(Seq(S))
        BY <1>2, <1>4, <3>1
      <4> QED  BY <4>1
    <3>3. text = two \o rows
      <4>1. SubSeq(text, 1, 2) \o SubSeq(text, 2 + 1, Len(text)) = SubSeq(text, 1, Len(text))
        <5>1. 1 \in 1..(Len(text) + 1) /\ 2 \in (1 - 1)..Len(text) /\ Len(text) \in 2..Len(text)
          BY <1>2, <1>4
        <5> QED  BY <1>2, <5>1, ConcatAdjacentSubSeq
      <4>2. SubSeq(text, 1, Len(text)) = text
        BY <1>2, SubSeqFull
      <4> QED  BY <2>4, <3>1, <4>1, <4>2
    <3>4. FlattenSeq(two) = header
      <4>1. <<text[1]>> \in Seq(Seq(S)) /\ two = Append(<<text[1]>>, text[2])
        BY <2>2, <3>2
      <4>2. FlattenSeq(two) = FlattenSeq(<<text[1]>>) \o text[2]
        BY <2>2, <4>1, FlattenAppend
      <4> QED  BY <2>2, <2>3, <4>2, FlattenOne
    <3>5. FlattenSeq(two \o rows) = FlattenSeq(two) \o FlattenSeq(rows)
      BY <2>6, <3>2, FlattenConcat
    <3> QED  BY <3>3, <3>4, <3>5
  <2> QED  BY <2>10, <2>12, <2>14, <2>17, <2>18, <2>19
<1> QED  BY <1>3, <1>4

\* The named text of a block.
LEMMA BlockText ==
    ASSUME doc \in Seq(Kinds), NEW b \in 1..Len(doc)
    PROVE  /\ TextOf(b) \in Seq(Seq(Names)) /\ TextOf(b) # <<>>
           /\ FlattenSeq(TextOf(b)) \in Seq(Names)
<1>1. doc[b] \in Kinds /\ b \in DOMAIN doc /\ b \in Nat
  OBVIOUS
<1>2. PICK t \in Seq(Seq(Nat)) : t = doc[b].text /\ t # <<>>
  BY <1>1, KindsAssumption
<1>3. \A j \in DOMAIN t : t[j] \in Seq(Nat) /\ j \in Nat
  OBVIOUS
<1>4. \A j \in DOMAIN t : \A k \in DOMAIN t[j] : k \in Nat /\ <<b, j, k>> \in Names
  <2> SUFFICES ASSUME NEW j \in DOMAIN t, NEW k \in DOMAIN t[j]
               PROVE  k \in Nat /\ <<b, j, k>> \in Names
    OBVIOUS
  <2>1. t[j] \in Seq(Nat) /\ j \in Nat
    BY <1>3
  <2>2. k \in Nat
    BY <2>1
  <2> QED  BY <1>1, <1>2, <2>1, <2>2 DEF Names
<1>5. ASSUME NEW j \in DOMAIN t PROVE [k \in DOMAIN t[j] |-> <<b, j, k>>] \in Seq(Names)
  <2>1. PICK m \in Nat : DOMAIN t[j] = 1..m
    BY <1>3
  <2> QED  BY <1>4, <2>1
<1>6. PICK n \in Nat : n = Len(t) /\ DOMAIN t = 1..n
  OBVIOUS
<1>7. n # 0
  BY <1>2, <1>6, EmptySeq
<1>8. TextOf(b) = [j \in 1..n |-> [k \in DOMAIN t[j] |-> <<b, j, k>>]]
  BY <1>2, <1>6 DEF TextOf
<1>9. TextOf(b) \in Seq(Seq(Names)) /\ Len(TextOf(b)) = n
  <2>1. PICK T, x : T = Seq(Names) /\ x = TextOf(b)
    OBVIOUS
  <2>2. x = [j \in 1..n |-> x[j]]
    BY <1>8, <2>1
  <2>3. ASSUME NEW j \in 1..n PROVE x[j] \in T
    <3>1. x[j] = [k \in DOMAIN t[j] |-> <<b, j, k>>]
      BY <1>8, <2>1
    <3>2. [k \in DOMAIN t[j] |-> <<b, j, k>>] \in Seq(Names)
      BY <1>5, <1>6
    <3> QED  BY <2>1, <3>1, <3>2
  <2>4. x \in Seq(T) /\ Len(x) = n
    BY <2>2, <2>3, SequenceIs
  <2> QED  BY <2>1, <2>4
<1>10. TextOf(b) # <<>>
  BY <1>7, <1>9
<1>11. FlattenSeq(TextOf(b)) \in Seq(Names)
  BY <1>9, FlattenType
<1> QED  BY <1>9, <1>10, <1>11

-----------------------------------------------------------------------------
(* Chunks *)

\* A chunk.
Chunk == [own : Seq(Names), lap : Int, head : Seq(Names), start : Int, tokens : Int,
          headings : SUBSET Int]

\* The text that chunks have as their own.
OwnText(cs) == FlattenSeq(OwnsOf(cs))

\* The texts of a sequence of chunks.
LEMMA OwnsType ==
    ASSUME NEW cs \in Seq(Chunk)
    PROVE  /\ OwnsOf(cs) \in Seq(Seq(Names)) /\ OwnText(cs) \in Seq(Names)
           /\ Len(OwnsOf(cs)) = Len(cs)
<1>1. PICK n \in Nat : n = Len(cs) /\ DOMAIN cs = 1..n
  OBVIOUS
<1>2. PICK t : t = [i \in 1..n |-> cs[i].own]
  OBVIOUS
<1>3. ASSUME NEW i \in 1..n PROVE t[i] \in Seq(Names)
  <2>1. cs[i] \in Chunk
    BY <1>1
  <2>2. cs[i].own \in Seq(Names)
    BY <2>1 DEF Chunk
  <2> QED  BY <1>2, <2>2
<1>4. PICK T : T = Seq(Names)
  OBVIOUS
<1>5. t \in Seq(T) /\ Len(t) = n
  BY <1>2, <1>3, <1>4, SequenceIs
<1>6. OwnsOf(cs) = t
  BY <1>1, <1>2 DEF OwnsOf
<1>7. FlattenSeq(t) \in Seq(Names)
  BY <1>4, <1>5, FlattenType
<1> QED  BY <1>1, <1>4, <1>5, <1>6, <1>7 DEF OwnText

\* Chunks after chunks, one chunk, and none.
LEMMA OwnsConcat ==
    ASSUME NEW cs \in Seq(Chunk), NEW ds \in Seq(Chunk)
    PROVE  cs \o ds \in Seq(Chunk) /\ OwnText(cs \o ds) = OwnText(cs) \o OwnText(ds)
<1>1. PICK m \in Nat, n \in Nat : m = Len(cs) /\ n = Len(ds)
  OBVIOUS
<1>2. PICK es : es = cs \o ds
  OBVIOUS
<1>3. /\ es \in Seq(Chunk) /\ Len(es) = m + n /\ DOMAIN es = 1..(m + n)
      /\ \A i \in 1..(m + n) : es[i] = IF i <= m THEN cs[i] ELSE ds[i - m]
  BY <1>1, <1>2, ConcatProperties, LenProperties
<1>4. PICK x, y, T : x = OwnsOf(cs) /\ y = OwnsOf(ds) /\ T = Seq(Names)
  OBVIOUS
<1>5. x \in Seq(T) /\ y \in Seq(T) /\ Len(x) = m /\ Len(y) = n
  BY <1>1, <1>4, OwnsType
<1>6. PICK z : z = x \o y
  OBVIOUS
<1>7. /\ z = [i \in 1..(m + n) |-> z[i]]
      /\ \A i \in 1..(m + n) : z[i] = IF i <= m THEN x[i] ELSE y[i - m]
  <2>1. Follows(z, x, y, m, n)
    BY <1>5, <1>6, ConcatIs
  <2> QED  BY <2>1 DEF Follows
<1>8. /\ \A i \in 1..m : x[i] = cs[i].own
      /\ \A i \in 1..n : y[i] = ds[i].own
  BY <1>1, <1>4 DEF OwnsOf
<1>9. ASSUME NEW i \in 1..(m + n) PROVE es[i].own = z[i]
  <2>1. CASE i <= m
    <3>1. i \in 1..m
      BY <2>1
    <3> QED  BY <1>3, <1>7, <1>8, <2>1, <3>1
  <2>2. CASE ~(i <= m)
    <3>1. i - m \in 1..n
      BY <2>2
    <3> QED  BY <1>3, <1>7, <1>8, <2>2, <3>1
  <2> QED  BY <2>1, <2>2
<1>10. OwnsOf(es) = z
  <2>1. OwnsOf(es) = [i \in 1..(m + n) |-> es[i].own]
    BY <1>3 DEF OwnsOf
  <2> QED  BY <1>7, <1>9, <2>1
<1>11. FlattenSeq(x \o y) = FlattenSeq(x) \o FlattenSeq(y)
  BY <1>4, <1>5, FlattenConcat
<1> QED  BY <1>2, <1>3, <1>4, <1>10, <1>11, <1>6 DEF OwnText

\* One chunk has its own text.
LEMMA OwnsOne ==
    ASSUME NEW c \in Chunk PROVE <<c>> \in Seq(Chunk) /\ OwnText(<<c>>) = c.own
<1>1. c.own \in Seq(Names)
  BY DEF Chunk
<1>2. OwnsOf(<<c>>) = <<c.own>>
  BY DEF OwnsOf
<1> QED  BY <1>1, <1>2, FlattenOne DEF OwnText

\* One chunk more adds its own text at the end.
LEMMA OwnsAppend ==
    ASSUME NEW cs \in Seq(Chunk), NEW c \in Chunk
    PROVE  Append(cs, c) \in Seq(Chunk) /\ OwnText(Append(cs, c)) = OwnText(cs) \o c.own
<1>1. Append(cs, c) = cs \o <<c>>
  BY AppendIsConcat
<1> QED  BY <1>1, OwnsOne, OwnsConcat

\* No chunk has no text.
LEMMA OwnsNone == OwnText(<<>>) = <<>> /\ <<>> \in Seq(Chunk)
<1>1. OwnsOf(<<>>) = <<>>
  BY DEF OwnsOf
<1> QED  BY <1>1, FlattenNone DEF OwnText

-----------------------------------------------------------------------------
(* The blocks that were read *)

\* What is due of a block, and of the first n.
Part(b) == IF Due(b) THEN FlattenSeq(TextOf(b)) ELSE <<>>
Read(n) == FlattenSeq([b \in 1..n |-> Part(b)])

\* What is due of a block is a text.
LEMMA PartType ==
    ASSUME doc \in Seq(Kinds), NEW b \in 1..Len(doc) PROVE Part(b) \in Seq(Names)
BY BlockText DEF Part

\* Parts follow each other.
LEMMA PartsFollow ==
    ASSUME NEW S, NEW n \in Nat, NEW f, \A b \in 1..(n + 1) : f[b] \in Seq(S)
    PROVE  /\ FlattenSeq([b \in 1..(n + 1) |-> f[b]]) = FlattenSeq([b \in 1..n |-> f[b]]) \o f[n + 1]
           /\ FlattenSeq([b \in 1..n |-> f[b]]) \in Seq(S)
<1>1. PICK T : T = Seq(S)
  OBVIOUS
<1>2. PICK s, x : s = [b \in 1..n |-> f[b]] /\ x = f[n + 1]
  OBVIOUS
<1>3. s \in Seq(T) /\ Len(s) = n /\ x \in T
  <2>1. s = [b \in 1..n |-> s[b]] /\ \A b \in 1..n : s[b] \in T
    BY <1>1, <1>2
  <2>2. x \in T
    BY <1>1, <1>2
  <2> QED  BY <2>1, <2>2, SequenceIs
<1>4. [b \in 1..(n + 1) |-> f[b]] = Append(s, x)
  <2>1. PICK t : t = Append(s, x)
    OBVIOUS
  <2>2. /\ t \in Seq(T) /\ Len(t) = n + 1 /\ DOMAIN t = 1..(n + 1) /\ t[n + 1] = x
        /\ \A b \in 1..n : t[b] = s[b]
    BY <1>3, <2>1, AppendProperties, LenProperties
  <2>3. t = [b \in 1..(n + 1) |-> t[b]]
    BY <2>2
  <2>4. \A b \in 1..(n + 1) : t[b] = f[b]
    <3>1. \A b \in 1..(n + 1) : b = n + 1 \/ b \in 1..n
      OBVIOUS
    <3> QED  BY <1>2, <2>2, <3>1
  <2> QED  BY <2>1, <2>3, <2>4
<1>5. FlattenSeq(Append(s, x)) = FlattenSeq(s) \o x /\ FlattenSeq(s) \in Seq(S)
  BY <1>1, <1>3, FlattenAppend, FlattenType
<1> QED  BY <1>2, <1>4, <1>5

\* One more block is read, or none is yet.
LEMMA ReadNext ==
    ASSUME doc \in Seq(Kinds), NEW n \in Nat, n < Len(doc)
    PROVE  Read(n + 1) = Read(n) \o Part(n + 1) /\ Read(n) \in Seq(Names)
<1>1. PICK f : f = [b \in 1..(n + 1) |-> Part(b)]
  OBVIOUS
<1>2. \A b \in 1..(n + 1) : f[b] \in Seq(Names)
  <2>1. \A b \in 1..(n + 1) : b \in 1..Len(doc)
    OBVIOUS
  <2> QED  BY <1>1, <2>1, PartType
<1>3. /\ [b \in 1..(n + 1) |-> Part(b)] = [b \in 1..(n + 1) |-> f[b]]
      /\ [b \in 1..n |-> Part(b)] = [b \in 1..n |-> f[b]]
      /\ f[n + 1] = Part(n + 1)
  BY <1>1
<1>4. /\ FlattenSeq([b \in 1..(n + 1) |-> f[b]]) = FlattenSeq([b \in 1..n |-> f[b]]) \o f[n + 1]
      /\ FlattenSeq([b \in 1..n |-> f[b]]) \in Seq(Names)
  BY <1>2, PartsFollow
<1> QED  BY <1>3, <1>4 DEF Read

\* Nothing was read at the start.
LEMMA ReadNothing == Read(0) = <<>>
<1>1. [b \in 1..0 |-> Part(b)] = <<>>
  OBVIOUS
<1> QED  BY <1>1, FlattenNone DEF Read

\* What is due does not change while the document and the template do not.
LEMMA ReadStays ==
    ASSUME doc' = doc, method' = method, pair'.matched = pair.matched
    PROVE  /\ \A n \in Nat : Read(n)' = Read(n)
           /\ Names' = Names /\ Chunk' = Chunk
<1>1. Template' = Template
  BY DEF Template
<1>2. \A b : Due(b)' <=> Due(b)
  BY <1>1 DEF Due
<1>3. \A b : TextOf(b)' = TextOf(b)
  BY DEF TextOf
<1>4. \A b : Part(b)' = Part(b)
  BY <1>2, <1>3 DEF Part
<1>5. Names' = Names
  BY DEF Names
<1> QED  BY <1>4, <1>5 DEF Read, Chunk

-----------------------------------------------------------------------------
(* The invariant *)

\* The types of the open chunk, of its mark and of the pairs.
Opened   == [own : Seq(Names), lap : Int, tokens : Int]
Marks    == [headings : SUBSET Int, start : Int]
PairType == [q : Seq(Seq(Names)), a : Seq(Seq(Names)), matched : BOOLEAN, all : Seq(Seq(Seq(Names)))]

\* The types of the variables.
Shape ==
    /\ doc \in Seq(Kinds) /\ at \in 0..Len(doc)
    /\ phase \in {"pairs", "split", "end"}
    /\ todo \in Seq(Seq(Names)) /\ sec \in Seq(Int)
    /\ cur \in Opened /\ mark \in Marks /\ pair \in PairType
    /\ chunks \in Seq(Chunk)

\* What each template leaves alone.
Phases ==
    /\ phase # "split" \/ method \in {"table", "one"} => cur = Empty /\ todo = <<>>
    /\ phase = "pairs" => method = "qa" /\ chunks = <<>>
    /\ phase = "split" /\ method = "one" => at = 0 /\ chunks = <<>>
    /\ phase = "split" /\ method = "qa" => ~pair.matched
    /\ method = "table" => phase = "split"

\* What the pairs have while chunkQA looks for them.
Opens(b)    == doc[b].says = "question" /\ doc[b].type # "table"
Said(b)     == doc[b].type # "table" /\ (doc[b].says = "answer" \/ \E q \in 1..b : Opens(q))
SaidPart(b) == IF Said(b) THEN FlattenSeq(TextOf(b)) ELSE <<>>
SaidBy(n)   == FlattenSeq([b \in 1..n |-> SaidPart(b)])

\* The text of all pairs, the last one too.
PairText(p) == FlattenSeq(FlattenSeq(p.all)) \o (FlattenSeq(p.q) \o FlattenSeq(p.a))

\* The pairs have what was said; the last one has a question, or there is none.
PairsKept ==
    /\ pair.matched <=> \E b \in 1..at : Opens(b)
    /\ IF pair.matched THEN pair.q # <<>> ELSE pair.q = <<>> /\ pair.all = <<>>
    /\ PairText(pair) = SaidBy(at)

\* What was written, what is open and what is left.
Total(cs, own, rest) == OwnText(cs) \o (own \o FlattenSeq(rest))

\* Nothing of the text has been lost.
TextKept == IF phase = "pairs" THEN PairsKept ELSE Total(chunks, cur.own, todo) = Read(at)

\* The inductive invariant.
TextInv == Shape /\ Phases /\ TextKept

\* What has been written, with nothing open.
LEMMA TotalClosed ==
    ASSUME NEW cs \in Seq(Chunk) PROVE Total(cs, <<>>, <<>>) = OwnText(cs)
<1>1. OwnText(cs) \in Seq(Names)
  BY OwnsType
<1>2. <<>> \o <<>> = <<>>
  OBVIOUS
<1>3. OwnText(cs) \o <<>> = OwnText(cs)
  BY <1>1, ConcatEmptySeq
<1> QED  BY <1>2, <1>3, FlattenNone DEF Total

\* flush puts the open chunk after the others.
LEMMA FlushedHolds ==
    ASSUME Shape
    PROVE  /\ Flushed \in Seq(Chunk)
           /\ OwnText(Flushed) = OwnText(chunks) \o cur.own
<1>1. cur.own \in Seq(Names) /\ cur.lap \in Int /\ mark.start \in Int /\ mark.headings \in SUBSET Int
  BY DEF Shape, Opened, Marks
<1>2. chunks \in Seq(Chunk) /\ doc \in Seq(Kinds)
  BY DEF Shape
<1>3. CASE cur.own = <<>>
  <2>1. OwnText(chunks) \in Seq(Names)
    BY <1>2, OwnsType
  <2>2. OwnText(chunks) \o <<>> = OwnText(chunks)
    BY <2>1, ConcatEmptySeq
  <2> QED  BY <1>2, <1>3, <2>2 DEF Flushed
<1>4. CASE cur.own # <<>>
  <2>1. PICK n : n = TokenCount(cur.own) + Lapped(cur.lap)
    OBVIOUS
  <2>2. n \in Int
    <3>1. TokenCount(cur.own) \in Nat
      BY <1>1, <1>2, CountType
    <3>2. Lapped(cur.lap) \in Int
      BY <1>1 DEF Lapped
    <3> QED  BY <2>1, <3>1, <3>2
  <2>3. PICK c : c = [own |-> cur.own, lap |-> cur.lap, head |-> <<>>, start |-> mark.start,
                      tokens |-> n, headings |-> mark.headings]
    OBVIOUS
  <2>4. c \in Chunk /\ c.own = cur.own
    BY <1>1, <2>2, <2>3 DEF Chunk
  <2>5. Flushed = Append(chunks, c)
    BY <1>4, <2>1, <2>3 DEF Flushed
  <2> QED  BY <1>2, <2>4, <2>5, OwnsAppend
<1> QED  BY <1>3, <1>4

\* A piece that is a chunk of its own, and several.
LEMMA AloneHolds ==
    ASSUME doc \in Seq(Kinds), NEW p \in PieceType, NEW headings \in SUBSET Int, NEW b \in Int
    PROVE  Alone(p, headings, b) \in Chunk /\ Alone(p, headings, b).own = p.own
<1>1. p.own \in Seq(Names) /\ p.head \in Seq(Names)
  BY DEF PieceType
<1>2. PICK n \in Int : n = TokenCount(p.head) + TokenCount(p.own)
  <2>1. TokenCount(p.head) \in Nat /\ TokenCount(p.own) \in Nat
    BY <1>1, CountType
  <2>2. TokenCount(p.head) + TokenCount(p.own) \in Int
    BY <2>1
  <2> QED  BY <2>2
<1>3. Alone(p, headings, b) = [own |-> p.own, lap |-> NoLap, head |-> p.head, start |-> b,
                               tokens |-> n, headings |-> headings]
  BY <1>2 DEF Alone
<1>4. NoLap \in Int
  BY DEF NoLap
<1> QED  BY <1>1, <1>3, <1>4 DEF Chunk

\* Pieces that are chunks of their own are chunks with the text of the pieces.
LEMMA AllAloneHolds ==
    ASSUME doc \in Seq(Kinds), NEW ps \in Seq(PieceType), NEW headings \in SUBSET Int, NEW b \in Int
    PROVE  /\ AllAlone(ps, headings, b) \in Seq(Chunk)
           /\ OwnText(AllAlone(ps, headings, b)) = FlattenSeq(OwnsOf(ps))
<1>1. PICK n \in Nat : n = Len(ps) /\ DOMAIN ps = 1..n
  OBVIOUS
<1>2. PICK cs : cs = AllAlone(ps, headings, b)
  OBVIOUS
<1>3. cs = [i \in 1..n |-> Alone(ps[i], headings, b)]
  BY <1>1, <1>2 DEF AllAlone
<1>4. ASSUME NEW i \in 1..n PROVE cs[i] \in Chunk /\ cs[i].own = ps[i].own
  <2>1. ps[i] \in PieceType
    BY <1>1
  <2> QED  BY <1>3, <2>1, AloneHolds
<1>5. cs \in Seq(Chunk) /\ DOMAIN cs = 1..n
  <2>1. cs = [i \in 1..n |-> cs[i]]
    BY <1>3
  <2> QED  BY <1>4, <2>1, SequenceIs
<1>6. OwnsOf(cs) = OwnsOf(ps)
  BY <1>1, <1>4, <1>5 DEF OwnsOf
<1> QED  BY <1>2, <1>5, <1>6 DEF OwnText

\* The types of a path, of the empty chunk and of a mark.
LEMMA PathType == ASSUME NEW s \in Seq(Int) PROVE Path(s) \in SUBSET Int
BY DEF Path

\* The empty chunk is an open chunk without text.
LEMMA EmptyType == Empty \in Opened /\ Empty.own = <<>>
BY DEF Empty, Opened, NoLap

\* What is noted of the beginning is a mark.
LEMMA MarkedType == ASSUME Shape, NEW b \in Int PROVE Marked(b) \in Marks
<1>1. Path(sec) \in SUBSET Int
  BY PathType DEF Shape
<1> QED  BY <1>1 DEF Marked, Marks, Shape

\* A step that neither begins nor ends the search for pairs, if it keeps the
\* text.
LEMMA StepKeeps ==
    ASSUME TextInv, doc' = doc, method' = method, pair' \in PairType, pair'.matched = pair.matched,
           phase' \in {"split", "end"}, NEW n \in 0..Len(doc), at' = n,
           todo' \in Seq(Seq(Names)), sec' \in Seq(Int), cur' \in Opened, mark' \in Marks,
           chunks' \in Seq(Chunk), Phases', Total(chunks', cur'.own, todo') = Read(n)
    PROVE  TextInv'
<1>1. Names' = Names /\ Chunk' = Chunk /\ Read(n)' = Read(n)
  BY ReadStays
<1>2. Opened' = Opened /\ Marks' = Marks /\ PairType' = PairType
  BY <1>1 DEF Opened, Marks, PairType
<1>3. doc' \in Seq(Kinds) /\ at' \in 0..Len(doc')
  BY DEF TextInv, Shape
<1>4. Shape'
  BY <1>1, <1>2, <1>3 DEF Shape
<1>5. Read(at)' = Read(n)'
  BY DEF Read
<1>6. Total(chunks, cur.own, todo)' = Total(chunks', cur'.own, todo')
  BY DEF Total, OwnText, OwnsOf
<1>7. TextKept'
  BY <1>1, <1>5, <1>6 DEF TextKept
<1> QED  BY <1>4, <1>7 DEF TextInv

-----------------------------------------------------------------------------
(* The naive template and its variants *)

\* All but titles and images is due.
LEMMA NaiveDue ==
    ASSUME TextInv, Naive, NEW b
    PROVE  Due(b) <=> doc[b].type \notin {"title", "image"}
<1>1. Template \notin {"table", "one", "qa"}
  BY DEF TextInv, Phases, Naive, Template
<1> QED  BY <1>1 DEF Due

\* The text of the next block comes after all that was read.
LEMMA ReadsBlock ==
    ASSUME TextInv, phase # "pairs", todo = <<>>, NEW b, b = at + 1, at < Len(doc)
    PROVE  /\ b \in 1..Len(doc) /\ b \in 0..Len(doc) /\ b \in Int
           /\ TextOf(b) \in Seq(Seq(Names)) /\ TextOf(b) # <<>> /\ FlattenSeq(TextOf(b)) \in Seq(Names)
           /\ Flushed \in Seq(Chunk)
           /\ OwnText(Flushed) \in Seq(Names)
           /\ OwnText(Flushed) = OwnText(chunks) \o cur.own
           /\ Due(b) => Read(b) = OwnText(Flushed) \o FlattenSeq(TextOf(b))
           /\ ~Due(b) => Read(b) = OwnText(Flushed)
<1>1. Shape /\ doc \in Seq(Kinds) /\ at \in 0..Len(doc) /\ Len(doc) \in Nat
  BY DEF TextInv, Shape
<1>2. b \in 1..Len(doc) /\ b \in 0..Len(doc) /\ b \in Int /\ at \in Nat
  BY <1>1
<1>3. TextOf(b) \in Seq(Seq(Names)) /\ TextOf(b) # <<>> /\ FlattenSeq(TextOf(b)) \in Seq(Names)
  BY <1>1, <1>2, BlockText
<1>4. Flushed \in Seq(Chunk) /\ OwnText(Flushed) = OwnText(chunks) \o cur.own
  BY <1>1, FlushedHolds
<1>5. OwnText(Flushed) \in Seq(Names)
  BY <1>4, OwnsType
<1>6. cur.own \o <<>> = cur.own
  <2>1. cur.own \in Seq(Names)
    BY <1>1 DEF Shape, Opened
  <2> QED  BY <2>1, ConcatEmptySeq
<1>7. Read(at) = OwnText(Flushed)
  <2>1. Total(chunks, cur.own, todo) = Read(at)
    BY DEF TextInv, TextKept
  <2> QED  BY <1>4, <1>6, <2>1, FlattenNone DEF Total
<1>8. Read(b) = Read(at) \o Part(b)
  BY <1>1, <1>2, ReadNext
<1>9. OwnText(Flushed) \o <<>> = OwnText(Flushed)
  BY <1>5, ConcatEmptySeq
<1> QED  BY <1>2, <1>3, <1>4, <1>5, <1>7, <1>8, <1>9 DEF Part

\* What an open chunk, a flush and a mark leave as they were.
LEMMA NaivePhases ==
    ASSUME TextInv, Naive, UNCHANGED <<method, phase, pair>> PROVE Phases'
BY DEF TextInv, Phases, Naive

\* A title closes the open chunk and is not due.
LEMMA TitleKeeps == ASSUME TextInv, Title PROVE TextInv'
<1> PICK b : b = at + 1
  OBVIOUS
<1> PICK s : s = PushTitle(sec, Clamp(doc[b].level), b)
  OBVIOUS
<1>1. /\ Naive /\ todo = <<>> /\ at < Len(doc) /\ doc[b].type = "title" /\ at' = b
      /\ chunks' = Flushed /\ cur' = Empty /\ sec' = s
      /\ mark' = [headings |-> Path(s), start |-> b]
      /\ UNCHANGED <<doc, method, phase, todo, pair>>
  BY DEF Title, NextIs
<1>2. phase = "split" /\ Shape
  BY <1>1 DEF Naive, TextInv
<1>3. /\ b \in 0..Len(doc) /\ b \in Int /\ b \in 1..Len(doc)
      /\ Flushed \in Seq(Chunk) /\ (~Due(b) => Read(b) = OwnText(Flushed))
  BY <1>1, <1>2, ReadsBlock
<1>4. ~Due(b)
  BY <1>1, NaiveDue
<1>5. s \in Seq(Int)
  <2>1. doc[b] \in Kinds
    BY <1>2, <1>3 DEF Shape
  <2>2. doc[b].level \in Int
    BY <2>1, KindsAssumption
  <2>3. PICK l \in 1..6 : l = Clamp(doc[b].level)
    BY <2>2 DEF Clamp
  <2>4. s = [i \in 1..l |-> IF i = l THEN b ELSE IF i <= Len(sec) THEN sec[i] ELSE 0]
    BY <2>3 DEF PushTitle
  <2>5. sec \in Seq(Int)
    BY <1>2 DEF Shape
  <2>6. ASSUME NEW i \in 1..l PROVE s[i] \in Int
    BY <1>3, <2>4, <2>5
  <2> QED  BY <2>3, <2>4, <2>6, SequenceIs
<1>6. mark' \in Marks /\ cur' \in Opened /\ cur'.own = <<>>
  <2>1. Path(s) \in SUBSET Int
    BY <1>5, PathType
  <2> QED  BY <1>1, <1>3, <2>1, EmptyType DEF Marks
<1>7. Total(chunks', cur'.own, todo') = Read(b)
  BY <1>1, <1>3, <1>4, <1>6, TotalClosed
<1>8. Phases'
  BY <1>1, NaivePhases
<1> QED  BY <1>1, <1>2, <1>3, <1>5, <1>6, <1>7, <1>8, StepKeeps DEF Shape

\* An image is passed over.
LEMMA ImageKeeps == ASSUME TextInv, Image PROVE TextInv'
<1> PICK b : b = at + 1
  OBVIOUS
<1>1. /\ Naive /\ todo = <<>> /\ at < Len(doc) /\ doc[b].type = "image" /\ at' = b
      /\ UNCHANGED <<doc, method, phase, todo, sec, cur, mark, pair, chunks>>
  BY DEF Image, NextIs
<1>2. phase = "split" /\ Shape
  BY <1>1 DEF Naive, TextInv
<1>3. /\ b \in 0..Len(doc)
      /\ OwnText(Flushed) = OwnText(chunks) \o cur.own
      /\ (~Due(b) => Read(b) = OwnText(Flushed))
  BY <1>1, <1>2, ReadsBlock
<1>4. ~Due(b)
  BY <1>1, NaiveDue
<1>5. Total(chunks', cur'.own, todo') = Read(b)
  <2>1. cur.own \in Seq(Names)
    BY <1>2 DEF Shape, Opened
  <2>2. cur.own \o <<>> = cur.own
    BY <2>1, ConcatEmptySeq
  <2> QED  BY <1>1, <1>3, <1>4, <2>2, FlattenNone DEF Total
<1>6. Phases'
  BY <1>1, NaivePhases
<1> QED  BY <1>1, <1>2, <1>3, <1>5, <1>6, StepKeeps DEF Shape

\* An item of a resume is a chunk after the open one.
LEMMA ItemKeeps == ASSUME TextInv, Item PROVE TextInv'
<1> PICK b : b = at + 1
  OBVIOUS
<1> PICK p, c : p = Piece(FlattenSeq(TextOf(b)), <<>>) /\ c = Alone(p, Path(sec), b)
  OBVIOUS
<1>1. /\ Naive /\ todo = <<>> /\ at < Len(doc) /\ doc[b].type = "list" /\ at' = b
      /\ chunks' = Append(Flushed, c) /\ cur' = Empty
      /\ mark' = [mark EXCEPT !.headings = Path(sec)]
      /\ UNCHANGED <<doc, method, phase, todo, sec, pair>>
  BY DEF Item, NextIs
<1>2. phase = "split" /\ Shape
  BY <1>1 DEF Naive, TextInv
<1>3. /\ b \in 0..Len(doc) /\ b \in Int /\ FlattenSeq(TextOf(b)) \in Seq(Names)
      /\ Flushed \in Seq(Chunk)
      /\ (Due(b) => Read(b) = OwnText(Flushed) \o FlattenSeq(TextOf(b)))
  BY <1>1, <1>2, ReadsBlock
<1>4. Due(b)
  BY <1>1, NaiveDue
<1>5. Path(sec) \in SUBSET Int
  BY <1>2, PathType DEF Shape
<1>6. c \in Chunk /\ c.own = FlattenSeq(TextOf(b))
  <2>1. p \in PieceType /\ p.own = FlattenSeq(TextOf(b))
    BY <1>3 DEF Piece, PieceType
  <2>2. doc \in Seq(Kinds)
    BY <1>2 DEF Shape
  <2> QED  BY <1>3, <1>5, <2>1, <2>2, AloneHolds
<1>7. chunks' \in Seq(Chunk) /\ OwnText(chunks') = Read(b)
  BY <1>1, <1>3, <1>4, <1>6, OwnsAppend
<1>8. mark' \in Marks /\ cur' \in Opened /\ cur'.own = <<>>
  BY <1>1, <1>2, <1>5, EmptyType DEF Shape, Marks
<1>9. Total(chunks', cur'.own, todo') = Read(b)
  BY <1>1, <1>7, <1>8, TotalClosed
<1>10. Phases'
  BY <1>1, NaivePhases
<1> QED  BY <1>1, <1>2, <1>3, <1>7, <1>8, <1>9, <1>10, StepKeeps DEF Shape

\* The rows of a long table come after the open chunk.
LEMMA BigTableKeeps == ASSUME TextInv, BigTable PROVE TextInv'
<1> PICK b : b = at + 1
  OBVIOUS
<1> PICK noted : noted = Marked(b)
  OBVIOUS
<1> PICK last : last = IF cur.own = <<>> THEN <<>>
                       ELSE <<[own |-> cur.own, lap |-> cur.lap, head |-> <<>>, start |-> noted.start,
                               tokens |-> TokenCount(cur.own) + Lapped(cur.lap),
                               headings |-> noted.headings]>>
  OBVIOUS
<1> PICK ps, cs : ps = SplitTable(TextOf(b)) /\ cs = AllAlone(ps, Path(sec), b)
  OBVIOUS
<1>1. /\ Naive /\ todo = <<>> /\ at < Len(doc) /\ doc[b].type = "table" /\ at' = b
      /\ chunks' = (chunks \o last) \o cs /\ cur' = Empty
      /\ mark' = [noted EXCEPT !.headings = Path(sec)]
      /\ UNCHANGED <<doc, method, phase, todo, sec, pair>>
  BY DEF BigTable, NextIs
<1>2. phase = "split" /\ Shape /\ doc \in Seq(Kinds) /\ chunks \in Seq(Chunk)
  BY <1>1 DEF Naive, TextInv, Shape
<1>3. /\ b \in 0..Len(doc) /\ b \in Int
      /\ TextOf(b) \in Seq(Seq(Names)) /\ TextOf(b) # <<>>
      /\ OwnText(Flushed) = OwnText(chunks) \o cur.own
      /\ (Due(b) => Read(b) = OwnText(Flushed) \o FlattenSeq(TextOf(b)))
  BY <1>1, <1>2, ReadsBlock
<1>4. Due(b)
  BY <1>1, NaiveDue
<1>5. Path(sec) \in SUBSET Int /\ noted \in Marks
  BY <1>2, <1>3, PathType, MarkedType DEF Shape
<1>6. ps \in Seq(PieceType) /\ FlattenSeq(OwnsOf(ps)) = FlattenSeq(TextOf(b))
  BY <1>2, <1>3, SplitTableKeeps
<1>7. cs \in Seq(Chunk) /\ OwnText(cs) = FlattenSeq(TextOf(b))
  BY <1>2, <1>3, <1>5, <1>6, AllAloneHolds
<1>8. last \in Seq(Chunk) /\ OwnText(last) = cur.own
  <2>1. CASE cur.own = <<>>
    BY <2>1, OwnsNone
  <2>2. CASE cur.own # <<>>
    <3>1. cur.own \in Seq(Names) /\ cur.lap \in Int
      BY <1>2 DEF Shape, Opened
    <3>2. TokenCount(cur.own) \in Nat /\ Lapped(cur.lap) \in Int
      BY <1>2, <3>1, CountType DEF Lapped
    <3>3. PICK n \in Int : n = TokenCount(cur.own) + Lapped(cur.lap)
      <4>1. TokenCount(cur.own) + Lapped(cur.lap) \in Int
        BY <3>2
      <4> QED  BY <4>1
    <3>4. PICK c : c = [own |-> cur.own, lap |-> cur.lap, head |-> <<>>, start |-> noted.start,
                        tokens |-> n, headings |-> noted.headings]
      OBVIOUS
    <3>5. noted.start \in Int /\ noted.headings \in SUBSET Int
      BY <1>5 DEF Marks
    <3>6. c \in Chunk /\ c.own = cur.own
      BY <3>1, <3>3, <3>4, <3>5 DEF Chunk
    <3>7. last = <<c>>
      BY <2>2, <3>3, <3>4
    <3> QED  BY <3>6, <3>7, OwnsOne
  <2> QED  BY <2>1, <2>2
<1>9. chunks \o last \in Seq(Chunk) /\ OwnText(chunks \o last) = OwnText(Flushed)
  <2>1. chunks \o last \in Seq(Chunk) /\ OwnText(chunks \o last) = OwnText(chunks) \o OwnText(last)
    BY <1>2, <1>8, OwnsConcat
  <2> QED  BY <1>3, <1>8, <2>1
<1>10. chunks' \in Seq(Chunk) /\ OwnText(chunks') = Read(b)
  <2>1. PICK ds : ds = chunks \o last
    OBVIOUS
  <2>2. ds \o cs \in Seq(Chunk) /\ OwnText(ds \o cs) = OwnText(ds) \o OwnText(cs)
    BY <1>7, <1>9, <2>1, OwnsConcat
  <2> QED  BY <1>1, <1>3, <1>4, <1>7, <1>9, <2>1, <2>2
<1>11. mark' \in Marks /\ cur' \in Opened /\ cur'.own = <<>>
  BY <1>1, <1>5, EmptyType DEF Marks
<1>12. Total(chunks', cur'.own, todo') = Read(b)
  BY <1>1, <1>10, <1>11, TotalClosed
<1>13. Phases'
  BY <1>1, NaivePhases
<1> QED  BY <1>1, <1>2, <1>3, <1>10, <1>11, <1>12, <1>13, StepKeeps DEF Shape

\* A block is cut into pieces.
LEMMA BodyKeeps == ASSUME TextInv, Body PROVE TextInv'
<1> PICK b : b = at + 1
  OBVIOUS
<1> PICK ps : ps = SplitPiece(TextOf(b))
  OBVIOUS
<1>1. /\ Naive /\ todo = <<>> /\ at < Len(doc) /\ doc[b].type \in {"text", "list", "table"} /\ at' = b
      /\ todo' = ps /\ mark' = Marked(b)
      /\ UNCHANGED <<doc, method, phase, sec, cur, pair, chunks>>
  BY DEF Body, NextIs
<1>2. phase = "split" /\ Shape /\ doc \in Seq(Kinds) /\ chunks \in Seq(Chunk)
  BY <1>1 DEF Naive, TextInv, Shape
<1>3. /\ b \in 0..Len(doc) /\ b \in Int /\ TextOf(b) \in Seq(Seq(Names))
      /\ FlattenSeq(TextOf(b)) \in Seq(Names)
      /\ OwnText(Flushed) = OwnText(chunks) \o cur.own
      /\ (Due(b) => Read(b) = OwnText(Flushed) \o FlattenSeq(TextOf(b)))
  BY <1>1, <1>2, ReadsBlock
<1>4. Due(b)
  BY <1>1, NaiveDue
<1>5. ps \in Seq(Seq(Names)) /\ FlattenSeq(ps) = FlattenSeq(TextOf(b))
  BY <1>2, <1>3, SplitPieceKeeps
<1>6. mark' \in Marks
  BY <1>1, <1>2, <1>3, MarkedType
<1>7. Total(chunks', cur'.own, todo') = Read(b)
  <2>1. PICK x, y, z : x = OwnText(chunks) /\ y = cur.own /\ z = FlattenSeq(TextOf(b))
    OBVIOUS
  <2>2. x \in Seq(Names) /\ y \in Seq(Names) /\ z \in Seq(Names)
    BY <1>2, <1>3, <2>1, OwnsType DEF Shape, Opened
  <2>3. (x \o y) \o z = x \o (y \o z)
    <3>1. Grouped(x, y, z)
      BY <2>2, Grouping
    <3> QED  BY <3>1 DEF Grouped
  <2> QED  BY <1>1, <1>3, <1>4, <1>5, <2>1, <2>3 DEF Total
<1>8. Phases'
  BY <1>1, NaivePhases
<1> QED  BY <1>1, <1>2, <1>3, <1>5, <1>6, <1>7, <1>8, StepKeeps DEF Shape

\* A piece goes from those that are left to the open chunk.
LEMMA PieceGoes ==
    ASSUME TextInv, todo # <<>>, NEW p, p = Head(todo)
    PROVE  /\ p \in Seq(Names) /\ Tail(todo) \in Seq(Seq(Names))
           /\ cur.own \o p \in Seq(Names)
           /\ FlattenSeq(Tail(todo)) \in Seq(Names)
           /\ FlattenSeq(todo) = p \o FlattenSeq(Tail(todo))
           /\ phase = "split" /\ method \notin {"table", "one"}
           /\ Total(chunks, cur.own, todo) = Read(at)
<1>1. todo \in Seq(Seq(Names)) /\ cur.own \in Seq(Names)
  BY DEF TextInv, Shape, Opened
<1>2. PICK T : T = Seq(Names)
  OBVIOUS
<1>3. p \in T /\ Tail(todo) \in Seq(T)
  BY <1>1, <1>2, HeadTailProperties
<1>4. FlattenSeq(todo) = p \o FlattenSeq(Tail(todo)) /\ FlattenSeq(Tail(todo)) \in Seq(Names)
  BY <1>1, <1>2, <1>3, FlattenFirst, FlattenType
<1>5. cur.own \o p \in Seq(Names)
  BY <1>1, <1>2, <1>3, ConcatProperties
<1>6. phase = "split" /\ method \notin {"table", "one"}
  BY DEF TextInv, Phases
<1>7. Total(chunks, cur.own, todo) = Read(at)
  BY <1>6 DEF TextInv, TextKept
<1> QED  BY <1>2, <1>3, <1>4, <1>5, <1>6, <1>7

\* A piece joins the open chunk.
LEMMA JoinKeeps == ASSUME TextInv, Join PROVE TextInv'
<1> PICK p : p = Head(todo)
  OBVIOUS
<1> PICK n : n = (IF cur = Empty THEN 0 ELSE 1) + TokenCount(p)
  OBVIOUS
<1>1. /\ todo # <<>>
      /\ cur' = [cur EXCEPT !.own = cur.own \o p,
                            !.tokens = cur.tokens + (IF cur = Empty THEN 0 ELSE 1) + TokenCount(p)]
      /\ todo' = Tail(todo)
      /\ UNCHANGED <<doc, method, phase, at, sec, mark, pair, chunks>>
  BY DEF Join
<1>2. /\ p \in Seq(Names) /\ Tail(todo) \in Seq(Seq(Names))
      /\ cur.own \o p \in Seq(Names) /\ FlattenSeq(Tail(todo)) \in Seq(Names)
      /\ FlattenSeq(todo) = p \o FlattenSeq(Tail(todo))
      /\ phase = "split" /\ method \notin {"table", "one"}
      /\ Total(chunks, cur.own, todo) = Read(at)
  BY <1>1, PieceGoes
<1>3. Shape /\ doc \in Seq(Kinds) /\ chunks \in Seq(Chunk) /\ cur \in Opened
  BY DEF TextInv, Shape
<1>4. cur' \in Opened /\ cur'.own = cur.own \o p
  <2>1. TokenCount(p) \in Nat
    BY <1>2, <1>3, CountType
  <2>2. cur.tokens + (IF cur = Empty THEN 0 ELSE 1) + TokenCount(p) \in Int
    BY <1>3, <2>1 DEF Opened
  <2> QED  BY <1>1, <1>2, <1>3, <2>2 DEF Opened
<1>5. Total(chunks', cur'.own, todo') = Read(at)
  <2>1. PICK y, z : y = cur.own /\ z = FlattenSeq(Tail(todo))
    OBVIOUS
  <2>2. PICK x, S : x = p /\ S = Names
    OBVIOUS
  <2>3. y \in Seq(S) /\ x \in Seq(S) /\ z \in Seq(S)
    BY <1>2, <1>3, <2>1, <2>2 DEF Opened
  <2>4. (y \o x) \o z = y \o (x \o z)
    <3>1. Grouped(y, x, z)
      BY <2>3, Grouping
    <3> QED  BY <3>1 DEF Grouped
  <2> QED  BY <1>1, <1>2, <1>4, <2>1, <2>2, <2>4 DEF Total
<1>6. Phases'
  BY <1>1, <1>2 DEF TextInv, Phases
<1> QED  BY <1>1, <1>2, <1>3, <1>4, <1>5, <1>6, StepKeeps DEF Shape

\* A piece begins a chunk; the overlap is not its own text.
LEMMA OverflowKeeps == ASSUME TextInv, Overflow PROVE TextInv'
<1> PICK p : p = Head(todo)
  OBVIOUS
<1>1. PICK lap \in Tails :
        cur' = [own |-> p, lap |-> lap,
                tokens |-> TokenCount(p) + IF lap = NoLap THEN 0 ELSE lap + 1]
  BY DEF Overflow
<1>2. /\ todo # <<>> /\ chunks' = Flushed
      /\ mark' = [headings |-> Path(sec), start |-> at]
      /\ todo' = Tail(todo)
      /\ UNCHANGED <<doc, method, phase, at, sec, pair>>
  BY DEF Overflow
<1>3. /\ p \in Seq(Names) /\ Tail(todo) \in Seq(Seq(Names))
      /\ cur.own \o p \in Seq(Names) /\ FlattenSeq(Tail(todo)) \in Seq(Names)
      /\ FlattenSeq(todo) = p \o FlattenSeq(Tail(todo))
      /\ phase = "split" /\ method \notin {"table", "one"}
      /\ Total(chunks, cur.own, todo) = Read(at)
  BY <1>2, PieceGoes
<1>4. /\ Shape /\ doc \in Seq(Kinds) /\ chunks \in Seq(Chunk) /\ cur.own \in Seq(Names)
      /\ at \in Int /\ sec \in Seq(Int)
  BY DEF TextInv, Shape, Opened
<1>5. cur' \in Opened /\ cur'.own = p
  <2>1. lap \in Int
    BY <1>1 DEF Tails, NoLap
  <2>2. TokenCount(p) \in Nat
    BY <1>3, <1>4, CountType
  <2>3. TokenCount(p) + (IF lap = NoLap THEN 0 ELSE lap + 1) \in Int
    BY <2>1, <2>2
  <2> QED  BY <1>1, <1>3, <2>1, <2>3 DEF Opened
<1>6. mark' \in Marks
  BY <1>2, <1>4, PathType DEF Marks
<1>7. chunks' \in Seq(Chunk) /\ OwnText(chunks') = OwnText(chunks) \o cur.own
  BY <1>2, <1>4, FlushedHolds
<1>8. Total(chunks', cur'.own, todo') = Read(at)
  <2>1. PICK x, y, z : x = OwnText(chunks) /\ y = cur.own /\ z = FlattenSeq(todo)
    OBVIOUS
  <2>2. x \in Seq(Names) /\ y \in Seq(Names) /\ z \in Seq(Names)
    <3>1. todo \in Seq(Seq(Names))
      BY <1>4 DEF Shape
    <3> QED  BY <1>4, <2>1, <3>1, OwnsType, FlattenType
  <2>3. (x \o y) \o z = x \o (y \o z)
    <3>1. Grouped(x, y, z)
      BY <2>2, Grouping
    <3> QED  BY <3>1 DEF Grouped
  <2> QED  BY <1>2, <1>3, <1>5, <1>7, <2>1, <2>3 DEF Total
<1>9. Phases'
  BY <1>2, <1>3 DEF TextInv, Phases
<1> QED  BY <1>2, <1>3, <1>4, <1>5, <1>6, <1>7, <1>8, <1>9, StepKeeps DEF Shape

\* The last chunk is closed.
LEMMA EndNaiveKeeps == ASSUME TextInv, EndNaive PROVE TextInv'
<1>1. /\ Naive /\ todo = <<>> /\ chunks' = Flushed /\ cur' = Empty /\ phase' = "end"
      /\ UNCHANGED <<doc, method, at, todo, sec, mark, pair>>
  BY DEF EndNaive
<1>2. phase = "split" /\ Shape /\ method \notin {"table", "one"}
  BY <1>1 DEF Naive, TextInv
<1>3. Flushed \in Seq(Chunk) /\ OwnText(Flushed) = OwnText(chunks) \o cur.own
  BY <1>2, FlushedHolds
<1>4. Total(chunks, cur.own, todo) = Read(at)
  BY <1>2 DEF TextInv, TextKept
<1>5. Total(chunks', cur'.own, todo') = Read(at)
  <2>1. cur.own \in Seq(Names)
    BY <1>2 DEF Shape, Opened
  <2>2. cur.own \o <<>> = cur.own
    BY <2>1, ConcatEmptySeq
  <2>3. Total(chunks', <<>>, <<>>) = OwnText(chunks')
    BY <1>1, <1>3, TotalClosed
  <2> QED  BY <1>1, <1>3, <1>4, <2>2, <2>3, FlattenNone, EmptyType DEF Total
<1>6. Phases'
  BY <1>1, <1>2 DEF TextInv, Phases
<1> QED  BY <1>1, <1>2, <1>3, <1>5, <1>6, StepKeeps, EmptyType DEF Shape

-----------------------------------------------------------------------------
(* The templates "table" and "one" *)

\* Of a table all is kept, and of the rest nothing.
LEMMA TableOnlyKeeps == ASSUME TextInv, TableOnly PROVE TextInv'
<1> PICK b : b = at + 1
  OBVIOUS
<1> PICK ps, cs : ps = SplitTable(TextOf(b)) /\ cs = AllAlone(ps, {}, b)
  OBVIOUS
<1>1. /\ method = "table" /\ todo = <<>> /\ at < Len(doc) /\ at' = b
      /\ chunks' = IF doc[b].type # "table" THEN chunks ELSE chunks \o cs
      /\ UNCHANGED <<doc, method, phase, todo, sec, cur, mark, pair>>
  BY DEF TableOnly, NextIs
<1>2. /\ phase = "split" /\ cur = Empty /\ cur.own = <<>>
      /\ Shape /\ doc \in Seq(Kinds) /\ chunks \in Seq(Chunk)
  BY <1>1, EmptyType DEF TextInv, Phases, Shape
<1>3. /\ b \in 0..Len(doc) /\ b \in Int /\ TextOf(b) \in Seq(Seq(Names)) /\ TextOf(b) # <<>>
      /\ (Due(b) => Read(b) = OwnText(Flushed) \o FlattenSeq(TextOf(b)))
      /\ (~Due(b) => Read(b) = OwnText(Flushed))
  BY <1>1, <1>2, ReadsBlock
<1>4. Flushed = chunks
  BY <1>2 DEF Flushed
<1>5. Due(b) <=> doc[b].type = "table"
  <2>1. Template = "table"
    BY <1>1 DEF Template
  <2> QED  BY <2>1 DEF Due
<1>6. chunks' \in Seq(Chunk) /\ OwnText(chunks') = Read(b)
  <2>1. CASE doc[b].type # "table"
    BY <1>1, <1>2, <1>3, <1>4, <1>5, <2>1
  <2>2. CASE doc[b].type = "table"
    <3>1. ps \in Seq(PieceType) /\ FlattenSeq(OwnsOf(ps)) = FlattenSeq(TextOf(b))
      BY <1>2, <1>3, SplitTableKeeps
    <3>2. cs \in Seq(Chunk) /\ OwnText(cs) = FlattenSeq(TextOf(b))
      <4>1. {} \in SUBSET Int
        OBVIOUS
      <4> QED  BY <1>2, <1>3, <3>1, <4>1, AllAloneHolds
    <3>3. chunks \o cs \in Seq(Chunk) /\ OwnText(chunks \o cs) = OwnText(chunks) \o OwnText(cs)
      BY <1>2, <3>2, OwnsConcat
    <3> QED  BY <1>1, <1>3, <1>4, <1>5, <2>2, <3>2, <3>3
  <2> QED  BY <2>1, <2>2
<1>7. Total(chunks', cur'.own, todo') = Read(b)
  BY <1>1, <1>2, <1>6, TotalClosed
<1>8. Phases'
  BY <1>1, <1>2 DEF TextInv, Phases
<1> QED  BY <1>1, <1>2, <1>3, <1>6, <1>7, <1>8, StepKeeps DEF Shape

\* What is due of the blocks that were read is a text.
LEMMA ReadType ==
    ASSUME doc \in Seq(Kinds), NEW n \in 0..Len(doc) PROVE Read(n) \in Seq(Names)
<1>1. PICK T, s : T = Seq(Names) /\ s = [b \in 1..n |-> Part(b)]
  OBVIOUS
<1>2. ASSUME NEW b \in 1..n PROVE s[b] \in T
  <2>1. b \in 1..Len(doc)
    OBVIOUS
  <2> QED  BY <1>1, <2>1, PartType
<1>3. s \in Seq(T)
  <2>1. s = [b \in 1..n |-> s[b]] /\ n \in Nat
    BY <1>1
  <2> QED  BY <1>2, <2>1, SequenceIs
<1>4. FlattenSeq(s) \in Seq(Names)
  BY <1>1, <1>3, FlattenType
<1> QED  BY <1>1, <1>4 DEF Read

\* One chunk has all that is due.
LEMMA OneKeeps == ASSUME TextInv, One PROVE TextInv'
<1> PICK n : n = Len(doc)
  OBVIOUS
<1>1. /\ method = "one" /\ phase = "split" /\ phase' = "end" /\ at' = n
      /\ UNCHANGED <<doc, method, todo, sec, cur, mark, pair>>
  BY DEF One
<1>2. /\ Shape /\ doc \in Seq(Kinds) /\ n \in Nat /\ n \in 0..Len(doc) /\ DOMAIN doc = 1..n
      /\ cur = Empty /\ cur.own = <<>> /\ todo = <<>>
  BY <1>1, EmptyType DEF TextInv, Phases, Shape
<1>3. \A b : Part(b) = IF doc[b].type = "image" THEN <<>> ELSE FlattenSeq(TextOf(b))
  <2>1. Template = "one"
    BY <1>1 DEF Template
  <2> QED  BY <2>1 DEF Due, Part
<1>4. PICK text : text = Read(n)
  OBVIOUS
<1>5. chunks' = IF text = <<>> THEN <<>> ELSE <<Alone(Piece(text, <<>>), {}, 0)>>
  <2>1. Read(n) = FlattenSeq([b \in DOMAIN doc |->
                     IF doc[b].type = "image" THEN <<>> ELSE FlattenSeq(TextOf(b))])
    BY <1>2, <1>3 DEF Read
  <2> QED  BY <1>4, <2>1 DEF One
<1>6. text \in Seq(Names)
  BY <1>2, <1>4, ReadType
<1>7. chunks' \in Seq(Chunk) /\ OwnText(chunks') = text
  <2>1. CASE text = <<>>
    BY <1>5, <2>1, OwnsNone
  <2>2. CASE text # <<>>
    <3>1. PICK p, c : p = Piece(text, <<>>) /\ c = Alone(p, {}, 0)
      OBVIOUS
    <3>2. p \in PieceType /\ p.own = text
      BY <1>6, <3>1 DEF Piece, PieceType
    <3>3. {} \in SUBSET Int /\ 0 \in Int
      OBVIOUS
    <3>4. c \in Chunk /\ c.own = text
      BY <1>2, <3>1, <3>2, <3>3, AloneHolds
    <3> QED  BY <1>5, <2>2, <3>1, <3>4, OwnsOne
  <2> QED  BY <2>1, <2>2
<1>8. Total(chunks', cur'.own, todo') = Read(n)
  BY <1>1, <1>2, <1>4, <1>7, TotalClosed
<1>9. Phases'
  BY <1>1, <1>2 DEF Phases
<1> QED  BY <1>1, <1>2, <1>7, <1>8, <1>9, StepKeeps DEF Shape

-----------------------------------------------------------------------------
(* The template "qa" *)

\* What pairs have of a block is a text.
LEMMA SaidType ==
    ASSUME doc \in Seq(Kinds), NEW b \in 1..Len(doc) PROVE SaidPart(b) \in Seq(Names)
BY BlockText DEF SaidPart

\* One more block is read, or none is yet.
LEMMA SaidNext ==
    ASSUME doc \in Seq(Kinds), NEW n \in Nat, n < Len(doc)
    PROVE  SaidBy(n + 1) = SaidBy(n) \o SaidPart(n + 1) /\ SaidBy(n) \in Seq(Names)
<1>1. PICK f : f = [b \in 1..(n + 1) |-> SaidPart(b)]
  OBVIOUS
<1>2. \A b \in 1..(n + 1) : f[b] \in Seq(Names)
  <2>1. \A b \in 1..(n + 1) : b \in 1..Len(doc)
    OBVIOUS
  <2> QED  BY <1>1, <2>1, SaidType
<1>3. /\ [b \in 1..(n + 1) |-> SaidPart(b)] = [b \in 1..(n + 1) |-> f[b]]
      /\ [b \in 1..n |-> SaidPart(b)] = [b \in 1..n |-> f[b]]
      /\ f[n + 1] = SaidPart(n + 1)
  BY <1>1
<1>4. /\ FlattenSeq([b \in 1..(n + 1) |-> f[b]]) = FlattenSeq([b \in 1..n |-> f[b]]) \o f[n + 1]
      /\ FlattenSeq([b \in 1..n |-> f[b]]) \in Seq(Names)
  BY <1>2, PartsFollow
<1> QED  BY <1>3, <1>4 DEF SaidBy

\* Nothing was said at the start.
LEMMA SaidNothing == SaidBy(0) = <<>>
<1>1. [b \in 1..0 |-> SaidPart(b)] = <<>>
  OBVIOUS
<1> QED  BY <1>1, FlattenNone DEF SaidBy

\* What pairs have does not change while the document does not.
LEMMA SaidStays ==
    ASSUME doc' = doc
    PROVE  /\ \A n \in Nat : SaidBy(n)' = SaidBy(n)
           /\ \A b : Opens(b)' <=> Opens(b)
           /\ Names' = Names /\ Chunk' = Chunk
<1>1. \A b : Opens(b)' <=> Opens(b)
  BY DEF Opens
<1>2. \A b : Said(b)' <=> Said(b)
  BY <1>1 DEF Said
<1>3. \A b : TextOf(b)' = TextOf(b)
  BY DEF TextOf
<1>4. \A b : SaidPart(b)' = SaidPart(b)
  BY <1>2, <1>3 DEF SaidPart
<1>5. Names' = Names
  BY DEF Names
<1> QED  BY <1>1, <1>4, <1>5 DEF SaidBy, Chunk

\* What pairs with p have, with the blocks up to n.
PairsHold(p, n) ==
    /\ p.matched <=> \E b \in 1..n : Opens(b)
    /\ IF p.matched THEN p.q # <<>> ELSE p.q = <<>> /\ p.all = <<>>
    /\ PairText(p) = SaidBy(n)

\* A step of the search for pairs.
LEMMA PairStepKeeps ==
    ASSUME TextInv, phase = "pairs", NEW n \in 0..Len(doc), at' = n,
           UNCHANGED <<doc, method, phase, todo, sec, cur, mark, chunks>>,
           pair' \in PairType, PairsHold(pair', n)
    PROVE  TextInv'
<1>1. /\ Names' = Names /\ Chunk' = Chunk /\ SaidBy(n)' = SaidBy(n)
      /\ \A b : Opens(b)' <=> Opens(b)
  BY SaidStays
<1>2. Opened' = Opened /\ Marks' = Marks /\ PairType' = PairType
  BY <1>1 DEF Opened, Marks, PairType
<1>3. Shape'
  BY <1>1, <1>2 DEF TextInv, Shape
<1>4. Phases'
  BY DEF TextInv, Phases
<1>5. SaidBy(at)' = SaidBy(n)'
  BY DEF SaidBy
<1>6. PairText(pair)' = PairText(pair')
  BY DEF PairText
<1>7. PairsKept'
  BY <1>1, <1>5, <1>6 DEF PairsKept, PairsHold
<1>8. TextKept'
  BY <1>7 DEF TextKept
<1> QED  BY <1>3, <1>4, <1>8 DEF TextInv

\* The parts of a pair, and what both have.
LEMMA PairParts ==
    ASSUME NEW p \in PairType
    PROVE  /\ p.q \in Seq(Seq(Names)) /\ p.a \in Seq(Seq(Names)) /\ p.all \in Seq(Seq(Seq(Names)))
           /\ FlattenSeq(p.q) \in Seq(Names) /\ FlattenSeq(p.a) \in Seq(Names)
           /\ FlattenSeq(p.all) \in Seq(Seq(Names))
           /\ FlattenSeq(FlattenSeq(p.all)) \in Seq(Names)
<1>1. p.q \in Seq(Seq(Names)) /\ p.a \in Seq(Seq(Names)) /\ p.all \in Seq(Seq(Seq(Names)))
  BY DEF PairType
<1>2. FlattenSeq(p.q) \in Seq(Names) /\ FlattenSeq(p.a) \in Seq(Names)
  BY <1>1, FlattenType
<1>3. FlattenSeq(p.all) \in Seq(Seq(Names))
  <2>1. PICK T : T = Seq(Names)
    OBVIOUS
  <2>2. p.all \in Seq(Seq(T))
    BY <1>1, <2>1
  <2>3. FlattenSeq(p.all) \in Seq(T)
    BY <2>2, FlattenType
  <2> QED  BY <2>1, <2>3
<1>4. FlattenSeq(FlattenSeq(p.all)) \in Seq(Names)
  BY <1>3, FlattenType
<1> QED  BY <1>1, <1>2, <1>3, <1>4

\* flushPair puts the pair after the others.
LEMMA PairFlushedHolds ==
    ASSUME pair \in PairType
    PROVE  /\ PairFlushed \in Seq(Seq(Seq(Names)))
           /\ FlattenSeq(FlattenSeq(PairFlushed)) = PairText(pair)
<1>1. PICK S, T : S = Names /\ T = Seq(S)
  OBVIOUS
<1>2. PICK q, a, all : q = pair.q /\ a = pair.a /\ all = pair.all
  OBVIOUS
<1>3. q \in Seq(T) /\ a \in Seq(T) /\ all \in Seq(Seq(T))
  BY <1>1, <1>2, PairParts
<1>4. FlattenSeq(all) \in Seq(T) /\ FlattenSeq(FlattenSeq(all)) \in T
  BY <1>1, <1>2, PairParts
<1>5. PairText(pair) = FlattenSeq(FlattenSeq(all)) \o (FlattenSeq(q) \o FlattenSeq(a))
  BY <1>2 DEF PairText
<1>6. CASE q = <<>> /\ a = <<>>
  <2>1. PairFlushed = all
    BY <1>2, <1>6 DEF PairFlushed
  <2>2. <<>> \o <<>> = <<>>
    OBVIOUS
  <2>3. FlattenSeq(FlattenSeq(all)) \o <<>> = FlattenSeq(FlattenSeq(all))
    BY <1>1, <1>4, ConcatEmptySeq
  <2> QED  BY <1>1, <1>3, <1>5, <1>6, <2>1, <2>2, <2>3, FlattenNone
<1>7. CASE ~(q = <<>> /\ a = <<>>)
  <2>1. PICK x : x = q \o a
    OBVIOUS
  <2>2. x \in Seq(T)
    BY <1>3, <2>1, ConcatProperties
  <2>3. PairFlushed = Append(all, x)
    BY <1>2, <1>7, <2>1 DEF PairFlushed
  <2>4. Append(all, x) \in Seq(Seq(T))
    <3>1. PICK U : U = Seq(T)
      OBVIOUS
    <3>2. all \in Seq(U) /\ x \in U
      BY <1>3, <2>2, <3>1
    <3>3. Append(all, x) \in Seq(U)
      BY <3>2, AppendType
    <3> QED  BY <3>1, <3>3
  <2>5. FlattenSeq(Append(all, x)) = FlattenSeq(all) \o x
    BY <1>3, <2>2, FlattenAppend
  <2>6. FlattenSeq(FlattenSeq(all) \o x) = FlattenSeq(FlattenSeq(all)) \o FlattenSeq(x)
    <3>1. PICK y : y = FlattenSeq(all)
      OBVIOUS
    <3>2. y \in Seq(Seq(S)) /\ x \in Seq(Seq(S))
      BY <1>1, <1>4, <2>2, <3>1
    <3>3. FlattenSeq(y \o x) = FlattenSeq(y) \o FlattenSeq(x)
      BY <3>2, FlattenConcat
    <3> QED  BY <3>1, <3>3
  <2>7. FlattenSeq(x) = FlattenSeq(q) \o FlattenSeq(a)
    <3>1. q \in Seq(Seq(S)) /\ a \in Seq(Seq(S))
      BY <1>1, <1>3
    <3>2. FlattenSeq(q \o a) = FlattenSeq(q) \o FlattenSeq(a)
      BY <3>1, FlattenConcat
    <3> QED  BY <2>1, <3>2
  <2> QED  BY <1>1, <1>5, <2>3, <2>4, <2>5, <2>6, <2>7
<1> QED  BY <1>6, <1>7

\* The text of the next block while pairs are looked for.
LEMMA PairsBlock ==
    ASSUME TextInv, phase = "pairs", at < Len(doc), NEW b, b = at + 1
    PROVE  /\ b \in 0..Len(doc) /\ doc[b].type \in {"title", "text", "table", "list", "image"}
           /\ TextOf(b) \in Seq(Seq(Names)) /\ TextOf(b) # <<>> /\ FlattenSeq(TextOf(b)) \in Seq(Names)
           /\ pair \in PairType /\ PairsHold(pair, at)
           /\ (\E c \in 1..b : Opens(c)) <=> Opens(b) \/ \E c \in 1..at : Opens(c)
           /\ Said(b) <=> /\ doc[b].type # "table"
                          /\ doc[b].says = "answer" \/ (\E c \in 1..b : Opens(c))
           /\ Said(b) => SaidBy(b) = SaidBy(at) \o FlattenSeq(TextOf(b))
           /\ ~Said(b) => SaidBy(b) = SaidBy(at)
<1>1. Shape /\ doc \in Seq(Kinds) /\ at \in 0..Len(doc) /\ Len(doc) \in Nat /\ pair \in PairType
  BY DEF TextInv, Shape
<1>2. b \in 1..Len(doc) /\ b \in 0..Len(doc) /\ at \in Nat
  BY <1>1
<1>3. TextOf(b) \in Seq(Seq(Names)) /\ TextOf(b) # <<>> /\ FlattenSeq(TextOf(b)) \in Seq(Names)
  BY <1>1, <1>2, BlockText
<1>4. doc[b].type \in {"title", "text", "table", "list", "image"}
  <2>1. doc[b] \in Kinds
    BY <1>1, <1>2
  <2> QED  BY <2>1, KindsAssumption
<1>5. PairsHold(pair, at)
  BY DEF TextInv, TextKept, PairsKept, PairsHold
<1>6. (\E c \in 1..b : Opens(c)) <=> Opens(b) \/ \E c \in 1..at : Opens(c)
  <2>1. \A c : c \in 1..b <=> c = b \/ c \in 1..at
    BY <1>2
  <2> QED  BY <2>1
<1>7. Said(b) <=> doc[b].type # "table" /\ (doc[b].says = "answer" \/ (\E c \in 1..b : Opens(c)))
  BY DEF Said
<1>8. SaidBy(b) = SaidBy(at) \o SaidPart(b) /\ SaidBy(at) \in Seq(Names)
  BY <1>1, <1>2, SaidNext
<1>9. SaidBy(at) \o <<>> = SaidBy(at)
  BY <1>8, ConcatEmptySeq
<1> QED  BY <1>1, <1>2, <1>3, <1>4, <1>5, <1>6, <1>7, <1>8, <1>9 DEF SaidPart

\* A question closes the pair and begins one.
LEMMA QAQuestionKeeps == ASSUME TextInv, QAQuestion PROVE TextInv'
<1> PICK b : b = at + 1
  OBVIOUS
<1>1. /\ phase = "pairs" /\ todo = <<>> /\ at < Len(doc) /\ at' = b
      /\ doc[b].type # "table" /\ doc[b].says = "question"
      /\ pair' = [q |-> TextOf(b), a |-> <<>>, matched |-> TRUE, all |-> PairFlushed]
      /\ UNCHANGED <<doc, method, phase, todo, sec, cur, mark, chunks>>
  BY DEF QAQuestion, NextIs
<1>2. /\ b \in 0..Len(doc)
      /\ TextOf(b) \in Seq(Seq(Names)) /\ TextOf(b) # <<>> /\ FlattenSeq(TextOf(b)) \in Seq(Names)
      /\ pair \in PairType /\ PairsHold(pair, at)
      /\ (\E c \in 1..b : Opens(c)) <=> Opens(b) \/ \E c \in 1..at : Opens(c)
      /\ Said(b) <=> doc[b].type # "table" /\ (doc[b].says = "answer" \/ (\E c \in 1..b : Opens(c)))
      /\ Said(b) => SaidBy(b) = SaidBy(at) \o FlattenSeq(TextOf(b))
  BY <1>1, PairsBlock
<1>3. \E c \in 1..b : Opens(c)
  BY <1>1, <1>2 DEF Opens
<1>4. SaidBy(b) = SaidBy(at) \o FlattenSeq(TextOf(b))
  BY <1>1, <1>2, <1>3
<1>5. PairFlushed \in Seq(Seq(Seq(Names))) /\ FlattenSeq(FlattenSeq(PairFlushed)) = PairText(pair)
  BY <1>2, PairFlushedHolds
<1>6. pair' \in PairType
  <2>1. <<>> \in Seq(Seq(Names))
    OBVIOUS
  <2> QED  BY <1>1, <1>2, <1>5, <2>1 DEF PairType
<1>7. PairText(pair') = SaidBy(b)
  <2>1. FlattenSeq(TextOf(b)) \o <<>> = FlattenSeq(TextOf(b))
    BY <1>2, ConcatEmptySeq
  <2>2. PairText(pair) = SaidBy(at)
    BY <1>2 DEF PairsHold
  <2> QED  BY <1>1, <1>4, <1>5, <2>1, <2>2, FlattenNone DEF PairText
<1>8. PairsHold(pair', b)
  BY <1>1, <1>2, <1>3, <1>7 DEF PairsHold
<1> QED  BY <1>1, <1>2, <1>6, <1>8, PairStepKeeps

\* Two texts that are glued have the text of both.
LEMMA GlueKeeps ==
    ASSUME NEW S, NEW t \in Seq(Seq(S)), NEW u \in Seq(Seq(S))
    PROVE  Glue(t, u) \in Seq(Seq(S)) /\ FlattenSeq(Glue(t, u)) = FlattenSeq(t) \o FlattenSeq(u)
<1>1. PICK T : T = Seq(S)
  OBVIOUS
<1>2. t \in Seq(T) /\ u \in Seq(T)
  BY <1>1
<1>3. CASE t = <<>> \/ u = <<>>
  <2>1. Glue(t, u) = t \o u
    BY <1>3 DEF Glue
  <2>2. t \o u \in Seq(T)
    BY <1>2, ConcatProperties
  <2> QED  BY <1>1, <2>1, <2>2, FlattenConcat
<1>4. CASE ~(t = <<>> \/ u = <<>>)
  <2>1. PICK r, x, y, v : r = Front(t) /\ x = Last(t) /\ y = Head(u) /\ v = Tail(u)
    OBVIOUS
  <2>2. r \in Seq(T) /\ x \in T /\ t = Append(r, x)
    <3>1. Len(t) \in Nat /\ Len(t) > 0
      BY <1>2, <1>4, EmptySeq
    <3>2. r = SubSeq(t, 1, Len(t) - 1) /\ x = t[Len(t)]
      BY <2>1 DEF Front, Last
    <3>3. PICK n \in Nat : Len(t) = n + 1
      <4>1. Len(t) - 1 \in Nat /\ Len(t) = (Len(t) - 1) + 1
        BY <3>1
      <4> QED  BY <4>1
    <3>4. \A i \in 1..(n + 1) : t[i] \in T
      BY <1>2, <3>3, ElementOfSeq
    <3>5. r = SubSeq(t, 1, n)
      BY <3>2, <3>3
    <3>6. r \in Seq(T)
      <4>1. \A i \in 1..n : t[i] \in T
        BY <3>4
      <4> QED  BY <3>5, <4>1, SubSeqProperties
    <3>7. x \in T
      BY <3>2, <3>3, <3>4
    <3>8. t = r \o <<x>>
      <4>1. SubSeq(t, 1, n + 1) = SubSeq(t, 1, (n + 1) - 1) \o <<t[n + 1]>>
        <5>1. n + 1 \in 1..Len(t)
          BY <3>3
        <5> QED  BY <1>2, <3>3, <5>1, SubSeqRecursiveSecond
      <4>2. SubSeq(t, 1, Len(t)) = t
        BY <1>2, SubSeqFull
      <4> QED  BY <3>2, <3>3, <3>5, <4>1, <4>2
    <3> QED  BY <3>6, <3>7, <3>8, AppendIsConcat
  <2>3. y \in T /\ v \in Seq(T)
    BY <1>2, <1>4, <2>1, HeadTailProperties
  <2>4. PICK w : w = x \o y
    OBVIOUS
  <2>5. w \in T
    BY <1>1, <2>2, <2>3, <2>4, ConcatProperties
  <2>6. Glue(t, u) = (r \o <<w>>) \o v
    BY <1>4, <2>1, <2>4 DEF Glue
  <2>7. PICK z : z = r \o <<w>>
    OBVIOUS
  <2>8. z \in Seq(T) /\ z = Append(r, w)
    BY <2>2, <2>5, <2>7, AppendProperties, AppendIsConcat
  <2>9. FlattenSeq(z) = FlattenSeq(r) \o w
    BY <1>1, <2>2, <2>5, <2>8, FlattenAppend
  <2>10. z \o v \in Seq(T) /\ FlattenSeq(z \o v) = FlattenSeq(z) \o FlattenSeq(v)
    <3>1. z \o v \in Seq(T)
      BY <2>3, <2>8, ConcatProperties
    <3> QED  BY <1>1, <2>3, <2>8, <3>1, FlattenConcat
  <2>11. FlattenSeq(t) = FlattenSeq(r) \o x
    BY <1>1, <2>2, FlattenAppend
  <2>12. FlattenSeq(u) = y \o FlattenSeq(v)
    BY <1>1, <1>2, <1>4, <2>1, FlattenFirst
  <2>13. PICK f, g : f = FlattenSeq(r) /\ g = FlattenSeq(v)
    OBVIOUS
  <2>14. f \in Seq(S) /\ g \in Seq(S) /\ x \in Seq(S) /\ y \in Seq(S)
    BY <1>1, <2>2, <2>3, <2>13, FlattenType
  <2>15. (f \o (x \o y)) \o g = (f \o x) \o (y \o g)
    <3>1. PICK h : h = f \o x
      OBVIOUS
    <3>2. h \in Seq(S)
      BY <2>14, <3>1, ConcatProperties
    <3>3. (f \o x) \o y = f \o (x \o y)
      <4>1. Grouped(f, x, y)
        BY <2>14, Grouping
      <4> QED  BY <4>1 DEF Grouped
    <3>4. (h \o y) \o g = h \o (y \o g)
      <4>1. Grouped(h, y, g)
        BY <2>14, <3>2, Grouping
      <4> QED  BY <4>1 DEF Grouped
    <3> QED  BY <3>1, <3>3, <3>4
  <2> QED  BY <1>1, <2>4, <2>6, <2>7, <2>9, <2>10, <2>11, <2>12, <2>13, <2>15
<1> QED  BY <1>3, <1>4

\* What follows a question is its answer.
LEMMA QAAnswerKeeps == ASSUME TextInv, QAAnswer PROVE TextInv'
<1> PICK b : b = at + 1
  OBVIOUS
<1>1. /\ phase = "pairs" /\ todo = <<>> /\ at < Len(doc) /\ at' = b
      /\ doc[b].type # "table" /\ doc[b].says # "question"
      /\ pair' = IF doc[b].says = "answer" THEN [pair EXCEPT !.a = Glue(pair.a, TextOf(b))]
                 ELSE IF pair.matched THEN [pair EXCEPT !.a = pair.a \o TextOf(b)]
                 ELSE pair
      /\ UNCHANGED <<doc, method, phase, todo, sec, cur, mark, chunks>>
  BY DEF QAAnswer, NextIs
<1>2. /\ b \in 0..Len(doc)
      /\ TextOf(b) \in Seq(Seq(Names)) /\ FlattenSeq(TextOf(b)) \in Seq(Names)
      /\ pair \in PairType /\ PairsHold(pair, at)
      /\ (\E c \in 1..b : Opens(c)) <=> Opens(b) \/ \E c \in 1..at : Opens(c)
      /\ Said(b) <=> doc[b].type # "table" /\ (doc[b].says = "answer" \/ (\E c \in 1..b : Opens(c)))
      /\ Said(b) => SaidBy(b) = SaidBy(at) \o FlattenSeq(TextOf(b))
      /\ ~Said(b) => SaidBy(b) = SaidBy(at)
  BY <1>1, PairsBlock
<1>3. pair.matched <=> \E c \in 1..b : Opens(c)
  <2>1. ~Opens(b)
    BY <1>1 DEF Opens
  <2> QED  BY <1>2, <2>1 DEF PairsHold
<1>4. ASSUME NEW a \in Seq(Seq(Names)), pair' = [pair EXCEPT !.a = a], Said(b),
             FlattenSeq(a) = FlattenSeq(pair.a) \o FlattenSeq(TextOf(b))
      PROVE  pair' \in PairType /\ PairsHold(pair', b)
  <2>1. /\ pair' \in PairType /\ pair'.q = pair.q /\ pair'.a = a
        /\ pair'.all = pair.all /\ pair'.matched = pair.matched
    BY <1>2, <1>4 DEF PairType
  <2>2. PICK x, y, z, w : /\ x = FlattenSeq(FlattenSeq(pair.all)) /\ y = FlattenSeq(pair.q)
                          /\ z = FlattenSeq(pair.a) /\ w = FlattenSeq(TextOf(b))
    OBVIOUS
  <2>3. x \in Seq(Names) /\ y \in Seq(Names) /\ z \in Seq(Names) /\ w \in Seq(Names)
    BY <1>2, <2>2, PairParts
  <2>4. x \o (y \o (z \o w)) = (x \o (y \o z)) \o w
    <3>1. PICK h, S : h = y \o z /\ S = Names
      OBVIOUS
    <3>2. x \in Seq(S) /\ y \in Seq(S) /\ z \in Seq(S) /\ w \in Seq(S)
      BY <2>3, <3>1
    <3>3. h \in Seq(S)
      BY <3>1, <3>2, ConcatProperties
    <3>4. (y \o z) \o w = y \o (z \o w)
      <4>1. Grouped(y, z, w)
        BY <3>2, Grouping
      <4> QED  BY <4>1 DEF Grouped
    <3>5. (x \o h) \o w = x \o (h \o w)
      <4>1. Grouped(x, h, w)
        BY <3>2, <3>3, Grouping
      <4> QED  BY <4>1 DEF Grouped
    <3> QED  BY <3>1, <3>4, <3>5
  <2>5. PairText(pair') = x \o (y \o (z \o w)) /\ PairText(pair) = x \o (y \o z)
    BY <1>4, <2>1, <2>2 DEF PairText
  <2>6. PairText(pair) = SaidBy(at)
    BY <1>2 DEF PairsHold
  <2>7. PairText(pair') = SaidBy(b)
    BY <1>2, <1>4, <2>2, <2>4, <2>5, <2>6
  <2> QED  BY <1>2, <1>3, <2>1, <2>7 DEF PairsHold
<1>5. pair.a \in Seq(Seq(Names))
  BY <1>2, PairParts
<1>6. CASE doc[b].says = "answer"
  <2>1. PICK a : a = Glue(pair.a, TextOf(b))
    OBVIOUS
  <2>2. a \in Seq(Seq(Names)) /\ FlattenSeq(a) = FlattenSeq(pair.a) \o FlattenSeq(TextOf(b))
    BY <1>2, <1>5, <2>1, GlueKeeps
  <2>3. pair' = [pair EXCEPT !.a = a] /\ Said(b)
    BY <1>1, <1>2, <1>6, <2>1
  <2>4. pair' \in PairType /\ PairsHold(pair', b)
    BY <1>4, <2>2, <2>3
  <2> QED  BY <1>1, <1>2, <2>4, PairStepKeeps
<1>7. CASE doc[b].says # "answer" /\ pair.matched
  <2>1. PICK a, T : a = pair.a \o TextOf(b) /\ T = Seq(Names)
    OBVIOUS
  <2>2. a \in Seq(T)
    BY <1>2, <1>5, <2>1, ConcatProperties
  <2>3. FlattenSeq(a) = FlattenSeq(pair.a) \o FlattenSeq(TextOf(b))
    BY <1>2, <1>5, <2>1, FlattenConcat
  <2>4. pair' = [pair EXCEPT !.a = a] /\ Said(b)
    BY <1>1, <1>2, <1>3, <1>7, <2>1
  <2>5. pair' \in PairType /\ PairsHold(pair', b)
    BY <1>4, <2>1, <2>2, <2>3, <2>4
  <2> QED  BY <1>1, <1>2, <2>5, PairStepKeeps
<1>8. CASE doc[b].says # "answer" /\ ~pair.matched
  <2>1. pair' = pair /\ ~Said(b)
    BY <1>1, <1>2, <1>3, <1>8
  <2>2. PairsHold(pair', b)
    BY <1>2, <1>3, <2>1 DEF PairsHold
  <2> QED  BY <1>1, <1>2, <2>1, <2>2, PairStepKeeps
<1> QED  BY <1>6, <1>7, <1>8

\* Tables are passed over.
LEMMA SkipTableKeeps == ASSUME TextInv, SkipTable PROVE TextInv'
<1> PICK b : b = at + 1
  OBVIOUS
<1>1. /\ phase = "pairs" /\ todo = <<>> /\ at < Len(doc) /\ at' = b /\ doc[b].type = "table"
      /\ UNCHANGED <<doc, method, phase, todo, sec, cur, mark, pair, chunks>>
  BY DEF SkipTable, NextIs
<1>2. /\ b \in 0..Len(doc) /\ pair \in PairType /\ PairsHold(pair, at)
      /\ (\E c \in 1..b : Opens(c)) <=> Opens(b) \/ \E c \in 1..at : Opens(c)
      /\ Said(b) <=> doc[b].type # "table" /\ (doc[b].says = "answer" \/ (\E c \in 1..b : Opens(c)))
      /\ ~Said(b) => SaidBy(b) = SaidBy(at)
  BY <1>1, PairsBlock
<1>3. ~Opens(b) /\ ~Said(b)
  BY <1>1, <1>2 DEF Opens
<1>4. pair' \in PairType /\ PairsHold(pair', b)
  BY <1>1, <1>2, <1>3 DEF PairsHold
<1> QED  BY <1>1, <1>2, <1>4, PairStepKeeps

\* Chunks that are grouped as their texts are have the text of all.
LEMMA OwnsFlatten ==
    ASSUME NEW n \in Nat, NEW css \in Seq(Seq(Chunk)), Len(css) = n,
           NEW ts \in Seq(Seq(Seq(Names))), Len(ts) = n,
           \A i \in 1..n : OwnText(css[i]) = FlattenSeq(ts[i])
    PROVE  /\ FlattenSeq(css) \in Seq(Chunk)
           /\ OwnText(FlattenSeq(css)) = FlattenSeq(FlattenSeq(ts))
<1>1. PICK S, T : S = Names /\ T = Seq(S)
  OBVIOUS
<1>2. PICK p : Concats(p, Chunk, css) /\ FlattenSeq(css) = p[Len(css)]
  BY FlattenHas
<1>3. PICK r : Concats(r, T, ts) /\ FlattenSeq(ts) = r[Len(ts)]
  <2>1. ts \in Seq(Seq(T))
    BY <1>1
  <2> QED  BY <2>1, FlattenHas
<1>4. /\ \A k \in 0..n : p[k] \in Seq(Chunk) /\ r[k] \in Seq(T)
      /\ p[0] = <<>> /\ r[0] = <<>>
      /\ \A k \in 1..n : p[k] = p[k - 1] \o css[k] /\ r[k] = r[k - 1] \o ts[k]
  BY <1>2, <1>3 DEF Concats
<1> DEFINE G == {k \in 0..n : OwnText(p[k]) = FlattenSeq(r[k])}
<1>5. 0 \in G
  <2>1. 0 \in 0..n
    OBVIOUS
  <2> QED  BY <1>4, <2>1, OwnsNone, FlattenNone
<1>6. ASSUME NEW k \in 1..n, k - 1 \in G PROVE k \in G
  <2>1. k - 1 \in 0..n /\ k \in 0..n
    OBVIOUS
  <2>2. PICK cs, ds, x, y : cs = p[k - 1] /\ ds = css[k] /\ x = r[k - 1] /\ y = ts[k]
    OBVIOUS
  <2>3. cs \in Seq(Chunk) /\ ds \in Seq(Chunk) /\ x \in Seq(Seq(S)) /\ y \in Seq(Seq(S))
    <3>1. cs \in Seq(Chunk) /\ x \in Seq(T)
      BY <1>4, <2>1, <2>2
    <3>2. ds \in Seq(Chunk)
      BY <2>2
    <3>3. y \in Seq(Seq(Names))
      BY <2>2
    <3> QED  BY <1>1, <3>1, <3>2, <3>3
  <2>4. OwnText(cs \o ds) = OwnText(cs) \o OwnText(ds)
    BY <2>3, OwnsConcat
  <2>5. FlattenSeq(x \o y) = FlattenSeq(x) \o FlattenSeq(y)
    BY <2>3, FlattenConcat
  <2>6. OwnText(cs) = FlattenSeq(x) /\ OwnText(ds) = FlattenSeq(y)
    BY <1>6, <2>2
  <2>7. p[k] = cs \o ds /\ r[k] = x \o y
    BY <1>4, <2>2
  <2> QED  BY <2>1, <2>4, <2>5, <2>6, <2>7
<1>7. n \in G
  <2> HIDE DEF G
  <2>1. \A k \in 0..n : k \in G
    BY <1>5, <1>6, StepByStep
  <2> QED  BY <2>1
<1>8. p[n] \in Seq(Chunk) /\ OwnText(p[n]) = FlattenSeq(r[n])
  BY <1>4, <1>7
<1> QED  BY <1>2, <1>3, <1>8

\* A pair, whole or in pieces, and its chunks.
PairPieces(t) == IF TokenCount(FlattenSeq(t)) <= 2 * MaxTokens THEN <<FlattenSeq(t)>> ELSE SplitPiece(t)
PairChunks(t) == [i \in DOMAIN PairPieces(t) |-> Alone(Piece(PairPieces(t)[i], <<>>), {}, 0)]

\* The chunks of a pair have its text.
LEMMA PairChunksHold ==
    ASSUME doc \in Seq(Kinds), NEW t \in Seq(Seq(Names))
    PROVE  PairChunks(t) \in Seq(Chunk) /\ OwnText(PairChunks(t)) = FlattenSeq(t)
<1>1. PICK T : T = Seq(Names)
  OBVIOUS
<1>2. PICK whole : whole = PairPieces(t)
  OBVIOUS
<1>3. whole \in Seq(T) /\ FlattenSeq(whole) = FlattenSeq(t)
  <2>1. CASE TokenCount(FlattenSeq(t)) <= 2 * MaxTokens
    <3>1. PICK x : x = FlattenSeq(t)
      OBVIOUS
    <3>2. x \in Seq(Names)
      BY <3>1, FlattenType
    <3>3. FlattenSeq(<<x>>) = x
      BY <3>2, FlattenOne
    <3>4. whole = <<x>>
      BY <1>2, <2>1, <3>1 DEF PairPieces
    <3> QED  BY <1>1, <3>1, <3>2, <3>3, <3>4
  <2>2. CASE ~(TokenCount(FlattenSeq(t)) <= 2 * MaxTokens)
    <3>1. whole = SplitPiece(t)
      BY <1>2, <2>2 DEF PairPieces
    <3> QED  BY <1>1, <3>1, SplitPieceKeeps
  <2> QED  BY <2>1, <2>2
<1>4. PICK ps : ps = [i \in DOMAIN whole |-> Piece(whole[i], <<>>)]
  OBVIOUS
<1>5. PICK m \in Nat : m = Len(whole) /\ DOMAIN whole = 1..m
  BY <1>3
<1>6. ASSUME NEW i \in 1..m PROVE ps[i] \in PieceType /\ ps[i].own = whole[i]
  <2>1. whole[i] \in Seq(Names)
    BY <1>1, <1>3, <1>5
  <2> QED  BY <1>4, <1>5, <2>1 DEF Piece, PieceType
<1>7. ps \in Seq(PieceType)
  <2>1. ps = [i \in 1..m |-> ps[i]]
    BY <1>4, <1>5
  <2> QED  BY <1>6, <2>1, SequenceIs
<1>8. OwnsOf(ps) = whole
  <2>1. whole = [i \in 1..m |-> whole[i]] /\ DOMAIN ps = 1..m
    BY <1>3, <1>4, <1>5
  <2> QED  BY <1>6, <2>1 DEF OwnsOf
<1>9. {} \in SUBSET Int /\ 0 \in Int
  OBVIOUS
<1>10. AllAlone(ps, {}, 0) \in Seq(Chunk) /\ OwnText(AllAlone(ps, {}, 0)) = FlattenSeq(OwnsOf(ps))
  BY <1>7, <1>9, AllAloneHolds
<1>11. PairChunks(t) = AllAlone(ps, {}, 0)
  <2>1. DOMAIN ps = DOMAIN whole /\ \A i \in DOMAIN whole : ps[i] = Piece(whole[i], <<>>)
    BY <1>4
  <2> QED  BY <1>2, <2>1 DEF PairChunks, AllAlone
<1> QED  BY <1>3, <1>8, <1>10, <1>11

\* The pairs become chunks, or the document is read again.
LEMMA EndQAKeeps == ASSUME TextInv, EndQA PROVE TextInv'
<1>1. /\ phase = "pairs" /\ at = Len(doc)
      /\ UNCHANGED <<doc, method, todo, sec, cur, mark, pair>>
  BY DEF EndQA
<1>2. /\ Shape /\ doc \in Seq(Kinds) /\ pair \in PairType /\ at \in 0..Len(doc) /\ 0 \in 0..Len(doc)
      /\ method = "qa" /\ cur = Empty /\ cur.own = <<>> /\ todo = <<>> /\ PairsKept
  BY <1>1, EmptyType DEF TextInv, Phases, Shape, TextKept
<1>3. PICK pairs : pairs = PairFlushed
  OBVIOUS
<1>4. pairs \in Seq(Seq(Seq(Names))) /\ FlattenSeq(FlattenSeq(pairs)) = PairText(pair)
  BY <1>2, <1>3, PairFlushedHolds
<1>5. CASE ~pair.matched \/ pairs = <<>>
  <2>1. phase' = "split" /\ at' = 0 /\ chunks' = <<>>
    BY <1>3, <1>5 DEF EndQA
  <2>2. ~pair.matched
    <3>1. SUFFICES ASSUME pair.matched PROVE FALSE
      OBVIOUS
    <3>2. pair.q # <<>>
      BY <1>2, <3>1 DEF PairsKept
    <3>3. PICK x, all, T : x = pair.q \o pair.a /\ all = pair.all /\ T = Seq(Seq(Names))
      OBVIOUS
    <3>4. x \in T /\ all \in Seq(T)
      <4>1. PICK U : U = Seq(Names)
        OBVIOUS
      <4>2. pair.q \in Seq(U) /\ pair.a \in Seq(U) /\ all \in Seq(T)
        BY <1>2, <3>3, <4>1, PairParts
      <4>3. x \in Seq(U)
        BY <3>3, <4>2, ConcatProperties
      <4> QED  BY <3>3, <4>1, <4>2, <4>3
    <3>5. pairs = Append(all, x)
      BY <1>3, <3>2, <3>3 DEF PairFlushed
    <3>6. pairs # <<>>
      BY <3>4, <3>5, AppendType
    <3> QED  BY <1>5, <3>1, <3>6
  <2>3. Total(chunks', cur'.own, todo') = Read(0)
    BY <1>1, <1>2, <2>1, OwnsNone, TotalClosed, ReadNothing
  <2>4. Phases'
    BY <1>1, <1>2, <2>1, <2>2 DEF Phases
  <2> QED  BY <1>1, <1>2, <2>1, <2>3, <2>4, OwnsNone, StepKeeps DEF Shape
<1>6. CASE ~(~pair.matched \/ pairs = <<>>)
  <2>1. /\ phase' = "end" /\ at' = at
        /\ chunks' = FlattenSeq([i \in DOMAIN pairs |-> PairChunks(pairs[i])])
    BY <1>3, <1>6 DEF EndQA, PairChunks, PairPieces
  <2>2. PICK css, n, T : /\ css = [i \in DOMAIN pairs |-> PairChunks(pairs[i])]
                         /\ n = Len(pairs) /\ T = Seq(Chunk)
    OBVIOUS
  <2>3. n \in Nat /\ DOMAIN pairs = 1..n
    BY <1>4, <2>2
  <2>4. ASSUME NEW i \in 1..n PROVE css[i] \in T /\ OwnText(css[i]) = FlattenSeq(pairs[i])
    <3>1. pairs[i] \in Seq(Seq(Names))
      BY <1>4, <2>3
    <3>2. css[i] = PairChunks(pairs[i])
      BY <2>2, <2>3
    <3> QED  BY <1>2, <2>2, <3>1, <3>2, PairChunksHold
  <2>5. css \in Seq(T) /\ Len(css) = n
    <3>1. css = [i \in 1..n |-> css[i]]
      BY <2>2, <2>3
    <3> QED  BY <2>3, <2>4, <3>1, SequenceIs
  <2>6. FlattenSeq(css) \in Seq(Chunk) /\ OwnText(FlattenSeq(css)) = FlattenSeq(FlattenSeq(pairs))
    BY <1>4, <2>2, <2>3, <2>4, <2>5, OwnsFlatten
  <2>7. Read(at) = SaidBy(at)
    <3>1. Template = "qa"
      BY <1>2, <1>6 DEF Template
    <3>2. \A b : Due(b) <=> Said(b)
      BY <3>1 DEF Due, Said, Opens
    <3> QED  BY <3>2 DEF Read, Part, SaidBy, SaidPart
  <2>8. chunks' \in Seq(Chunk) /\ OwnText(chunks') = Read(at)
    BY <1>2, <1>4, <2>1, <2>2, <2>6, <2>7 DEF PairsKept
  <2>9. Total(chunks', cur'.own, todo') = Read(at)
    BY <1>1, <1>2, <2>8, TotalClosed
  <2>10. Phases'
    BY <1>1, <1>2, <2>1 DEF Phases
  <2> QED  BY <1>1, <1>2, <2>1, <2>8, <2>9, <2>10, StepKeeps DEF Shape
<1> QED  BY <1>5, <1>6

-----------------------------------------------------------------------------
(* The invariant holds, and with it the property *)

\* It holds at first.
LEMMA TextInvInit == ASSUME ChunkInit PROVE TextInv
<1>1. doc \in Seq(Kinds)
  <2>1. PICK n \in 1..MaxBlocks : doc \in [1..n -> Kinds]
    BY DEF ChunkInit, Docs
  <2>2. n \in Nat /\ doc = [b \in 1..n |-> doc[b]] /\ \A b \in 1..n : doc[b] \in Kinds
    BY <2>1, ConfigAssumption
  <2> QED  BY <2>2, SequenceIs
<1>2. /\ phase = (IF method = "qa" THEN "pairs" ELSE "split") /\ at = 0 /\ todo = <<>> /\ sec = <<>>
      /\ cur = Empty /\ mark = [headings |-> {}, start |-> 0] /\ pair = NoPair /\ chunks = <<>>
  BY DEF ChunkInit
<1>3. Shape
  <2>1. Len(doc) \in Nat
    BY <1>1
  <2>2. pair \in PairType
    <3>1. <<>> \in Seq(Seq(Names)) /\ <<>> \in Seq(Seq(Seq(Names)))
      OBVIOUS
    <3> QED  BY <1>2, <3>1 DEF NoPair, PairType
  <2>3. mark \in Marks
    BY <1>2 DEF Marks
  <2>4. todo \in Seq(Seq(Names)) /\ sec \in Seq(Int)
    BY <1>2
  <2> QED  BY <1>1, <1>2, <2>1, <2>2, <2>3, <2>4, EmptyType, OwnsNone DEF Shape
<1>4. Phases
  BY <1>2 DEF Phases, NoPair
<1>5. PairsKept
  <2>1. PairText(pair) = <<>>
    <3>1. <<>> \o (<<>> \o <<>>) = <<>>
      OBVIOUS
    <3> QED  BY <1>2, <3>1, FlattenNone DEF PairText, NoPair
  <2> QED  BY <1>2, <2>1, SaidNothing DEF PairsKept, NoPair
<1>6. Total(chunks, cur.own, todo) = Read(at)
  BY <1>2, OwnsNone, EmptyType, TotalClosed, ReadNothing
<1> QED  BY <1>3, <1>4, <1>5, <1>6 DEF TextInv, TextKept

\* Nothing changes.
LEMMA TextInvStutters == ASSUME TextInv, UNCHANGED chunkVars PROVE TextInv'
<1>1. UNCHANGED <<doc, method, phase, at, todo, sec, cur, mark, pair, chunks>>
  BY DEF chunkVars
<1>2. Shape /\ at \in 0..Len(doc) /\ pair \in PairType
  BY DEF TextInv, Shape
<1>3. CASE phase = "pairs"
  <2>1. PairsHold(pair', at)
    BY <1>1, <1>3 DEF TextInv, TextKept, PairsKept, PairsHold
  <2> QED  BY <1>1, <1>2, <1>3, <2>1, PairStepKeeps
<1>4. CASE phase # "pairs"
  <2>1. Total(chunks', cur'.own, todo') = Read(at)
    BY <1>1, <1>4 DEF TextInv, TextKept
  <2>2. Phases'
    BY <1>1 DEF TextInv, Phases
  <2> QED  BY <1>1, <1>2, <1>4, <2>1, <2>2, StepKeeps DEF Shape
<1> QED  BY <1>3, <1>4

\* Every step keeps it.
LEMMA TextInvNext == ASSUME TextInv, [ChunkNext]_chunkVars PROVE TextInv'
<1>1. CASE Title      BY <1>1, TitleKeeps
<1>2. CASE Image      BY <1>2, ImageKeeps
<1>3. CASE Item       BY <1>3, ItemKeeps
<1>4. CASE BigTable   BY <1>4, BigTableKeeps
<1>5. CASE Body       BY <1>5, BodyKeeps
<1>6. CASE Join       BY <1>6, JoinKeeps
<1>7. CASE Overflow   BY <1>7, OverflowKeeps
<1>8. CASE EndNaive   BY <1>8, EndNaiveKeeps
<1>9. CASE TableOnly  BY <1>9, TableOnlyKeeps
<1>10. CASE One       BY <1>10, OneKeeps
<1>11. CASE QAQuestion BY <1>11, QAQuestionKeeps
<1>12. CASE QAAnswer  BY <1>12, QAAnswerKeeps
<1>13. CASE SkipTable BY <1>13, SkipTableKeeps
<1>14. CASE EndQA     BY <1>14, EndQAKeeps
<1>15. CASE UNCHANGED chunkVars BY <1>15, TextInvStutters
<1> QED  BY <1>1, <1>2, <1>3, <1>4, <1>5, <1>6, <1>7, <1>8, <1>9, <1>10, <1>11, <1>12, <1>13,
            <1>14, <1>15 DEF ChunkNext

\* It says what NothingLost says, grouped to the right.
LEMMA TextInvKeeps == ASSUME TextInv PROVE NothingLost
<1>1. SUFFICES ASSUME phase # "pairs" PROVE NothingLost
  BY DEF NothingLost
<1>2. PICK x, y, z, S : /\ x = OwnText(chunks) /\ y = cur.own /\ z = FlattenSeq(todo) /\ S = Names
  OBVIOUS
<1>3. x \in Seq(S) /\ y \in Seq(S) /\ z \in Seq(S)
  BY <1>2, OwnsType, FlattenType DEF TextInv, Shape, Opened
<1>4. (x \o y) \o z = x \o (y \o z)
  <2>1. Grouped(x, y, z)
    BY <1>3, Grouping
  <2> QED  BY <2>1 DEF Grouped
<1>5. x \o (y \o z) = Read(at)
  BY <1>1, <1>2 DEF TextInv, TextKept, Total
<1>6. x = FlattenSeq([i \in DOMAIN chunks |-> chunks[i].own])
  BY <1>2 DEF OwnText, OwnsOf
<1>7. Read(at) = FlattenSeq([b \in 1..at |-> IF Due(b) THEN FlattenSeq(TextOf(b)) ELSE <<>>])
  BY DEF Read, Part
<1> QED  BY <1>2, <1>4, <1>5, <1>6, <1>7 DEF NothingLost

\* No sentence of a document that a template is there to keep is lost, given
\* twice or moved, however titles, tables, overlaps and pairs cut the text:
\* NothingLost, for every document, template, token limit and overlap.
THEOREM NoTextIsLost == ChunkSpec => []NothingLost
<1>1. ChunkInit => TextInv
  BY TextInvInit
<1>2. TextInv /\ [ChunkNext]_chunkVars => TextInv'
  BY TextInvNext
<1>3. TextInv => NothingLost
  BY TextInvKeeps
<1> QED  BY <1>1, <1>2, <1>3, PTL DEF ChunkSpec

-----------------------------------------------------------------------------
(* The sentences of a text and their tokens *)

\* The elements of two sequences in a row, and of one.
LEMMA SetOfConcat ==
    ASSUME NEW S, NEW s \in Seq(S), NEW t \in Seq(S)
    PROVE  ToSet(s \o t) = ToSet(s) \cup ToSet(t)
<1>1. PICK m \in Nat, n \in Nat : m = Len(s) /\ n = Len(t) /\ DOMAIN s = 1..m /\ DOMAIN t = 1..n
  OBVIOUS
<1>2. PICK z : z = s \o t
  OBVIOUS
<1>3. DOMAIN z = 1..(m + n) /\ \A i \in 1..(m + n) : z[i] = IF i <= m THEN s[i] ELSE t[i - m]
  <2>1. Follows(z, s, t, m, n)
    BY <1>1, <1>2, ConcatIs
  <2> QED  BY <2>1 DEF Follows
<1>4. ASSUME NEW i \in 1..(m + n) PROVE z[i] \in ToSet(s) \cup ToSet(t)
  <2>1. CASE i <= m
    <3>1. i \in 1..m /\ z[i] = s[i]
      BY <1>3, <2>1
    <3> QED  BY <1>1, <3>1 DEF ToSet
  <2>2. CASE ~(i <= m)
    <3>1. i - m \in 1..n /\ z[i] = t[i - m]
      BY <1>3, <2>2
    <3> QED  BY <1>1, <3>1 DEF ToSet
  <2> QED  BY <2>1, <2>2
<1>5. ASSUME NEW i \in 1..m PROVE s[i] \in ToSet(z)
  <2>1. i \in 1..(m + n) /\ z[i] = s[i]
    BY <1>3
  <2> QED  BY <1>3, <2>1 DEF ToSet
<1>6. ASSUME NEW i \in 1..n PROVE t[i] \in ToSet(z)
  <2>1. m + i \in 1..(m + n) /\ ~(m + i <= m) /\ (m + i) - m = i
    OBVIOUS
  <2>2. z[m + i] = t[i]
    BY <1>3, <2>1
  <2> QED  BY <1>3, <2>1, <2>2 DEF ToSet
<1>7. ToSet(z) \subseteq ToSet(s) \cup ToSet(t)
  BY <1>3, <1>4 DEF ToSet
<1>8. ToSet(s) \cup ToSet(t) \subseteq ToSet(z)
  BY <1>1, <1>5, <1>6 DEF ToSet
<1> QED  BY <1>2, <1>7, <1>8

\* A sequence of one element has that element only.
LEMMA SetOfOne == ASSUME NEW x PROVE ToSet(<<x>>) = {x}
BY DEF ToSet

\* The empty sequence has no element.
LEMMA SetOfNone == ToSet(<<>>) = {}
BY DEF ToSet

\* Appending adds one element.
LEMMA SetOfAppend ==
    ASSUME NEW S, NEW s \in Seq(S), NEW x \in S PROVE ToSet(Append(s, x)) = ToSet(s) \cup {x}
<1>1. PICK t \in Seq(S) : t = <<x>>
  <2>1. <<x>> \in Seq(S)
    OBVIOUS
  <2> QED  BY <2>1
<1>2. Append(s, x) = s \o t
  BY <1>1, AppendIsConcat
<1>3. ToSet(s \o t) = ToSet(s) \cup ToSet(t)
  BY SetOfConcat
<1> QED  BY <1>1, <1>2, <1>3, SetOfOne

\* A sequence that is not empty has a first element and others of its type.
LEMMA SetOfType ==
    ASSUME NEW S, NEW s \in Seq(S)
    PROVE  /\ ToSet(s) \subseteq S
           /\ s # <<>> => s[1] \in ToSet(s) /\ 1 \in DOMAIN s
           /\ ToSet(s) = {} <=> s = <<>>
<1>1. PICK n \in Nat : n = Len(s) /\ DOMAIN s = 1..n
  OBVIOUS
<1>2. ToSet(s) \subseteq S
  BY DEF ToSet
<1>3. s # <<>> => n > 0
  BY <1>1, EmptySeq
<1>4. s # <<>> => 1 \in DOMAIN s
  BY <1>1, <1>3
<1> QED  BY <1>2, <1>4, SetOfNone DEF ToSet

\* The elements of a flattened sequence are those of its elements.
LEMMA SetOfFlatten ==
    ASSUME NEW S, NEW s \in Seq(Seq(S))
    PROVE  ToSet(FlattenSeq(s)) = UNION {ToSet(s[i]) : i \in DOMAIN s}
<1>1. PICK n \in Nat : n = Len(s) /\ DOMAIN s = 1..n
  OBVIOUS
<1>2. PICK p : Concats(p, S, s) /\ FlattenSeq(s) = p[n]
  BY <1>1, FlattenHas
<1>3. /\ \A k \in 0..n : p[k] \in Seq(S)
      /\ p[0] = <<>>
      /\ \A k \in 1..n : p[k] = p[k - 1] \o s[k] /\ s[k] \in Seq(S)
  <2>1. \A k \in 1..n : s[k] \in Seq(S)
    BY <1>1, ElementOfSeq
  <2> QED  BY <1>1, <1>2, <2>1 DEF Concats
<1> DEFINE U(k) == UNION {ToSet(s[i]) : i \in 1..k}
           G == {k \in 0..n : ToSet(p[k]) = U(k)}
<1>4. 0 \in G
  <2>1. U(0) = {}
    OBVIOUS
  <2> QED  BY <1>3, <2>1, SetOfNone
<1>5. ASSUME NEW k \in 1..n, k - 1 \in G PROVE k \in G
  <2>1. k - 1 \in 0..n /\ k \in 0..n
    OBVIOUS
  <2>2. PICK x \in Seq(S), y \in Seq(S) : x = p[k - 1] /\ y = s[k]
    BY <1>3, <2>1
  <2>3. ToSet(p[k]) = ToSet(x) \cup ToSet(y)
    <3>1. ToSet(x \o y) = ToSet(x) \cup ToSet(y)
      BY SetOfConcat
    <3> QED  BY <1>3, <2>2, <3>1
  <2>4. U(k) = U(k - 1) \cup ToSet(s[k])
    <3>1. 1..k = (1..(k - 1)) \cup {k}
      OBVIOUS
    <3> QED  BY <3>1
  <2>5. ToSet(p[k - 1]) = U(k - 1)
    BY <1>5
  <2> HIDE DEF U
  <2> QED  BY <2>1, <2>2, <2>3, <2>4, <2>5
<1>6. n \in G
  <2> HIDE DEF G
  <2>1. \A k \in 0..n : k \in G
    BY <1>4, <1>5, StepByStep
  <2> QED  BY <2>1
<1> QED  BY <1>1, <1>2, <1>6

\* What TokenCount adds up is given by its steps.
LEMMA CountBy ==
    ASSUME doc \in Seq(Kinds), NEW s \in Seq(Names), NEW n \in Nat, n = Len(s), NEW g,
           g[0] = 0, \A k \in 1..n : g[k] = g[k - 1] + Weight(s[k])
    PROVE  TokenCount(s) = g[n]
<1>1. PICK f : Counts(f, s, n)
  BY CountIs
<1> USE DEF Counts
<1> DEFINE G == {k \in 0..n : f[k] = g[k]}
<1>2. 0 \in G
  BY <1>1
<1>3. ASSUME NEW k \in 1..n, k - 1 \in G PROVE k \in G
  BY <1>1, <1>3
<1>4. n \in G
  <2> HIDE DEF G
  <2>1. \A k \in 0..n : k \in G
    BY <1>2, <1>3, StepByStep
  <2> QED  BY <2>1
<1> QED  BY <1>1, <1>4

\* Of no text, of a sentence, and of two texts in a row.
LEMMA CountNone == ASSUME doc \in Seq(Kinds) PROVE TokenCount(<<>>) = 0
<1>1. <<>> \in Seq(Names) /\ Len(<<>>) = 0
  OBVIOUS
<1>2. PICK f : Counts(f, <<>>, 0)
  BY <1>1, CountIs
<1> QED  BY <1>2 DEF Counts

\* A sentence alone counts the tokens it has.
LEMMA CountOne ==
    ASSUME doc \in Seq(Kinds), NEW x \in Names PROVE TokenCount(<<x>>) = Weight(x)
<1>1. PICK s : s = <<x>>
  OBVIOUS
<1>2. s \in Seq(Names) /\ Len(s) = 1 /\ s[1] = x
  BY <1>1
<1>3. PICK f : Counts(f, s, 1)
  BY <1>2, CountIs
<1>4. f[1] = 0 + Weight(x)
  <2>1. 1 \in 1..1 /\ 1 - 1 = 0
    OBVIOUS
  <2>2. f[0] = 0 /\ f[1] = f[1 - 1] + Weight(s[1])
    BY <1>3, <2>1 DEF Counts
  <2> QED  BY <1>2, <2>1, <2>2
<1>5. Weight(x) \in Nat
  BY WeightType
<1>6. TokenCount(s) = f[1]
  BY <1>3 DEF Counts
<1>7. 0 + Weight(x) = Weight(x)
  BY <1>5
<1> QED  BY <1>1, <1>4, <1>6, <1>7

\* Two texts in a row have the tokens of both.
LEMMA CountConcat ==
    ASSUME doc \in Seq(Kinds), NEW s \in Seq(Names), NEW t \in Seq(Names)
    PROVE  TokenCount(s \o t) = TokenCount(s) + TokenCount(t)
<1>1. PICK m \in Nat, n \in Nat : m = Len(s) /\ n = Len(t)
  OBVIOUS
<1>2. PICK z : z = s \o t
  OBVIOUS
<1>3. /\ z \in Seq(Names) /\ Len(z) = m + n
      /\ \A i \in 1..(m + n) : z[i] = IF i <= m THEN s[i] ELSE t[i - m]
  <2>1. z \in Seq(Names) /\ Follows(z, s, t, m, n)
    BY <1>1, <1>2, ConcatIs
  <2> QED  BY <2>1 DEF Follows
<1>4. PICK f : Counts(f, s, m)
  BY <1>1, CountIs
<1>5. PICK g : Counts(g, t, n)
  BY <1>1, CountIs
<1> USE DEF Counts
<1>6. PICK h : h = [k \in 0..(m + n) |-> IF k <= m THEN f[k] ELSE f[m] + g[k - m]]
  OBVIOUS
<1>7. h[0] = 0
  BY <1>4, <1>6
<1>8. ASSUME NEW k \in 1..(m + n) PROVE h[k] = h[k - 1] + Weight(z[k])
  <2>1. k \in 0..(m + n) /\ k - 1 \in 0..(m + n)
    OBVIOUS
  <2>2. CASE k <= m
    <3>1. k \in 1..m /\ k - 1 <= m
      BY <2>2
    <3>2. h[k] = f[k] /\ h[k - 1] = f[k - 1]
      BY <1>6, <2>1, <2>2, <3>1
    <3>3. z[k] = s[k]
      BY <1>3, <2>2
    <3> QED  BY <1>4, <3>1, <3>2, <3>3
  <2>3. CASE k > m
    <3>1. k - m \in 1..n /\ k - m \in 0..n /\ (k - m) - 1 \in 0..n /\ ~(k <= m)
      BY <2>3
    <3>2. PICK j \in 1..n : j = k - m
      BY <3>1
    <3>3. h[k] = f[m] + g[j]
      BY <1>6, <2>1, <3>1, <3>2
    <3>4. h[k - 1] = f[m] + g[j - 1]
      <4>1. CASE k - 1 = m
        <5>1. j - 1 = 0 /\ k - 1 <= m
          BY <3>2, <4>1
        <5>2. h[k - 1] = f[m]
          BY <1>6, <2>1, <4>1, <5>1
        <5>3. m \in 0..m
          OBVIOUS
        <5>4. f[m] \in Nat
          BY <1>4, <5>3
        <5> QED  BY <1>5, <5>1, <5>2, <5>4
      <4>2. CASE k - 1 # m
        <5>1. ~(k - 1 <= m) /\ (k - 1) - m = j - 1
          BY <2>3, <3>2, <4>2
        <5> QED  BY <1>6, <2>1, <5>1
      <4> QED  BY <4>1, <4>2
    <3>5. g[j] = g[j - 1] + Weight(t[j])
      BY <1>5
    <3>6. z[k] = t[j]
      BY <1>3, <3>1, <3>2
    <3>7. f[m] \in Nat /\ g[j - 1] \in Nat /\ Weight(t[j]) \in Nat
      <4>1. m \in 0..m /\ j - 1 \in 0..n
        OBVIOUS
      <4>2. t[j] \in Names
        BY <1>1, ElementOfSeq
      <4> QED  BY <1>4, <1>5, <4>1, <4>2, WeightType
    <3> QED  BY <3>3, <3>4, <3>5, <3>6, <3>7
  <2> QED  BY <2>2, <2>3
<1>9. TokenCount(z) = h[m + n]
  <2>1. PICK l \in Nat : l = m + n
    OBVIOUS
  <2>2. l = Len(z) /\ \A k \in 1..l : h[k] = h[k - 1] + Weight(z[k])
    BY <1>3, <1>8, <2>1
  <2>3. TokenCount(z) = h[l]
    BY <1>3, <1>7, <2>2, CountBy
  <2> QED  BY <2>1, <2>3
<1>10. h[m + n] = f[m] + g[n]
  <2>1. m + n \in 0..(m + n) /\ (m + n) - m = n /\ m \in 0..m /\ 0 \in 0..n
    OBVIOUS
  <2>2. CASE n = 0
    BY <1>4, <1>5, <1>6, <2>1, <2>2
  <2>3. CASE n # 0
    BY <1>6, <2>1, <2>3
  <2> QED  BY <2>2, <2>3
<1> QED  BY <1>2, <1>4, <1>5, <1>9, <1>10

\* A text has as many tokens as each of its sentences, at least.
LEMMA CountBounds ==
    ASSUME doc \in Seq(Kinds), NEW s \in Seq(Names), NEW x \in ToSet(s)
    PROVE  Weight(x) \in Nat /\ Weight(x) <= TokenCount(s)
<1>1. PICK n \in Nat : n = Len(s) /\ DOMAIN s = 1..n
  OBVIOUS
<1>2. PICK i \in 1..n : x = s[i]
  BY <1>1 DEF ToSet
<1>3. \A k \in 1..n : Weight(s[k]) \in Nat
  BY <1>1, WeightType
<1>4. PICK f : Counts(f, s, n)
  BY <1>1, CountIs
<1> USE DEF Counts
<1> DEFINE G == {k \in 0..n : k >= i => Weight(x) <= f[k]}
<1>5. 0 \in G
  OBVIOUS
<1>6. ASSUME NEW k \in 1..n, k - 1 \in G PROVE k \in G
  <2>1. k - 1 \in 0..n /\ k \in 0..n /\ f[k - 1] \in Nat /\ f[k] = f[k - 1] + Weight(s[k])
    <3>1. k - 1 \in 0..n /\ k \in 0..n
      OBVIOUS
    <3> QED  BY <1>4, <3>1
  <2>2. Weight(s[k]) \in Nat /\ Weight(x) \in Nat
    BY <1>2, <1>3
  <2>3. CASE k = i
    BY <1>2, <2>1, <2>2, <2>3
  <2>4. CASE k > i
    <3>1. Weight(x) <= f[k - 1]
      BY <1>6, <2>4
    <3> QED  BY <2>1, <2>2, <3>1
  <2>5. CASE k < i
    BY <2>1, <2>5
  <2> QED  BY <2>3, <2>4, <2>5
<1>7. n \in G
  <2> HIDE DEF G
  <2>1. \A k \in 0..n : k \in G
    BY <1>5, <1>6, StepByStep
  <2> QED  BY <2>1
<1> QED  BY <1>2, <1>3, <1>4, <1>7

-----------------------------------------------------------------------------
(* How a text is cut into pieces *)

\* A text is within the limit or as long as one of its sentences.
Fitting(s) ==
    \/ TokenCount(s) <= MaxTokens
    \/ \E x \in ToSet(s) : Weight(x) > MaxTokens /\ TokenCount(s) = Weight(x)

\* splitPiece makes no empty piece and none that could be cut again.
PieceOK(s) == s # <<>> /\ Fitting(s)
Packing ==
    {p \in Cutting : /\ p.tokens = TokenCount(p.open) /\ Fitting(p.open)
                     /\ \A i \in DOMAIN p.out : PieceOK(p.out[i])}

\* The limit is a positive number, and the longest overlap is a number.
LEMMA MaxTokensType == MaxTokens \in Nat /\ MaxTokens >= 1 /\ MaxLap \in Nat
<1>1. MaxTokens \in Nat /\ MaxTokens >= 1
  BY ConfigAssumption DEF MaxTokens
<1>2. Overlap \in 0..30
  BY ConfigAssumption DEF Overlap
<1>3. PICK n \in Nat : n = MaxTokens * Overlap
  BY <1>1, <1>2
<1>4. n \div 100 \in Nat
  OBVIOUS
<1>5. TailRunes \in Nat
  BY <1>3, <1>4 DEF TailRunes
<1>6. MaxLap \in Nat
  BY <1>5 DEF MaxLap
<1> QED  BY <1>1, <1>6

\* The open piece and those that are done.
LEMMA PackingIs ==
    ASSUME NEW p
    PROVE  p \in Packing <=> /\ p \in Cutting /\ p.tokens = TokenCount(p.open) /\ Fitting(p.open)
                            /\ \A i \in DOMAIN p.out : PieceOK(p.out[i])
BY DEF Packing

\* No text fits and has no tokens.
LEMMA FittingNone == ASSUME doc \in Seq(Kinds) PROVE Fitting(<<>>) /\ TokenCount(<<>>) = 0
BY CountNone, MaxTokensType DEF Fitting

\* A piece put after others.
LEMMA PiecesAppend ==
    ASSUME NEW ps \in Seq(Seq(Names)), NEW x \in Seq(Names), PieceOK(x),
           \A i \in DOMAIN ps : PieceOK(ps[i]), NEW t, t = Append(ps, x)
    PROVE  \A i \in DOMAIN t : PieceOK(t[i])
<1>1. PICK n, T : n \in Nat /\ n = Len(ps) /\ DOMAIN ps = 1..n /\ T = Seq(Names)
  OBVIOUS
<1>2. ps \in Seq(T) /\ x \in T
  BY <1>1
<1>3. t \in Seq(T) /\ Len(t) = n + 1 /\ t[n + 1] = x /\ \A i \in 1..n : t[i] = ps[i]
  BY <1>1, <1>2, AppendProperties
<1>4. DOMAIN t = 1..(n + 1)
  BY <1>3
<1>5. \A i \in 1..(n + 1) : i = n + 1 \/ i \in 1..n
  BY <1>1
<1> QED  BY <1>1, <1>3, <1>4, <1>5

\* splitPiece starts with nothing cut.
LEMMA NoPiecesPack == ASSUME doc \in Seq(Kinds) PROVE NoPieces \in Packing
<1>1. NoPieces.out = <<>> /\ NoPieces.open = <<>> /\ NoPieces.tokens = 0
  BY DEF NoPieces
<1>2. \A i \in DOMAIN NoPieces.out : PieceOK(NoPieces.out[i])
  BY <1>1
<1> QED  BY <1>1, <1>2, NoPiecesHold, FittingNone, PackingIs

\* The open piece is done.
LEMMA DonePacks ==
    ASSUME doc \in Seq(Kinds), NEW p \in Packing
    PROVE  Done(p) \in Packing /\ Done(p).tokens = 0
<1>1. /\ p \in Cutting /\ p.tokens = TokenCount(p.open) /\ Fitting(p.open)
      /\ \A i \in DOMAIN p.out : PieceOK(p.out[i])
  BY PackingIs
<1>2. p.tokens \in Nat /\ p.out \in Seq(Seq(Names)) /\ p.open \in Seq(Names)
  BY <1>1 DEF Cutting
<1>3. CASE p.tokens > 0
  <2>1. Done(p) = [out |-> Append(p.out, p.open), open |-> <<>>, tokens |-> 0]
    BY <1>3 DEF Done, NoPieces
  <2>2. Done(p).out = Append(p.out, p.open) /\ Done(p).open = <<>> /\ Done(p).tokens = 0
    BY <2>1
  <2>3. PieceOK(p.open)
    <3>1. p.open # <<>>
      BY <1>1, <1>3, FittingNone
    <3> QED  BY <1>1, <3>1 DEF PieceOK
  <2>4. \A i \in DOMAIN Done(p).out : PieceOK(Done(p).out[i])
    BY <1>1, <1>2, <2>2, <2>3, PiecesAppend
  <2>5. Done(p) \in Cutting
    BY <1>1, DoneHolds
  <2> QED  BY <2>2, <2>4, <2>5, FittingNone, PackingIs
<1>4. CASE ~(p.tokens > 0)
  BY <1>2, <1>4 DEF Done
<1> QED  BY <1>3, <1>4

\* A text within the limit, or a sentence, goes into the open piece.
LEMMA AddTextPacks ==
    ASSUME doc \in Seq(Kinds), NEW p \in Packing, NEW u \in Seq(Names),
           TokenCount(u) <= MaxTokens \/ \E x \in Names : u = <<x>>
    PROVE  AddText(p, u) \in Packing
<1>1. TokenCount(u) \in Nat
  BY CountType
<1>2. PICK q \in Packing :
        /\ \/ q.tokens = 0
           \/ q.tokens + TokenCount(u) <= MaxTokens
        /\ AddText(p, u) = More(q, u, TokenCount(u))
  <2>1. p.tokens \in Nat /\ MaxTokens \in Nat
    BY PackingIs, MaxTokensType DEF Cutting
  <2>2. CASE p.tokens + TokenCount(u) > MaxTokens
    BY <2>2, DonePacks DEF AddText, More
  <2>3. CASE ~(p.tokens + TokenCount(u) > MaxTokens)
    <3>1. p.tokens + TokenCount(u) <= MaxTokens
      BY <1>1, <2>1, <2>3
    <3> QED  BY <2>3, <3>1 DEF AddText, More
  <2> QED  BY <2>2, <2>3
<1>3. /\ q \in Cutting /\ q.tokens = TokenCount(q.open) /\ Fitting(q.open)
      /\ \A i \in DOMAIN q.out : PieceOK(q.out[i])
  BY <1>2, PackingIs
<1>4. PICK r : r = More(q, u, TokenCount(u))
  OBVIOUS
<1>5. r \in Cutting /\ r.out = q.out /\ r.open = q.open \o u /\ r.tokens = q.tokens + TokenCount(u)
  <2>1. r \in Cutting
    BY <1>1, <1>3, <1>4, OpenPieceGrows
  <2>2. r = [q EXCEPT !.open = q.open \o u, !.tokens = q.tokens + TokenCount(u)]
    BY <1>4 DEF More
  <2> QED  BY <1>3, <2>1, <2>2 DEF Cutting
<1>6. q.open \in Seq(Names) /\ q.tokens \in Nat
  BY <1>3 DEF Cutting
<1>7. r.tokens = TokenCount(r.open)
  BY <1>3, <1>5, <1>6, CountConcat
<1>8. Fitting(r.open)
  <2>1. CASE r.tokens <= MaxTokens
    BY <1>7, <2>1 DEF Fitting
  <2>2. CASE ~(r.tokens <= MaxTokens)
    <3>1. q.tokens = 0 /\ r.tokens = TokenCount(u) /\ TokenCount(u) > MaxTokens
      BY <1>1, <1>2, <1>5, <1>6, <2>2, MaxTokensType
    <3>2. PICK x \in Names : u = <<x>>
      BY <1>1, <3>1, MaxTokensType
    <3>3. TokenCount(u) = Weight(x)
      BY <3>2, CountOne
    <3>4. x \in ToSet(r.open)
      <4>1. ToSet(r.open) = ToSet(q.open) \cup ToSet(u)
        BY <1>5, <1>6, SetOfConcat
      <4> QED  BY <3>2, <4>1, SetOfOne
    <3> QED  BY <1>7, <3>1, <3>3, <3>4 DEF Fitting
  <2> QED  BY <2>1, <2>2
<1> QED  BY <1>2, <1>3, <1>4, <1>5, <1>7, <1>8, PackingIs

\* A paragraph.
LEMMA AddParagraphPacks ==
    ASSUME doc \in Seq(Kinds), NEW p \in Packing, NEW para \in Seq(Names)
    PROVE  AddParagraph(p, para) \in Packing
<1>1. CASE TokenCount(para) <= MaxTokens
  BY <1>1, AddTextPacks DEF AddParagraph
<1>2. CASE ~(TokenCount(para) <= MaxTokens)
  <2>1. PICK n \in Nat : n = Len(para)
    OBVIOUS
  <2>2. PICK c \in Cutting : c = p
    BY PackingIs
  <2>3. PICK f : /\ f[0] = Done(c)
                 /\ \A k \in 1..n : f[k] = AddText(f[k - 1], <<para[k]>>)
                 /\ AddParagraph(c, para) = f[n]
    BY <1>2, <2>1, AddParagraphIs
  <2>4. f[0] \in Packing
    BY <2>2, <2>3, DonePacks
  <2>5. ASSUME NEW k \in 1..n, f[k - 1] \in Packing PROVE f[k] \in Packing
    <3>1. PICK x \in Names : x = para[k]
      BY <2>1
    <3>2. <<x>> \in Seq(Names)
      OBVIOUS
    <3> QED  BY <2>3, <2>5, <3>1, <3>2, AddTextPacks
  <2> DEFINE G == {k \in 0..n : f[k] \in Packing}
  <2>6. 0 \in G
    BY <2>4
  <2>7. ASSUME NEW k \in 1..n, k - 1 \in G PROVE k \in G
    BY <2>5, <2>7
  <2>8. n \in G
    <3> HIDE DEF G
    <3>1. \A k \in 0..n : k \in G
      BY <2>6, <2>7, StepByStep
    <3> QED  BY <3>1
  <2> QED  BY <2>2, <2>3, <2>8
<1> QED  BY <1>1, <1>2

\* All paragraphs.
LEMMA PackedPacks ==
    ASSUME doc \in Seq(Kinds), NEW text \in Seq(Seq(Names)) PROVE Packed(text) \in Packing
<1>1. PICK n \in Nat : n = Len(text)
  OBVIOUS
<1>2. PICK f : /\ f[0] = NoPieces
               /\ \A k \in 1..n : f[k] = AddParagraph(f[k - 1], text[k])
               /\ Packed(text) = f[n]
  BY <1>1, PackedIs
<1>3. f[0] \in Packing
  BY <1>2, NoPiecesPack
<1>4. ASSUME NEW k \in 1..n, f[k - 1] \in Packing PROVE f[k] \in Packing
  <2>1. text[k] \in Seq(Names)
    BY <1>1
  <2> QED  BY <1>2, <1>4, <2>1, AddParagraphPacks
<1> DEFINE G == {k \in 0..n : f[k] \in Packing}
<1>5. 0 \in G
  BY <1>3
<1>6. ASSUME NEW k \in 1..n, k - 1 \in G PROVE k \in G
  BY <1>4, <1>6
<1>7. n \in G
  <2> HIDE DEF G
  <2>1. \A k \in 0..n : k \in G
    BY <1>5, <1>6, StepByStep
  <2> QED  BY <2>1
<1> QED  BY <1>2, <1>7

\* The pieces of a text are not empty, cannot be cut again, and are of the text.
LEMMA SplitPieceCuts ==
    ASSUME doc \in Seq(Kinds), NEW text \in Seq(Seq(Names)), FlattenSeq(text) # <<>>,
           NEW i \in DOMAIN SplitPiece(text)
    PROVE  PieceOK(SplitPiece(text)[i]) /\ ToSet(SplitPiece(text)[i]) \subseteq ToSet(FlattenSeq(text))
<1>1. PICK whole \in Seq(Names) : whole = FlattenSeq(text)
  BY FlattenType
<1>2. PICK ps \in Seq(Seq(Names)) : ps = SplitPiece(text) /\ FlattenSeq(ps) = whole
  BY <1>1, SplitPieceKeeps
<1>3. ToSet(ps[i]) \subseteq ToSet(whole)
  <2>1. ToSet(FlattenSeq(ps)) = UNION {ToSet(ps[j]) : j \in DOMAIN ps}
    BY SetOfFlatten
  <2> QED  BY <1>2, <2>1
<1>4. PieceOK(ps[i])
  <2>1. CASE TokenCount(whole) <= MaxTokens
    <3>1. ps = <<whole>>
      BY <1>1, <1>2, <2>1 DEF SplitPiece
    <3>2. ps[i] = whole
      BY <1>2, <3>1
    <3> QED  BY <1>1, <2>1, <3>2 DEF PieceOK, Fitting
  <2>2. CASE ~(TokenCount(whole) <= MaxTokens)
    <3>1. PICK p : p = Packed(text) /\ p \in Packing
      BY PackedPacks
    <3>2. /\ p \in Cutting /\ Fitting(p.open)
          /\ \A j \in DOMAIN p.out : PieceOK(p.out[j])
      BY <3>1, PackingIs
    <3>3. CASE p.open = <<>>
      <4>1. ps = p.out
        BY <1>1, <1>2, <2>2, <3>1, <3>3 DEF SplitPiece
      <4> QED  BY <1>2, <3>2, <4>1
    <3>4. CASE p.open # <<>>
      <4>1. ps = Append(p.out, p.open)
        BY <1>1, <1>2, <2>2, <3>1, <3>4 DEF SplitPiece
      <4>2. p.out \in Seq(Seq(Names)) /\ p.open \in Seq(Names) /\ PieceOK(p.open)
        BY <3>2, <3>4 DEF Cutting, PieceOK
      <4>3. \A j \in DOMAIN ps : PieceOK(ps[j])
        BY <3>2, <4>1, <4>2, PiecesAppend
      <4> QED  BY <1>2, <4>3
    <3> QED  BY <3>3, <3>4
  <2> QED  BY <2>1, <2>2
<1> QED  BY <1>1, <1>2, <1>3, <1>4

-----------------------------------------------------------------------------
(* How a table is cut into pieces *)

\* All of a text is in one line of a block after the header.
OneRow(s, b) == \E j \in Nat : j > 2 /\ \A x \in ToSet(s) : x[1] = b /\ x[2] = j

\* What rows are put together: within the limit with the header, or one row.
RowsOK(s, header, b) ==
    /\ s # <<>> /\ \A x \in ToSet(s) : x[1] = b /\ x[2] > 2
    /\ TokenCount(header) + TokenCount(s) <= MaxTokens \/ OneRow(s, b)

RowPacks(header, b) ==
    {p \in Cutting : /\ p.tokens = TokenCount(header) + TokenCount(p.open)
                     /\ p.open = <<>> \/ RowsOK(p.open, header, b)
                     /\ \A i \in DOMAIN p.out : RowsOK(p.out[i], header, b)}

\* What it means for rows to be put together under a header.
LEMMA RowPackIs ==
    ASSUME NEW p, NEW header, NEW b
    PROVE  p \in RowPacks(header, b) <=>
             /\ p \in Cutting /\ p.tokens = TokenCount(header) + TokenCount(p.open)
             /\ p.open = <<>> \/ RowsOK(p.open, header, b)
             /\ \A i \in DOMAIN p.out : RowsOK(p.out[i], header, b)
BY DEF RowPacks

\* Rows that are all right go on being so when one more is cut off.
LEMMA RowsAppend ==
    ASSUME NEW ps \in Seq(Seq(Names)), NEW x \in Seq(Names), NEW header, NEW b, RowsOK(x, header, b),
           \A i \in DOMAIN ps : RowsOK(ps[i], header, b), NEW t, t = Append(ps, x)
    PROVE  \A i \in DOMAIN t : RowsOK(t[i], header, b)
<1>1. PICK n, T : n \in Nat /\ n = Len(ps) /\ DOMAIN ps = 1..n /\ T = Seq(Names)
  OBVIOUS
<1>2. ps \in Seq(T) /\ x \in T
  BY <1>1
<1>3. t \in Seq(T) /\ Len(t) = n + 1 /\ t[n + 1] = x /\ \A i \in 1..n : t[i] = ps[i]
  BY <1>1, <1>2, AppendProperties
<1>4. DOMAIN t = 1..(n + 1)
  BY <1>3
<1>5. \A i \in 1..(n + 1) : i = n + 1 \/ i \in 1..n
  BY <1>1
<1> QED  BY <1>1, <1>3, <1>4, <1>5

\* A row of a table that has it as one of its lines.
LEMMA AddRowPacks ==
    ASSUME doc \in Seq(Kinds), NEW header \in Seq(Names), NEW b, NEW p \in RowPacks(header, b),
           NEW row \in Seq(Names), row # <<>>, OneRow(row, b)
    PROVE  AddRow(p, row, header) \in RowPacks(header, b) /\ AddRow(p, row, header).open # <<>>
<1>1. TokenCount(row) \in Nat /\ TokenCount(header) \in Nat
  BY CountType
<1>2. /\ p \in Cutting /\ p.tokens = TokenCount(header) + TokenCount(p.open)
      /\ p.open = <<>> \/ RowsOK(p.open, header, b)
      /\ \A i \in DOMAIN p.out : RowsOK(p.out[i], header, b)
  BY RowPackIs
<1>3. p.out \in Seq(Seq(Names)) /\ p.open \in Seq(Names) /\ p.tokens \in Nat
  BY <1>2 DEF Cutting
<1>4. RowsOK(row, header, b)
  <2>1. \A x \in ToSet(row) : x[1] = b /\ x[2] > 2
    BY DEF OneRow
  <2> QED  BY <2>1 DEF RowsOK
<1>5. PICK r : r = AddRow(p, row, header)
  OBVIOUS
<1>6. r \in Cutting
  BY <1>2, <1>5, AddRowHolds
<1>7. CASE p.tokens + TokenCount(row) > MaxTokens /\ p.open # <<>>
  <2>1. r = [out |-> Append(p.out, p.open), open |-> row, tokens |-> TokenCount(header) + TokenCount(row)]
    BY <1>5, <1>7 DEF AddRow
  <2>2. r.out = Append(p.out, p.open) /\ r.open = row /\ r.tokens = TokenCount(header) + TokenCount(row)
    BY <2>1
  <2>3. \A i \in DOMAIN r.out : RowsOK(r.out[i], header, b)
    BY <1>2, <1>3, <1>7, <2>2, RowsAppend
  <2>4. r \in RowPacks(header, b)
    BY <1>4, <1>6, <2>2, <2>3, RowPackIs
  <2> QED  BY <1>5, <2>2, <2>4
<1>8. CASE ~(p.tokens + TokenCount(row) > MaxTokens /\ p.open # <<>>)
  <2>1. r = [p EXCEPT !.open = p.open \o row, !.tokens = p.tokens + TokenCount(row)]
    BY <1>5, <1>8 DEF AddRow
  <2>2. r.out = p.out /\ r.open = p.open \o row /\ r.tokens = p.tokens + TokenCount(row)
    BY <1>2, <2>1 DEF Cutting
  <2>3. ToSet(r.open) = ToSet(p.open) \cup ToSet(row)
    BY <1>3, <2>2, SetOfConcat
  <2>4. r.open # <<>>
    <3>1. ToSet(row) # {}
      BY SetOfType
    <3> QED  BY <2>3, <3>1, SetOfNone
  <2>5. TokenCount(r.open) = TokenCount(p.open) + TokenCount(row)
    BY <1>3, <2>2, CountConcat
  <2>6. TokenCount(p.open) \in Nat
    BY <1>3, CountType
  <2>7. r.tokens = TokenCount(header) + TokenCount(r.open)
    BY <1>1, <1>2, <2>2, <2>5, <2>6
  <2>8. RowsOK(r.open, header, b)
    <3>1. CASE p.open = <<>>
      <4>1. r.open = row
        BY <2>2, <3>1, ConcatEmptySeq
      <4> QED  BY <1>4, <4>1
    <3>2. CASE p.open # <<>>
      <4>1. \A x \in ToSet(r.open) : x[1] = b /\ x[2] > 2
        BY <1>2, <1>4, <2>3, <3>2 DEF RowsOK
      <4>2. r.tokens <= MaxTokens
        BY <1>1, <1>3, <1>8, <2>2, <3>2, MaxTokensType
      <4> QED  BY <2>4, <2>7, <4>1, <4>2 DEF RowsOK
    <3> QED  BY <3>1, <3>2
  <2>9. r \in RowPacks(header, b)
    BY <1>2, <1>6, <2>2, <2>7, <2>8, RowPackIs
  <2> QED  BY <1>5, <2>4, <2>9
<1> QED  BY <1>7, <1>8

-----------------------------------------------------------------------------
(* Pieces of a block *)

\* The lines of a block have sentences of this block and line, and some line has one.
LEMMA BlockLines ==
    ASSUME doc \in Seq(Kinds), NEW b \in 1..Len(doc)
    PROVE  /\ DOMAIN TextOf(b) = DOMAIN doc[b].text
           /\ \A j \in DOMAIN TextOf(b) :
                /\ j \in Nat
                /\ ToSet(TextOf(b)[j]) = {<<b, j, h>> : h \in DOMAIN doc[b].text[j]}
                /\ TextOf(b)[j] \in Seq(Names)
                /\ doc[b].type = "table" => TextOf(b)[j] # <<>>
           /\ \E j \in DOMAIN TextOf(b) : TextOf(b)[j] # <<>>
<1>1. doc[b] \in Kinds
  OBVIOUS
<1>2. PICK t : t \in Seq(Seq(Nat)) /\ t = doc[b].text
  BY <1>1, KindsAssumption
<1>3. PICK u : u = TextOf(b) /\ u \in Seq(Seq(Names))
  BY BlockText
<1>4. u = [j \in DOMAIN t |-> [k \in DOMAIN t[j] |-> <<b, j, k>>]]
  BY <1>2, <1>3 DEF TextOf
<1>5. ASSUME NEW j \in DOMAIN t
      PROVE  /\ ToSet(u[j]) = {<<b, j, h>> : h \in DOMAIN t[j]}
             /\ t[j] # <<>> => u[j] # <<>>
  <2>1. u[j] = [k \in DOMAIN t[j] |-> <<b, j, k>>]
    BY <1>4
  <2>2. DOMAIN u[j] = DOMAIN t[j] /\ \A k \in DOMAIN t[j] : u[j][k] = <<b, j, k>>
    BY <2>1
  <2>3. ToSet(u[j]) = {<<b, j, h>> : h \in DOMAIN t[j]}
    BY <2>2 DEF ToSet
  <2>4. ASSUME t[j] # <<>> PROVE u[j] # <<>>
    <3>1. t[j] \in Seq(Nat)
      BY <1>2
    <3>2. PICK x : x \in Seq(Nat) /\ x = t[j]
      BY <3>1
    <3>3. 1 \in DOMAIN x
      BY <2>4, <3>2, SetOfType
    <3>4. <<b, j, 1>> \in ToSet(u[j])
      BY <2>3, <3>2, <3>3
    <3> QED  BY <3>4, SetOfNone
  <2> QED  BY <2>3, <2>4
<1>6. \E j \in DOMAIN t : t[j] # <<>>
  BY <1>1, <1>2, TextsAssumption
<1>7. doc[b].type = "table" => \A j \in DOMAIN t : t[j] # <<>>
  BY <1>1, <1>2, TextsAssumption
<1>8. DOMAIN u = DOMAIN t
  BY <1>4
<1>9. \A j \in DOMAIN u : j \in Nat /\ u[j] \in Seq(Names)
  BY <1>3
<1> QED  BY <1>2, <1>3, <1>5, <1>6, <1>7, <1>8, <1>9

\* All sentences of a block are of it, and there are some.
LEMMA BlockWhole ==
    ASSUME doc \in Seq(Kinds), NEW b \in 1..Len(doc), NEW whole, whole = FlattenSeq(TextOf(b))
    PROVE  /\ whole \in Seq(Names) /\ whole # <<>>
           /\ \A x \in ToSet(whole) : x[1] = b
           /\ \A j \in DOMAIN TextOf(b) : ToSet(TextOf(b)[j]) \subseteq ToSet(whole)
           /\ \A x \in ToSet(whole) : x[2] \in DOMAIN TextOf(b)
<1>1. PICK u : u = TextOf(b) /\ u \in Seq(Seq(Names)) /\ whole \in Seq(Names)
  BY BlockText
<1>2. /\ \A j \in DOMAIN u : /\ u[j] \in Seq(Names)
                             /\ ToSet(u[j]) = {<<b, j, h>> : h \in DOMAIN doc[b].text[j]}
      /\ \E j \in DOMAIN u : u[j] # <<>>
  BY <1>1, BlockLines
<1>3. ToSet(whole) = UNION {ToSet(u[j]) : j \in DOMAIN u}
  BY <1>1, SetOfFlatten
<1>4. PICK j \in DOMAIN u : u[j] # <<>>
  BY <1>2
<1>5. PICK x : x \in ToSet(u[j])
  <2>1. ToSet(u[j]) # {}
    BY <1>2, <1>4, SetOfType
  <2> QED  BY <2>1
<1>6. whole # <<>>
  BY <1>3, <1>5, SetOfNone
<1>7. ASSUME NEW y \in ToSet(whole) PROVE y[1] = b /\ y[2] \in DOMAIN u
  <2>1. PICK i \in DOMAIN u : y \in ToSet(u[i])
    BY <1>3
  <2>2. PICK h : y = <<b, i, h>>
    BY <1>2, <2>1
  <2> QED  BY <2>2
<1> QED  BY <1>1, <1>3, <1>6, <1>7

\* A piece of a table: within the limit, one sentence beyond it or one row, and
\* its rows with the header.
OneRowOf(own, b) ==
    \E j \in Nat : /\ j > 2 /\ \E x \in ToSet(own) : x[2] = j
                   /\ \A x \in ToSet(own) : x[1] = b /\ (x[2] > 2 => x[2] = j)

TablePiece(p, b) ==
    /\ p.own # <<>> /\ \A x \in ToSet(p.own) : x[1] = b
    /\ \A x \in ToSet(p.own) : x[2] > 2 => ToSet(TextOf(b)[1]) \subseteq ToSet(p.own) \cup ToSet(p.head)
    /\ \/ TokenCount(p.head) + TokenCount(p.own) <= MaxTokens
       \/ p.head = <<>> /\ Fitting(p.own)
       \/ OneRowOf(p.own, b)

\* Rows are a part of the table with the header before it, or that the header
\* is repeated for.
LEMMA RowsArePiece ==
    ASSUME doc \in Seq(Kinds), NEW b, NEW header \in Seq(Names), NEW s \in Seq(Names),
           RowsOK(s, header, b), ToSet(TextOf(b)[1]) \subseteq ToSet(header),
           \A x \in ToSet(header) : x[1] = b /\ x[2] \in {1, 2}
    PROVE  /\ TablePiece([own |-> s, head |-> header], b)
           /\ TablePiece([own |-> header \o s, head |-> <<>>], b)
<1>1. /\ s # <<>> /\ \A x \in ToSet(s) : x[1] = b /\ x[2] > 2
      /\ TokenCount(header) + TokenCount(s) <= MaxTokens \/ OneRow(s, b)
  BY DEF RowsOK
<1>2. PICK y : y \in ToSet(s)
  <2>1. ToSet(s) # {}
    BY <1>1, SetOfType
  <2> QED  BY <2>1
<1>3. PICK z : z \in Seq(Names) /\ z = header \o s
  <2>1. header \o s \in Seq(Names)
    BY ConcatProperties
  <2> QED  BY <2>1
<1>4. ToSet(z) = ToSet(header) \cup ToSet(s)
  BY <1>3, SetOfConcat
<1>5. TokenCount(z) = TokenCount(header) + TokenCount(s)
  BY <1>3, CountConcat
<1>6. TokenCount(z) \in Nat /\ TokenCount(<<>>) = 0
  BY <1>3, CountType, CountNone
<1>7. OneRow(s, b) => OneRowOf(s, b) /\ OneRowOf(z, b)
  <2>1. SUFFICES ASSUME NEW j \in Nat, j > 2, \A x \in ToSet(s) : x[1] = b /\ x[2] = j
                 PROVE  OneRowOf(s, b) /\ OneRowOf(z, b)
    BY DEF OneRow
  <2>2. y[2] = j
    BY <1>2, <2>1
  <2>3. OneRowOf(s, b)
    BY <1>2, <2>1, <2>2 DEF OneRowOf
  <2>4. \A x \in ToSet(z) : x[1] = b /\ (x[2] > 2 => x[2] = j)
    BY <1>4, <2>1
  <2>5. y \in ToSet(z)
    BY <1>2, <1>4
  <2>6. OneRowOf(z, b)
    BY <2>1, <2>2, <2>4, <2>5 DEF OneRowOf
  <2> QED  BY <2>3, <2>6
<1>8. TablePiece([own |-> s, head |-> header], b)
  BY <1>1, <1>7 DEF TablePiece
<1>9. TablePiece([own |-> z, head |-> <<>>], b)
  <2>1. z # <<>>
    BY <1>2, <1>4, SetOfNone
  <2>2. \A x \in ToSet(z) : x[1] = b
    BY <1>1, <1>4
  <2>3. ToSet(TextOf(b)[1]) \subseteq ToSet(z)
    BY <1>4
  <2>4. TokenCount(<<>>) + TokenCount(z) <= MaxTokens \/ OneRowOf(z, b)
    BY <1>1, <1>5, <1>6, <1>7
  <2> QED  BY <2>1, <2>2, <2>3, <2>4 DEF TablePiece
<1> QED  BY <1>3, <1>8, <1>9

\* The pieces of a table.
LEMMA SplitTableCuts ==
    ASSUME doc \in Seq(Kinds), NEW b \in 1..Len(doc), doc[b].type = "table",
           NEW i \in DOMAIN SplitTable(TextOf(b))
    PROVE  TablePiece(SplitTable(TextOf(b))[i], b)
<1>1. PICK text : text = TextOf(b) /\ text \in Seq(Seq(Names)) /\ text # <<>>
  BY BlockText
<1>2. PICK whole : whole = FlattenSeq(text) /\ whole \in Seq(Names) /\ whole # <<>>
                   /\ (\A x \in ToSet(whole) : x[1] = b /\ x[2] \in DOMAIN text)
  BY <1>1, BlockWhole
<1>3. \A j \in DOMAIN text : /\ j \in Nat /\ text[j] # <<>> /\ text[j] \in Seq(Names)
                             /\ ToSet(text[j]) = {<<b, j, h>> : h \in DOMAIN doc[b].text[j]}
  BY <1>1, BlockLines
<1>4. CASE Len(text) < 3
  <2>1. PICK ps : ps = SplitPiece(text)
    OBVIOUS
  <2>2. SplitTable(text) = [k \in DOMAIN ps |-> [own |-> ps[k], head |-> <<>>]]
    BY <1>4, <2>1 DEF SplitTable, Piece
  <2>3. i \in DOMAIN ps /\ SplitTable(text)[i] = [own |-> ps[i], head |-> <<>>]
    BY <1>1, <2>2
  <2>4. PieceOK(ps[i]) /\ ToSet(ps[i]) \subseteq ToSet(whole)
    BY <1>1, <1>2, <2>1, <2>3, SplitPieceCuts
  <2>5. ASSUME NEW x \in ToSet(ps[i]) PROVE x[1] = b /\ ~(x[2] > 2)
    <3>1. x[1] = b /\ x[2] \in DOMAIN text
      BY <1>2, <2>4
    <3>2. DOMAIN text = 1..Len(text) /\ Len(text) \in Nat
      BY <1>1
    <3> QED  BY <1>4, <3>1, <3>2
  <2>6. TablePiece([own |-> ps[i], head |-> <<>>], b)
    BY <2>4, <2>5 DEF TablePiece, PieceOK
  <2> QED  BY <1>1, <2>3, <2>6
<1>5. CASE ~(Len(text) < 3)
  <2>1. PICK n \in Nat : n = Len(text) - 2 /\ n >= 1 /\ Len(text) = n + 2 /\ DOMAIN text = 1..(n + 2)
    <3>1. Len(text) \in Nat /\ DOMAIN text = 1..Len(text)
      BY <1>1
    <3>2. PICK l \in Nat : l = Len(text)
      BY <3>1
    <3>3. l - 2 \in Nat /\ l - 2 >= 1 /\ l = (l - 2) + 2
      BY <1>5, <3>2
    <3> QED  BY <3>1, <3>2, <3>3
  <2>2. 1 \in DOMAIN text /\ 2 \in DOMAIN text
    BY <2>1
  <2>3. PICK header : header = text[1] \o text[2] /\ header \in Seq(Names)
    <3>1. text[1] \o text[2] \in Seq(Names)
      BY <1>3, <2>2, ConcatProperties
    <3> QED  BY <3>1
  <2>4. ToSet(header) = ToSet(text[1]) \cup ToSet(text[2])
    BY <1>3, <2>2, <2>3, SetOfConcat
  <2>5. ToSet(TextOf(b)[1]) \subseteq ToSet(header) /\ \A x \in ToSet(header) : x[1] = b /\ x[2] \in {1, 2}
    <3>1. ASSUME NEW x \in ToSet(header) PROVE x[1] = b /\ x[2] \in {1, 2}
      <4>1. PICK j \in {1, 2} : x \in ToSet(text[j])
        BY <2>4
      <4>2. PICK h : x = <<b, j, h>>
        BY <1>3, <2>2, <4>1
      <4> QED  BY <4>2
    <3> QED  BY <1>1, <2>4, <3>1
  <2>6. PICK f : RowsGo(f, text, header, n)
    <3>1. PICK t \in Seq(Seq(Names)) : t = text
      BY <1>1
    <3>2. PICK u \in Seq(Names) : u = header
      BY <2>3
    <3>3. n \in Nat /\ n = Len(t) - 2
      BY <2>1, <3>1
    <3>4. \E f : RowsGo(f, t, u, n)
      BY <3>3, RowsAre
    <3> QED  BY <3>1, <3>2, <3>4
  <2> USE DEF RowsGo
  <2>7. f[0] \in RowPacks(header, b)
    <3>1. f[0] = [out |-> <<>>, open |-> <<>>, tokens |-> TokenCount(header)]
      BY <2>6 DEF NoPieces
    <3>2. TokenCount(header) \in Nat /\ TokenCount(<<>>) = 0
      BY <2>3, CountType, CountNone
    <3>3. f[0] \in Cutting
      BY <3>1, <3>2 DEF Cutting
    <3>4. /\ f[0].open = <<>> /\ f[0].tokens = TokenCount(header) + TokenCount(<<>>)
          /\ \A k \in DOMAIN f[0].out : RowsOK(f[0].out[k], header, b)
      BY <3>1, <3>2
    <3> QED  BY <3>3, <3>4, RowPackIs
  <2>8. ASSUME NEW k \in 1..n, f[k - 1] \in RowPacks(header, b)
        PROVE  f[k] \in RowPacks(header, b) /\ f[k].open # <<>>
    <3>1. PICK j : j \in Nat /\ j = k + 2 /\ j > 2 /\ j \in DOMAIN text
      BY <2>1
    <3>2. PICK row : row = text[j] /\ row # <<>> /\ row \in Seq(Names)
                     /\ ToSet(row) = {<<b, j, h>> : h \in DOMAIN doc[b].text[j]}
      BY <1>3, <3>1
    <3>3. \A x \in ToSet(row) : x[1] = b /\ x[2] = j
      BY <3>2
    <3>4. OneRow(row, b)
      BY <3>1, <3>3 DEF OneRow
    <3>5. f[k] = AddRow(f[k - 1], row, header)
      BY <2>6, <3>1, <3>2
    <3> QED  BY <2>3, <2>8, <3>2, <3>4, <3>5, AddRowPacks
  <2> DEFINE G == {k \in 0..n : f[k] \in RowPacks(header, b) /\ (k > 0 => f[k].open # <<>>)}
  <2>9. 0 \in G
    BY <2>7
  <2>10. ASSUME NEW k \in 1..n, k - 1 \in G PROVE k \in G
    BY <2>8, <2>10
  <2>11. n \in G
    <3> HIDE DEF G
    <3>1. \A k \in 0..n : k \in G
      BY <2>9, <2>10, StepByStep
    <3> QED  BY <3>1
  <2>12. PICK p : p = RowsCut(text, header) /\ p \in RowPacks(header, b) /\ p.open # <<>>
    BY <2>1, <2>6, <2>11
  <2>13. /\ p \in Cutting /\ RowsOK(p.open, header, b)
         /\ \A k \in DOMAIN p.out : RowsOK(p.out[k], header, b)
    BY <2>12, RowPackIs
  <2>14. PICK parts : parts = Append(p.out, p.open)
    OBVIOUS
  <2>15. p.out \in Seq(Seq(Names)) /\ p.open \in Seq(Names)
    BY <2>13 DEF Cutting
  <2>16. \A k \in DOMAIN parts : RowsOK(parts[k], header, b)
    BY <2>13, <2>14, <2>15, RowsAppend
  <2>17. parts \in Seq(Seq(Names))
    BY <2>14, <2>15
  <2>18. SplitTable(text) = [k \in DOMAIN parts |->
                               IF k = 1 THEN [own |-> header \o parts[1], head |-> <<>>]
                               ELSE [own |-> parts[k], head |-> header]]
    <3>1. PICK q : q = RowsCut(text, text[1] \o text[2])
      OBVIOUS
    <3>2. SplitTable(text) =
            [k \in DOMAIN Append(q.out, q.open) |->
               IF k = 1 THEN [own |-> (text[1] \o text[2]) \o Append(q.out, q.open)[1], head |-> <<>>]
               ELSE [own |-> Append(q.out, q.open)[k], head |-> text[1] \o text[2]]]
      BY <1>5, <3>1 DEF SplitTable, RowsCut, Cuts, Piece
    <3>3. q = p
      BY <2>3, <2>12, <3>1
    <3> QED  BY <2>3, <2>14, <3>2, <3>3
  <2>19. i \in DOMAIN parts
    BY <1>1, <2>18
  <2>20. PICK s : s = parts[i] /\ s \in Seq(Names) /\ RowsOK(s, header, b)
    BY <2>16, <2>17, <2>19
  <2>21. SplitTable(text)[i] \in {[own |-> s, head |-> header], [own |-> header \o s, head |-> <<>>]}
    BY <2>18, <2>19, <2>20
  <2>22. TablePiece([own |-> s, head |-> header], b) /\ TablePiece([own |-> header \o s, head |-> <<>>], b)
    BY <2>3, <2>5, <2>20, RowsArePiece
  <2> QED  BY <1>1, <2>21, <2>22
<1> QED  BY <1>4, <1>5

-----------------------------------------------------------------------------
(* Where a chunk says it is *)

\* The text of a chunk is under the titles that it carries, and begins at its
\* position, with nothing before that but sentences of no tokens.
Placed(own, headings, start) ==
    /\ own # <<>> /\ own[1][1] <= start
    /\ \A n \in ToSet(own) : headings = Ancestors(n[1]) /\ (n[1] < start => Weight(n) = 0)

PlacedChunks == {c \in Chunk : Placed(c.own, c.headings, c.start)}

\* The titles of the stack are those over the next block, each at its level.
StackIs(s, n) ==
    /\ Path(s) = Ancestors(n + 1)
    /\ \A i \in DOMAIN s : s[i] # 0 => s[i] \in 1..n /\ Clamp(doc[s[i]].level) = i

\* What is noted of the open chunk will be right when it is closed.
OpenIsPlaced(c, m, s, n) ==
    /\ c.lap \in {NoLap} \cup 0..MaxLap /\ c.tokens >= TokenCount(c.own) + Lapped(c.lap)
    /\ c.own = <<>> => c = Empty
    /\ m.start <= n /\ m.headings = Path(s)
    /\ \A x \in ToSet(c.own) : x[1] <= n
    /\ c.own # <<>> => Placed(c.own, m.headings, m.start)

\* Pieces of block n.
PiecesOf(n) == {p \in Seq(Names) : p # <<>> /\ \A x \in ToSet(p) : x[1] = n}

\* The pieces that are left are of the last block, and the titles over it are
\* still the stack's.
LeftIsPlaced(left, c, m, s, n) ==
    /\ left \in Seq(PiecesOf(n))
    /\ left # <<>> => Path(s) = Ancestors(n) /\ (c.own = <<>> => m.start = n)

AllPlaced(c, m, s, n, left, cs) ==
    StackIs(s, n) /\ OpenIsPlaced(c, m, s, n) /\ LeftIsPlaced(left, c, m, s, n) /\ cs \in Seq(PlacedChunks)

\* The inductive invariant, with TextInv.
PlaceInv ==
    IF phase = "pairs" THEN sec = <<>> /\ mark = [headings |-> {}, start |-> 0]
    ELSE BySection => AllPlaced(cur, mark, sec, at, todo, chunks)

\* A step that leaves all in place.
LEMMA PlaceStep ==
    ASSUME doc' = doc, phase' # "pairs",
           BySection' => AllPlaced(cur', mark', sec', at', todo', chunks')
    PROVE  PlaceInv'
<1>1. Names' = Names
  BY DEF Names
<1>2. Chunk' = Chunk
  BY <1>1 DEF Chunk
<1>3. \A n : Ancestors(n)' = Ancestors(n)
  BY DEF Ancestors, Clamp
<1>4. \A o, h, s : Placed(o, h, s)' <=> Placed(o, h, s)
  BY <1>3 DEF Placed, Weight
<1>5. PlacedChunks' = PlacedChunks
  BY <1>2, <1>4 DEF PlacedChunks
<1>6. StackIs(sec, at)' <=> StackIs(sec', at')
  BY <1>3 DEF StackIs, Path, Clamp
<1>7. TokenCount(cur.own)' = TokenCount(cur'.own)
  BY DEF TokenCount
<1>8. OpenIsPlaced(cur, mark, sec, at)' <=> OpenIsPlaced(cur', mark', sec', at')
  <2>1. Placed(cur.own, mark.headings, mark.start)' <=> Placed(cur'.own, mark'.headings, mark'.start)
    BY <1>3 DEF Placed, Weight
  <2> QED  BY <1>7, <2>1 DEF OpenIsPlaced, Path, Lapped, NoLap, Empty, MaxLap, TailRunes, MaxTokens, Overlap
<1>9. LeftIsPlaced(todo, cur, mark, sec, at)' <=> LeftIsPlaced(todo', cur', mark', sec', at')
  BY <1>1, <1>3 DEF LeftIsPlaced, Path, PiecesOf
<1>10. AllPlaced(cur, mark, sec, at, todo, chunks)' <=> AllPlaced(cur', mark', sec', at', todo', chunks')
  BY <1>5, <1>6, <1>8, <1>9 DEF AllPlaced
<1> QED  BY <1>10 DEF PlaceInv

\* A block that is no title has the next one's titles.
LEMMA AncestorsStay ==
    ASSUME NEW b \in Nat, doc[b].type # "title" PROVE Ancestors(b + 1) = Ancestors(b)
<1>1. ASSUME NEW t PROVE t \in Ancestors(b + 1) <=> t \in Ancestors(b)
  <2>1. t \in Ancestors(b + 1) <=>
          /\ t \in 1..b /\ doc[t].type = "title"
          /\ \A u \in (t + 1)..b : doc[u].type = "title" => Clamp(doc[u].level) > Clamp(doc[t].level)
    <3>1. b + 1 - 1 = b
      OBVIOUS
    <3> QED  BY <3>1 DEF Ancestors
  <2>2. t \in Ancestors(b) <=>
          /\ t \in 1..(b - 1) /\ doc[t].type = "title"
          /\ \A u \in (t + 1)..(b - 1) : doc[u].type = "title" => Clamp(doc[u].level) > Clamp(doc[t].level)
    BY DEF Ancestors
  <2>3. CASE t \in 1..(b - 1)
    <3>1. \A u : u \in (t + 1)..b <=> u \in (t + 1)..(b - 1) \/ u = b
      BY <2>3
    <3>2. t \in 1..b
      BY <2>3
    <3> QED  BY <2>1, <2>2, <2>3, <3>1, <3>2
  <2>4. CASE t \notin 1..(b - 1)
    <3>1. t \in 1..b => t = b
      BY <2>4
    <3> QED  BY <2>1, <2>2, <2>4, <3>1
  <2> QED  BY <2>3, <2>4
<1> QED  BY <1>1

\* A title has closed those of its level and deeper ones.
LEMMA AncestorsOfNext ==
    ASSUME NEW b \in Nat, b >= 1, doc[b].type = "title"
    PROVE  Ancestors(b + 1) = {b} \cup {t \in Ancestors(b) : Clamp(doc[b].level) > Clamp(doc[t].level)}
<1>1. ASSUME NEW t
      PROVE  t \in Ancestors(b + 1) <=> t = b \/ (t \in Ancestors(b) /\ Clamp(doc[b].level) > Clamp(doc[t].level))
  <2>1. t \in Ancestors(b + 1) <=>
          /\ t \in 1..b /\ doc[t].type = "title"
          /\ \A u \in (t + 1)..b : doc[u].type = "title" => Clamp(doc[u].level) > Clamp(doc[t].level)
    <3>1. b + 1 - 1 = b
      OBVIOUS
    <3> QED  BY <3>1 DEF Ancestors
  <2>2. t \in Ancestors(b) <=>
          /\ t \in 1..(b - 1) /\ doc[t].type = "title"
          /\ \A u \in (t + 1)..(b - 1) : doc[u].type = "title" => Clamp(doc[u].level) > Clamp(doc[t].level)
    BY DEF Ancestors
  <2>3. CASE t \in 1..(b - 1)
    <3>1. \A u : u \in (t + 1)..b <=> u \in (t + 1)..(b - 1) \/ u = b
      BY <2>3
    <3>2. t \in 1..b /\ t # b
      BY <2>3
    <3> QED  BY <2>1, <2>2, <2>3, <3>1, <3>2
  <2>4. CASE t = b
    <3>1. ~ \E u : u \in (t + 1)..b
      BY <2>4
    <3>2. t \in 1..b
      BY <2>4
    <3> QED  BY <2>1, <2>4, <3>1, <3>2
  <2>5. CASE t \notin 1..(b - 1) /\ t # b
    <3>1. t \notin 1..b
      BY <2>5
    <3> QED  BY <2>1, <2>2, <2>5, <3>1
  <2> QED  BY <2>3, <2>4, <2>5
<1> QED  BY <1>1

\* The level of a title.
LEMMA LevelOf ==
    ASSUME doc \in Seq(Kinds), NEW b \in 1..Len(doc) PROVE Clamp(doc[b].level) \in 1..6
<1>1. doc[b] \in Kinds
  OBVIOUS
<1>2. doc[b].level \in Int
  BY <1>1, KindsAssumption
<1> QED  BY <1>2 DEF Clamp

\* push: the stack has the titles over the next block again.
LEMMA PushedIs ==
    ASSUME doc \in Seq(Kinds), NEW s \in Seq(Int), NEW n \in Nat, n < Len(doc), NEW b, b = n + 1,
           StackIs(s, n), doc[b].type = "title",
           NEW z, z = PushTitle(s, Clamp(doc[b].level), b)
    PROVE  StackIs(z, b)
<1>1. b \in 1..Len(doc) /\ b \in Nat /\ b >= 1 /\ Len(doc) \in Nat
  OBVIOUS
<1>2. PICK l \in 1..6 : l = Clamp(doc[b].level)
  BY <1>1, LevelOf
<1>3. z = [i \in 1..l |-> IF i = l THEN b ELSE IF i <= Len(s) THEN s[i] ELSE 0]
  BY <1>2 DEF PushTitle
<1>4. Path(s) = Ancestors(b)
  BY DEF StackIs
<1>5. \A i \in DOMAIN s : i \in Nat /\ (s[i] # 0 => s[i] \in 1..n /\ Clamp(doc[s[i]].level) = i)
  BY DEF StackIs
<1>6. DOMAIN s = 1..Len(s) /\ Len(s) \in Nat
  OBVIOUS
<1>7. DOMAIN z = 1..l /\ z[l] = b /\ \A i \in 1..l : i # l => z[i] = IF i <= Len(s) THEN s[i] ELSE 0
  BY <1>2, <1>3
<1>8. ASSUME NEW i \in DOMAIN z, z[i] # 0 PROVE z[i] \in 1..b /\ Clamp(doc[z[i]].level) = i
  <2>1. CASE i = l
    BY <1>1, <1>2, <1>7, <2>1
  <2>2. CASE i # l
    <3>1. i \in DOMAIN s /\ z[i] = s[i]
      BY <1>6, <1>7, <1>8, <2>2
    <3>2. z[i] \in 1..n /\ Clamp(doc[z[i]].level) = i
      BY <1>5, <1>8, <3>1
    <3> QED  BY <1>1, <3>2
  <2> QED  BY <2>1, <2>2
<1>9. ASSUME NEW t
      PROVE  t \in Path(z) <=> t = b \/ (t \in Path(s) /\ l > Clamp(doc[t].level))
  <2>1. ASSUME t \in Path(z), t # b PROVE t \in Path(s) /\ l > Clamp(doc[t].level)
    <3>1. PICK i \in DOMAIN z : z[i] = t /\ t # 0
      BY <2>1 DEF Path
    <3>2. i \in 1..l /\ i # l
      BY <1>7, <2>1, <3>1
    <3>3. i \in DOMAIN s /\ s[i] = t /\ i < l
      BY <1>2, <1>6, <1>7, <3>1, <3>2
    <3>4. Clamp(doc[t].level) = i
      BY <1>5, <3>1, <3>3
    <3> QED  BY <3>1, <3>3, <3>4 DEF Path
  <2>2. b \in Path(z)
    <3>1. l \in DOMAIN z /\ z[l] = b /\ b # 0
      BY <1>1, <1>7
    <3> QED  BY <3>1 DEF Path
  <2>3. ASSUME t \in Path(s), l > Clamp(doc[t].level) PROVE t \in Path(z)
    <3>1. PICK i \in DOMAIN s : s[i] = t /\ t # 0
      BY <2>3 DEF Path
    <3>2. Clamp(doc[t].level) = i /\ i \in 1..Len(s) /\ i \in Nat
      BY <1>5, <1>6, <3>1
    <3>3. i \in 1..l /\ i # l /\ i <= Len(s)
      BY <1>2, <2>3, <3>2
    <3>4. z[i] = t /\ i \in DOMAIN z
      BY <1>7, <3>1, <3>3
    <3> QED  BY <3>1, <3>4 DEF Path
  <2> QED  BY <2>1, <2>2, <2>3
<1>10. Ancestors(b + 1) = {b} \cup {t \in Ancestors(b) : l > Clamp(doc[t].level)}
  BY <1>1, <1>2, AncestorsOfNext
<1>11. Path(z) = Ancestors(b + 1)
  BY <1>4, <1>9, <1>10
<1> QED  BY <1>8, <1>11 DEF StackIs

\* The stack stays when the next block is no title.
LEMMA StackStays ==
    ASSUME NEW n \in Nat, NEW b, b = n + 1, NEW s, StackIs(s, n), doc[b].type # "title"
    PROVE  StackIs(s, b) /\ Path(s) = Ancestors(b)
<1>1. b \in Nat
  OBVIOUS
<1>2. Ancestors(b + 1) = Ancestors(b)
  BY <1>1, AncestorsStay
<1>3. Path(s) = Ancestors(b)
  BY DEF StackIs
<1>4. \A x : x \in 1..n => x \in 1..b
  OBVIOUS
<1> QED  BY <1>2, <1>3, <1>4 DEF StackIs

\* A text of one block is in place under the block's titles.
LEMMA BlockPlaced ==
    ASSUME NEW b \in Nat, NEW own \in Seq(Names), own # <<>>, \A x \in ToSet(own) : x[1] = b
    PROVE  Placed(own, Ancestors(b), b)
<1>1. own[1] \in ToSet(own)
  BY SetOfType
<1> QED  BY <1>1 DEF Placed

\* The open chunk goes to the others in its place.
LEMMA ClosedPlaced ==
    ASSUME Shape, OpenIsPlaced(cur, mark, sec, at), chunks \in Seq(PlacedChunks)
    PROVE  Flushed \in Seq(PlacedChunks)
<1>1. cur.own \in Seq(Names) /\ cur.lap \in Int /\ mark.start \in Int /\ mark.headings \in SUBSET Int
  BY DEF Shape, Opened, Marks
<1>2. doc \in Seq(Kinds)
  BY DEF Shape
<1>3. CASE cur.own = <<>>
  BY <1>3 DEF Flushed
<1>4. CASE cur.own # <<>>
  <2>1. PICK n : n = TokenCount(cur.own) + Lapped(cur.lap)
    OBVIOUS
  <2>2. n \in Int
    <3>1. TokenCount(cur.own) \in Nat
      BY <1>1, <1>2, CountType
    <3>2. Lapped(cur.lap) \in Int
      BY <1>1 DEF Lapped
    <3> QED  BY <2>1, <3>1, <3>2
  <2>3. PICK c : c = [own |-> cur.own, lap |-> cur.lap, head |-> <<>>, start |-> mark.start,
                      tokens |-> n, headings |-> mark.headings]
    OBVIOUS
  <2>4. c \in Chunk
    BY <1>1, <2>2, <2>3 DEF Chunk
  <2>5. Placed(c.own, c.headings, c.start)
    BY <1>4, <2>3 DEF OpenIsPlaced
  <2>6. c \in PlacedChunks
    BY <2>4, <2>5 DEF PlacedChunks
  <2>7. Flushed = Append(chunks, c)
    BY <1>4, <2>1, <2>3 DEF Flushed
  <2> QED  BY <2>6, <2>7, AppendType
<1> QED  BY <1>3, <1>4

\* An open chunk of no tokens has sentences of none.
LEMMA NoTokens ==
    ASSUME Shape, OpenIsPlaced(cur, mark, sec, at), cur.tokens = 0, NEW x \in ToSet(cur.own)
    PROVE  Weight(x) = 0
<1>1. cur.own \in Seq(Names) /\ doc \in Seq(Kinds) /\ cur.lap \in Int /\ cur.tokens \in Int
  BY DEF Shape, Opened
<1>2. Weight(x) \in Nat /\ Weight(x) <= TokenCount(cur.own) /\ TokenCount(cur.own) \in Nat
  BY <1>1, CountBounds, CountType
<1>3. Lapped(cur.lap) \in Nat
  BY MaxTokensType DEF OpenIsPlaced, Lapped
<1>4. cur.tokens >= TokenCount(cur.own) + Lapped(cur.lap)
  BY DEF OpenIsPlaced
<1> QED  BY <1>1, <1>2, <1>3, <1>4

\* Noting the beginning again keeps the open chunk in place.
LEMMA MarkedPlaced ==
    ASSUME Shape, OpenIsPlaced(cur, mark, sec, at), NEW b, b = at + 1
    PROVE  /\ OpenIsPlaced(cur, Marked(b), sec, b)
           /\ cur.own = <<>> => Marked(b).start = b
<1>1. at \in Nat /\ b \in Nat
  BY DEF Shape
<1>2. CASE cur.tokens = 0
  <2>1. Marked(b) = [headings |-> Path(sec), start |-> b]
    BY <1>2 DEF Marked
  <2>2. \A x \in ToSet(cur.own) : Weight(x) = 0
    BY <1>2, NoTokens
  <2>3. ASSUME NEW x \in ToSet(cur.own) PROVE x[1] <= b
    <3>1. cur.own \in Seq(Names)
      BY DEF Shape, Opened
    <3>2. x \in Names
      BY <3>1, SetOfType
    <3>3. x[1] \in Nat /\ x[1] <= at
      BY <3>2 DEF Names, OpenIsPlaced
    <3> QED  BY <1>1, <3>3
  <2>4. ASSUME cur.own # <<>> PROVE Placed(cur.own, Path(sec), b)
    <3>1. cur.own \in Seq(Names)
      BY DEF Shape, Opened
    <3>2. cur.own[1] \in ToSet(cur.own)
      BY <2>4, <3>1, SetOfType
    <3>3. cur.own[1][1] <= b
      BY <2>3, <3>2
    <3>4. Placed(cur.own, mark.headings, mark.start) /\ mark.headings = Path(sec)
      BY <2>4 DEF OpenIsPlaced
    <3> QED  BY <2>2, <2>4, <3>3, <3>4 DEF Placed
  <2>5. b <= b
    BY <1>1
  <2> QED  BY <2>1, <2>3, <2>4, <2>5 DEF OpenIsPlaced
<1>3. CASE cur.tokens # 0
  <2>1. Marked(b) = mark
    BY <1>3 DEF Marked
  <2>2. cur.own # <<>>
    BY <1>3 DEF OpenIsPlaced, Empty
  <2>3. mark.start \in Int /\ mark.start <= at
    BY DEF Shape, Marks, OpenIsPlaced
  <2>4. mark.start <= b
    BY <1>1, <2>3
  <2>5. ASSUME NEW x \in ToSet(cur.own) PROVE x[1] <= b
    <3>1. cur.own \in Seq(Names)
      BY DEF Shape, Opened
    <3>2. x \in Names
      BY <3>1, SetOfType
    <3>3. x[1] \in Nat /\ x[1] <= at
      BY <3>2 DEF Names, OpenIsPlaced
    <3> QED  BY <1>1, <3>3
  <2> QED  BY <2>1, <2>2, <2>4, <2>5 DEF OpenIsPlaced
<1> QED  BY <1>2, <1>3

-----------------------------------------------------------------------------
(* The steps through the sections *)

\* While sections are read, all is in place.
LEMMA NaivePlaced ==
    ASSUME TextInv, PlaceInv, phase # "pairs", method \notin {"table", "one"}, phase = "split"
    PROVE  /\ BySection /\ AllPlaced(cur, mark, sec, at, todo, chunks)
           /\ Shape /\ doc \in Seq(Kinds) /\ at \in Nat /\ Len(doc) \in Nat
<1>1. BySection
  BY DEF TextInv, Phases, Template, BySection
<1> QED  BY <1>1 DEF PlaceInv, TextInv, Shape

\* No open chunk, and no piece left.
LEMMA EmptyPlaced ==
    ASSUME doc \in Seq(Kinds), NEW m, NEW s, NEW n, m.start <= n, m.headings = Path(s)
    PROVE  OpenIsPlaced(Empty, m, s, n)
<1>1. Empty.own = <<>> /\ Empty.lap = NoLap /\ Empty.tokens = 0
  BY DEF Empty
<1>2. TokenCount(<<>>) = 0 /\ Lapped(NoLap) = 0 /\ ToSet(<<>>) = {}
  BY CountNone, SetOfNone DEF Lapped
<1> QED  BY <1>1, <1>2 DEF OpenIsPlaced

\* No piece is waiting, so none is out of place.
LEMMA NoneLeftPlaced == ASSUME NEW c, NEW m, NEW s, NEW n PROVE LeftIsPlaced(<<>>, c, m, s, n)
BY DEF LeftIsPlaced

\* A chunk that is not joined with others is in place.
LEMMA AlonePlaced ==
    ASSUME doc \in Seq(Kinds), NEW b \in Nat, NEW p \in PieceType, p.own # <<>>,
           \A x \in ToSet(p.own) : x[1] = b, NEW h \in SUBSET Int, h = Ancestors(b)
    PROVE  Alone(p, h, b) \in PlacedChunks
<1>1. p.own \in Seq(Names) /\ b \in Int
  BY DEF PieceType
<1>2. Placed(p.own, h, b)
  BY <1>1, BlockPlaced
<1>3. Alone(p, h, b) \in Chunk
  BY <1>1, AloneHolds
<1>4. Alone(p, h, b).own = p.own /\ Alone(p, h, b).headings = h /\ Alone(p, h, b).start = b
  BY DEF Alone
<1> QED  BY <1>2, <1>3, <1>4 DEF PlacedChunks

\* A title.
LEMMA TitlePlaces == ASSUME TextInv, PlaceInv, Title PROVE PlaceInv'
<1> PICK b : b = at + 1
  OBVIOUS
<1> PICK s : s = PushTitle(sec, Clamp(doc[b].level), b)
  OBVIOUS
<1> PICK m : m = [headings |-> Path(s), start |-> b]
  OBVIOUS
<1>1. /\ phase = "split" /\ method \notin {"table", "one"}
      /\ todo = <<>> /\ at < Len(doc) /\ doc[b].type = "title" /\ at' = b
      /\ chunks' = Flushed /\ cur' = Empty /\ sec' = s /\ mark' = m
      /\ UNCHANGED <<doc, method, phase, todo, pair>>
  BY DEF Title, NextIs, Naive
<1>2. /\ BySection /\ AllPlaced(cur, mark, sec, at, todo, chunks)
      /\ Shape /\ doc \in Seq(Kinds) /\ at \in Nat
  BY <1>1, NaivePlaced
<1>3. StackIs(s, b)
  <2>1. sec \in Seq(Int) /\ StackIs(sec, at)
    BY <1>2 DEF Shape, AllPlaced
  <2> QED  BY <1>1, <1>2, <2>1, PushedIs
<1>4. OpenIsPlaced(Empty, m, s, b)
  <2>1. m.start <= b /\ m.headings = Path(s)
    BY <1>2
  <2> QED  BY <1>2, <2>1, EmptyPlaced
<1>5. Flushed \in Seq(PlacedChunks)
  BY <1>2, ClosedPlaced DEF AllPlaced
<1>6. AllPlaced(cur', mark', sec', at', todo', chunks')
  BY <1>1, <1>3, <1>4, <1>5, NoneLeftPlaced DEF AllPlaced
<1> QED  BY <1>1, <1>6, PlaceStep

\* An image.
LEMMA ImagePlaces == ASSUME TextInv, PlaceInv, Image PROVE PlaceInv'
<1> PICK b : b = at + 1
  OBVIOUS
<1>1. /\ phase = "split" /\ method \notin {"table", "one"}
      /\ todo = <<>> /\ at < Len(doc) /\ doc[b].type = "image" /\ at' = b
      /\ UNCHANGED <<doc, method, phase, todo, sec, cur, mark, pair, chunks>>
  BY DEF Image, NextIs, Naive
<1>2. /\ BySection /\ AllPlaced(cur, mark, sec, at, todo, chunks)
      /\ Shape /\ doc \in Seq(Kinds) /\ at \in Nat
  BY <1>1, NaivePlaced
<1>3. StackIs(sec, b)
  BY <1>1, <1>2, StackStays DEF AllPlaced
<1>4. OpenIsPlaced(cur, mark, sec, b)
  <2>1. OpenIsPlaced(cur, mark, sec, at)
    BY <1>2 DEF AllPlaced
  <2>2. mark.start \in Int /\ cur.own \in Seq(Names) /\ b \in Nat
    BY <1>2 DEF Shape, Marks, Opened
  <2>3. mark.start <= b
    BY <1>2, <2>1, <2>2 DEF OpenIsPlaced
  <2>4. ASSUME NEW x \in ToSet(cur.own) PROVE x[1] <= b
    <3>1. x \in Names
      BY <2>2, SetOfType
    <3>2. x[1] \in Nat /\ x[1] <= at
      BY <2>1, <3>1 DEF Names, OpenIsPlaced
    <3> QED  BY <1>2, <3>2
  <2> QED  BY <2>1, <2>3, <2>4 DEF OpenIsPlaced
<1>5. AllPlaced(cur', mark', sec', at', todo', chunks')
  BY <1>1, <1>2, <1>3, <1>4, NoneLeftPlaced DEF AllPlaced
<1> QED  BY <1>1, <1>5, PlaceStep

\* An item of a resume.
LEMMA ItemPlaces == ASSUME TextInv, PlaceInv, Item PROVE PlaceInv'
<1> PICK b : b = at + 1
  OBVIOUS
<1> PICK p, c : p = Piece(FlattenSeq(TextOf(b)), <<>>) /\ c = Alone(p, Path(sec), b)
  OBVIOUS
<1> PICK m : m = [mark EXCEPT !.headings = Path(sec)]
  OBVIOUS
<1>1. /\ phase = "split" /\ method \notin {"table", "one"}
      /\ todo = <<>> /\ at < Len(doc) /\ doc[b].type = "list" /\ at' = b
      /\ chunks' = Append(Flushed, c) /\ cur' = Empty /\ mark' = m
      /\ UNCHANGED <<doc, method, phase, todo, sec, pair>>
  BY DEF Item, NextIs, Naive
<1>2. /\ BySection /\ AllPlaced(cur, mark, sec, at, todo, chunks)
      /\ Shape /\ doc \in Seq(Kinds) /\ at \in Nat /\ Len(doc) \in Nat
  BY <1>1, NaivePlaced
<1>3. StackIs(sec, b) /\ Path(sec) = Ancestors(b)
  BY <1>1, <1>2, StackStays DEF AllPlaced
<1>4. b \in 1..Len(doc) /\ b \in Nat
  BY <1>1, <1>2
<1>5. c \in PlacedChunks
  <2>1. PICK whole : whole = FlattenSeq(TextOf(b)) /\ whole \in Seq(Names) /\ whole # <<>>
                     /\ (\A x \in ToSet(whole) : x[1] = b)
    BY <1>2, <1>4, BlockWhole
  <2>2. p = [own |-> whole, head |-> <<>>]
    BY <2>1 DEF Piece
  <2>3. p \in PieceType /\ p.own = whole
    <3>1. whole \in Seq(Names) /\ <<>> \in Seq(Names)
      BY <2>1
    <3>2. [own |-> whole, head |-> <<>>] \in PieceType
      BY <3>1 DEF PieceType
    <3> QED  BY <2>2, <3>2
  <2>4. Path(sec) \in SUBSET Int
    BY <1>2, PathType DEF Shape
  <2> QED  BY <1>2, <1>3, <1>4, <2>1, <2>3, <2>4, AlonePlaced
<1>6. chunks' \in Seq(PlacedChunks)
  <2>1. Flushed \in Seq(PlacedChunks)
    BY <1>2, ClosedPlaced DEF AllPlaced
  <2> QED  BY <1>1, <1>5, <2>1, AppendType
<1>7. OpenIsPlaced(Empty, m, sec, b)
  <2>1. mark.start \in Int /\ mark.start <= at
    BY <1>2 DEF Shape, Marks, AllPlaced, OpenIsPlaced
  <2>2. m.start = mark.start /\ m.headings = Path(sec)
    BY <1>2 DEF Shape, Marks
  <2>3. m.start <= b
    BY <1>2, <2>1, <2>2
  <2> QED  BY <1>2, <2>2, <2>3, EmptyPlaced
<1>8. AllPlaced(cur', mark', sec', at', todo', chunks')
  BY <1>1, <1>3, <1>6, <1>7, NoneLeftPlaced DEF AllPlaced
<1> QED  BY <1>1, <1>8, PlaceStep

\* A table that is split by rows.
LEMMA BigTablePlaces == ASSUME TextInv, PlaceInv, BigTable PROVE PlaceInv'
<1> PICK b : b = at + 1
  OBVIOUS
<1> PICK noted : noted = Marked(b)
  OBVIOUS
<1> PICK last : last = IF cur.own = <<>> THEN <<>>
                       ELSE <<[own |-> cur.own, lap |-> cur.lap, head |-> <<>>, start |-> noted.start,
                               tokens |-> TokenCount(cur.own) + Lapped(cur.lap),
                               headings |-> noted.headings]>>
  OBVIOUS
<1> PICK ps, cs : ps = SplitTable(TextOf(b)) /\ cs = AllAlone(ps, Path(sec), b)
  OBVIOUS
<1> PICK m : m = [noted EXCEPT !.headings = Path(sec)]
  OBVIOUS
<1>1. /\ phase = "split" /\ method \notin {"table", "one"}
      /\ todo = <<>> /\ at < Len(doc) /\ doc[b].type = "table" /\ at' = b
      /\ chunks' = (chunks \o last) \o cs /\ cur' = Empty /\ mark' = m
      /\ UNCHANGED <<doc, method, phase, todo, sec, pair>>
  BY DEF BigTable, NextIs, Naive
<1>2. /\ BySection /\ AllPlaced(cur, mark, sec, at, todo, chunks)
      /\ Shape /\ doc \in Seq(Kinds) /\ at \in Nat /\ Len(doc) \in Nat
  BY <1>1, NaivePlaced
<1>3. StackIs(sec, b) /\ Path(sec) = Ancestors(b) /\ Path(sec) \in SUBSET Int
  BY <1>1, <1>2, StackStays, PathType DEF AllPlaced, Shape
<1>4. b \in 1..Len(doc) /\ b \in Nat /\ b \in Int
  BY <1>1, <1>2
<1>5. OpenIsPlaced(cur, noted, sec, b) /\ noted \in Marks
  BY <1>2, <1>4, MarkedPlaced, MarkedType DEF AllPlaced
<1>6. last \in Seq(PlacedChunks)
  <2>1. CASE cur.own = <<>>
    BY <2>1
  <2>2. CASE cur.own # <<>>
    <3>1. cur.own \in Seq(Names) /\ cur.lap \in Int
      BY <1>2 DEF Shape, Opened
    <3>2. TokenCount(cur.own) \in Nat /\ Lapped(cur.lap) \in Int
      BY <1>2, <3>1, CountType DEF Lapped
    <3>3. PICK n \in Int : n = TokenCount(cur.own) + Lapped(cur.lap)
      <4>1. TokenCount(cur.own) + Lapped(cur.lap) \in Int
        BY <3>2
      <4> QED  BY <4>1
    <3>4. PICK c : c = [own |-> cur.own, lap |-> cur.lap, head |-> <<>>, start |-> noted.start,
                        tokens |-> n, headings |-> noted.headings]
      OBVIOUS
    <3>5. noted.start \in Int /\ noted.headings \in SUBSET Int
      BY <1>5 DEF Marks
    <3>6. c \in Chunk
      BY <3>1, <3>3, <3>4, <3>5 DEF Chunk
    <3>7. Placed(c.own, c.headings, c.start)
      BY <1>5, <2>2, <3>4 DEF OpenIsPlaced
    <3>8. c \in PlacedChunks
      BY <3>6, <3>7 DEF PlacedChunks
    <3>9. last = <<c>>
      BY <2>2, <3>3, <3>4
    <3> QED  BY <3>8, <3>9
  <2> QED  BY <2>1, <2>2
<1>7. cs \in Seq(PlacedChunks)
  <2>1. TextOf(b) \in Seq(Seq(Names)) /\ TextOf(b) # <<>>
    BY <1>2, <1>4, BlockText
  <2>2. ps \in Seq(PieceType)
    BY <1>2, <2>1, SplitTableKeeps
  <2>3. ASSUME NEW i \in DOMAIN ps PROVE Alone(ps[i], Path(sec), b) \in PlacedChunks
    <3>1. PICK p \in PieceType : p = ps[i]
      BY <2>2, <2>3
    <3>2. TablePiece(p, b)
      BY <1>1, <1>2, <1>4, <3>1, SplitTableCuts
    <3>3. p.own # <<>> /\ \A x \in ToSet(p.own) : x[1] = b
      BY <3>2 DEF TablePiece
    <3> QED  BY <1>2, <1>3, <1>4, <3>1, <3>3, AlonePlaced
  <2>4. PICK n \in Nat : DOMAIN ps = 1..n
    BY <2>2
  <2>5. cs = [i \in 1..n |-> Alone(ps[i], Path(sec), b)]
    BY <2>4 DEF AllAlone
  <2> QED  BY <2>3, <2>4, <2>5
<1>8. chunks' \in Seq(PlacedChunks)
  <2>1. chunks \o last \in Seq(PlacedChunks)
    BY <1>2, <1>6, ConcatProperties DEF AllPlaced
  <2> QED  BY <1>1, <1>7, <2>1, ConcatProperties
<1>9. OpenIsPlaced(Empty, m, sec, b)
  <2>1. m.start = noted.start /\ m.headings = Path(sec)
    BY <1>5 DEF Marks
  <2>2. m.start <= b
    BY <1>5, <2>1 DEF OpenIsPlaced
  <2> QED  BY <1>2, <2>1, <2>2, EmptyPlaced
<1>10. AllPlaced(cur', mark', sec', at', todo', chunks')
  BY <1>1, <1>3, <1>8, <1>9, NoneLeftPlaced DEF AllPlaced
<1> QED  BY <1>1, <1>10, PlaceStep

\* A block is cut into pieces.
LEMMA BodyPlaces == ASSUME TextInv, PlaceInv, Body PROVE PlaceInv'
<1> PICK b : b = at + 1
  OBVIOUS
<1> PICK ps : ps = SplitPiece(TextOf(b))
  OBVIOUS
<1>1. /\ phase = "split" /\ method \notin {"table", "one"}
      /\ todo = <<>> /\ at < Len(doc) /\ doc[b].type \in {"text", "list", "table"} /\ at' = b
      /\ todo' = ps /\ mark' = Marked(b)
      /\ UNCHANGED <<doc, method, phase, sec, cur, pair, chunks>>
  BY DEF Body, NextIs, Naive
<1>2. /\ BySection /\ AllPlaced(cur, mark, sec, at, todo, chunks)
      /\ Shape /\ doc \in Seq(Kinds) /\ at \in Nat /\ Len(doc) \in Nat
  BY <1>1, NaivePlaced
<1>3. StackIs(sec, b) /\ Path(sec) = Ancestors(b)
  BY <1>1, <1>2, StackStays DEF AllPlaced
<1>4. b \in 1..Len(doc) /\ b \in Nat
  BY <1>1, <1>2
<1>5. OpenIsPlaced(cur, Marked(b), sec, b) /\ (cur.own = <<>> => Marked(b).start = b)
  BY <1>2, <1>4, MarkedPlaced DEF AllPlaced
<1>6. ps \in Seq(PiecesOf(b))
  <2>1. PICK text \in Seq(Seq(Names)) : text = TextOf(b)
    BY <1>2, <1>4, BlockText
  <2>2. PICK whole : whole = FlattenSeq(text) /\ whole # <<>> /\ (\A x \in ToSet(whole) : x[1] = b)
    BY <1>2, <1>4, <2>1, BlockWhole
  <2>3. ps \in Seq(Seq(Names))
    BY <1>2, <2>1, SplitPieceKeeps
  <2>4. ASSUME NEW i \in DOMAIN ps PROVE ps[i] \in PiecesOf(b)
    <3>1. PieceOK(ps[i]) /\ ToSet(ps[i]) \subseteq ToSet(whole)
      BY <1>2, <2>1, <2>2, SplitPieceCuts
    <3>2. ps[i] \in Seq(Names)
      BY <2>3
    <3> QED  BY <2>2, <3>1, <3>2 DEF PiecesOf, PieceOK
  <2>5. PICK n \in Nat : ps \in [1..n -> Seq(Names)] /\ DOMAIN ps = 1..n
    BY <2>3
  <2> QED  BY <2>4, <2>5
<1>7. LeftIsPlaced(ps, cur, Marked(b), sec, b)
  BY <1>3, <1>5, <1>6 DEF LeftIsPlaced
<1>8. AllPlaced(cur', mark', sec', at', todo', chunks')
  BY <1>1, <1>2, <1>3, <1>5, <1>7 DEF AllPlaced
<1> QED  BY <1>1, <1>8, PlaceStep

\* A piece that is left is of the last block.
LEMMA PieceIs ==
    ASSUME TextInv, PlaceInv, todo # <<>>, NEW p, p = Head(todo)
    PROVE  /\ phase = "split" /\ method \notin {"table", "one"}
           /\ BySection /\ AllPlaced(cur, mark, sec, at, todo, chunks)
           /\ Shape /\ doc \in Seq(Kinds) /\ at \in Nat
           /\ p \in Seq(Names) /\ p # <<>> /\ (\A x \in ToSet(p) : x[1] = at)
           /\ Tail(todo) \in Seq(PiecesOf(at))
           /\ Path(sec) = Ancestors(at) /\ (cur.own = <<>> => mark.start = at)
<1>1. phase = "split" /\ method \notin {"table", "one"}
  BY PieceGoes
<1>2. /\ BySection /\ AllPlaced(cur, mark, sec, at, todo, chunks)
      /\ Shape /\ doc \in Seq(Kinds) /\ at \in Nat
  BY <1>1, NaivePlaced
<1>3. LeftIsPlaced(todo, cur, mark, sec, at)
  BY <1>2 DEF AllPlaced
<1>4. todo \in Seq(PiecesOf(at)) /\ Path(sec) = Ancestors(at) /\ (cur.own = <<>> => mark.start = at)
  BY <1>3 DEF LeftIsPlaced
<1>5. PICK P : P = PiecesOf(at)
  OBVIOUS
<1>6. p \in P /\ Tail(todo) \in Seq(P)
  BY <1>4, <1>5, HeadTailProperties
<1>7. p \in Seq(Names) /\ p # <<>> /\ (\A x \in ToSet(p) : x[1] = at)
  BY <1>5, <1>6 DEF PiecesOf
<1> QED  BY <1>1, <1>2, <1>4, <1>5, <1>6, <1>7

\* A piece joins the open chunk.
LEMMA JoinPlaces == ASSUME TextInv, PlaceInv, Join PROVE PlaceInv'
<1> PICK p : p = Head(todo)
  OBVIOUS
<1> PICK k \in {0, 1} : k = IF cur = Empty THEN 0 ELSE 1
  OBVIOUS
<1>1. /\ todo # <<>> /\ cur' = [cur EXCEPT !.own = cur.own \o p, !.tokens = cur.tokens + k + TokenCount(p)]
      /\ todo' = Tail(todo)
      /\ UNCHANGED <<doc, method, phase, at, sec, mark, pair, chunks>>
  BY DEF Join
<1>2. /\ phase = "split" /\ method \notin {"table", "one"}
      /\ BySection /\ AllPlaced(cur, mark, sec, at, todo, chunks)
      /\ Shape /\ doc \in Seq(Kinds) /\ at \in Nat
      /\ p \in Seq(Names) /\ p # <<>> /\ (\A x \in ToSet(p) : x[1] = at)
      /\ Tail(todo) \in Seq(PiecesOf(at))
      /\ Path(sec) = Ancestors(at) /\ (cur.own = <<>> => mark.start = at)
  BY <1>1, PieceIs
<1>3. PICK own : own = cur.own /\ own \in Seq(Names)
  BY <1>2 DEF Shape, Opened
<1>4. PICK z : z = own \o p /\ z \in Seq(Names) /\ ToSet(z) = ToSet(own) \cup ToSet(p)
               /\ TokenCount(z) = TokenCount(own) + TokenCount(p)
  <2>1. own \o p \in Seq(Names)
    BY <1>2, <1>3, ConcatProperties
  <2>2. ToSet(own \o p) = ToSet(own) \cup ToSet(p)
    BY <1>2, <1>3, SetOfConcat
  <2>3. TokenCount(own \o p) = TokenCount(own) + TokenCount(p)
    BY <1>2, <1>3, CountConcat
  <2> QED  BY <2>1, <2>2, <2>3
<1>5. z # <<>>
  <2>1. p[1] \in ToSet(p)
    BY <1>2, SetOfType
  <2> QED  BY <1>4, <2>1, SetOfNone
<1>6. OpenIsPlaced(cur, mark, sec, at)
  BY <1>2 DEF AllPlaced
<1>7. cur'.own = z /\ cur'.lap = cur.lap /\ cur'.tokens = cur.tokens + k + TokenCount(p)
  BY <1>1, <1>2, <1>3, <1>4 DEF Shape, Opened
<1>8. cur'.tokens >= TokenCount(z) + Lapped(cur.lap)
  <2>1. cur.tokens \in Int /\ cur.lap \in Int /\ cur.tokens >= TokenCount(own) + Lapped(cur.lap)
    BY <1>2, <1>3, <1>6 DEF Shape, Opened, OpenIsPlaced
  <2>2. TokenCount(own) \in Nat /\ TokenCount(p) \in Nat /\ Lapped(cur.lap) \in Int
    BY <1>2, <1>3, <2>1, CountType DEF Lapped
  <2> QED  BY <1>4, <1>7, <2>1, <2>2
<1>9. \A x \in ToSet(z) : x[1] <= at
  BY <1>2, <1>3, <1>4, <1>6 DEF OpenIsPlaced
<1>10. Placed(z, mark.headings, mark.start)
  <2>1. mark.start \in Int /\ mark.start <= at /\ mark.headings = Ancestors(at)
    BY <1>2, <1>6 DEF OpenIsPlaced, Shape, Marks
  <2>2. \A x \in ToSet(p) : mark.headings = Ancestors(x[1]) /\ ~(x[1] < mark.start)
    BY <1>2, <2>1
  <2>3. CASE own = <<>>
    <3>1. z = p
      BY <1>2, <1>4, <2>3, ConcatEmptySeq
    <3>2. mark.start = at
      BY <1>2, <1>3, <2>3
    <3> QED  BY <1>2, <2>1, <3>1, <3>2, BlockPlaced
  <2>4. CASE own # <<>>
    <3>1. Placed(own, mark.headings, mark.start)
      BY <1>3, <1>6, <2>4 DEF OpenIsPlaced
    <3>2. z[1] = own[1]
      <4>1. PICK n \in Nat : n = Len(own) /\ n >= 1
        BY <1>3, <2>4
      <4>2. PICK j \in Nat : j = Len(p)
        BY <1>2
      <4>3. Follows(z, own, p, n, j)
        BY <1>2, <1>3, <1>4, <4>1, <4>2, ConcatIs
      <4>4. 1 \in 1..(n + j) /\ 1 <= n
        BY <4>1, <4>2
      <4> QED  BY <4>3, <4>4 DEF Follows
    <3> QED  BY <1>4, <1>5, <2>2, <3>1, <3>2 DEF Placed
  <2> QED  BY <2>3, <2>4
<1>11. OpenIsPlaced(cur', mark, sec, at)
  BY <1>5, <1>6, <1>7, <1>8, <1>9, <1>10 DEF OpenIsPlaced
<1>12. LeftIsPlaced(Tail(todo), cur', mark, sec, at)
  BY <1>2, <1>5, <1>7 DEF LeftIsPlaced
<1>13. AllPlaced(cur', mark', sec', at', todo', chunks')
  BY <1>1, <1>2, <1>11, <1>12 DEF AllPlaced
<1> QED  BY <1>1, <1>2, <1>13, PlaceStep

\* A piece begins a chunk.
LEMMA OverflowPlaces == ASSUME TextInv, PlaceInv, Overflow PROVE PlaceInv'
<1> PICK p : p = Head(todo)
  OBVIOUS
<1> PICK m : m = [headings |-> Path(sec), start |-> at]
  OBVIOUS
<1>1. PICK lap \in Tails : cur' = [own |-> p, lap |-> lap,
                                   tokens |-> TokenCount(p) + IF lap = NoLap THEN 0 ELSE lap + 1]
  BY DEF Overflow
<1>2. /\ todo # <<>> /\ chunks' = Flushed /\ mark' = m /\ todo' = Tail(todo)
      /\ UNCHANGED <<doc, method, phase, at, sec, pair>>
  BY DEF Overflow
<1>3. /\ phase = "split" /\ method \notin {"table", "one"}
      /\ BySection /\ AllPlaced(cur, mark, sec, at, todo, chunks)
      /\ Shape /\ doc \in Seq(Kinds) /\ at \in Nat
      /\ p \in Seq(Names) /\ p # <<>> /\ (\A x \in ToSet(p) : x[1] = at)
      /\ Tail(todo) \in Seq(PiecesOf(at))
      /\ Path(sec) = Ancestors(at) /\ (cur.own = <<>> => mark.start = at)
  BY <1>2, PieceIs
<1>4. lap \in {NoLap} \cup 0..MaxLap
  BY DEF Tails
<1>5. cur'.tokens >= TokenCount(p) + Lapped(lap)
  <2>1. TokenCount(p) \in Nat
    BY <1>3, CountType
  <2>2. CASE lap = NoLap
    BY <1>1, <2>1, <2>2 DEF Lapped
  <2>3. CASE lap # NoLap
    <3>1. lap \in Nat
      BY <1>4, <2>3, MaxTokensType
    <3> QED  BY <1>1, <2>1, <2>3, <3>1 DEF Lapped
  <2> QED  BY <2>2, <2>3
<1>6. Placed(p, Ancestors(at), at)
  BY <1>3, BlockPlaced
<1>7. OpenIsPlaced(cur', m, sec, at)
  <2>1. cur'.own = p /\ cur'.lap = lap /\ m.start = at /\ m.headings = Path(sec)
    BY <1>1
  <2>2. \A x \in ToSet(p) : x[1] <= at
    BY <1>3
  <2> QED  BY <1>3, <1>4, <1>5, <1>6, <2>1, <2>2 DEF OpenIsPlaced
<1>8. LeftIsPlaced(Tail(todo), cur', m, sec, at)
  BY <1>3 DEF LeftIsPlaced
<1>9. Flushed \in Seq(PlacedChunks)
  BY <1>3, ClosedPlaced DEF AllPlaced
<1>10. AllPlaced(cur', mark', sec', at', todo', chunks')
  BY <1>2, <1>3, <1>7, <1>8, <1>9 DEF AllPlaced
<1> QED  BY <1>2, <1>3, <1>10, PlaceStep

\* The last flush.
LEMMA EndNaivePlaces == ASSUME TextInv, PlaceInv, EndNaive PROVE PlaceInv'
<1>1. /\ phase = "split" /\ method \notin {"table", "one"}
      /\ todo = <<>> /\ chunks' = Flushed /\ cur' = Empty /\ phase' = "end"
      /\ UNCHANGED <<doc, method, at, todo, sec, mark, pair>>
  BY DEF EndNaive, Naive
<1>2. /\ BySection /\ AllPlaced(cur, mark, sec, at, todo, chunks)
      /\ Shape /\ doc \in Seq(Kinds) /\ at \in Nat
  BY <1>1, NaivePlaced
<1>3. OpenIsPlaced(Empty, mark, sec, at)
  <2>1. mark.start <= at /\ mark.headings = Path(sec)
    BY <1>2 DEF AllPlaced, OpenIsPlaced
  <2> QED  BY <1>2, <2>1, EmptyPlaced
<1>4. Flushed \in Seq(PlacedChunks)
  BY <1>2, ClosedPlaced DEF AllPlaced
<1>5. AllPlaced(cur', mark', sec', at', todo', chunks')
  BY <1>1, <1>2, <1>3, <1>4, NoneLeftPlaced DEF AllPlaced
<1> QED  BY <1>1, <1>5, PlaceStep

\* The other templates have no sections.
LEMMA OtherPlaces == ASSUME TextInv, PlaceInv, TableOnly \/ One PROVE PlaceInv'
<1>1. method \in {"table", "one"} /\ method' = method /\ doc' = doc
  BY DEF TableOnly, One
<1>2. phase # "pairs" /\ (phase' = phase \/ phase' = "end")
  BY <1>1 DEF TextInv, Phases, TableOnly, One
<1>3. ~BySection'
  BY <1>1 DEF BySection, Template
<1> QED  BY <1>1, <1>2, <1>3, PlaceStep

\* While pairs are looked for nothing is noted.
LEMMA PairStepPlaces == ASSUME PlaceInv, QAQuestion \/ QAAnswer \/ SkipTable PROVE PlaceInv'
<1>1. phase = "pairs" /\ UNCHANGED <<phase, sec, mark>>
  BY DEF QAQuestion, QAAnswer, SkipTable
<1> QED  BY <1>1 DEF PlaceInv

\* The stack of a document of which nothing was read.
LEMMA StackNone == Path(<<>>) = {} /\ StackIs(<<>>, 0)
<1>1. Path(<<>>) = {} /\ Ancestors(1) = {} /\ DOMAIN <<>> = {}
  BY DEF Path, Ancestors
<1>2. 0 + 1 = 1
  OBVIOUS
<1> QED  BY <1>1, <1>2 DEF StackIs

\* A document without pairs is read again from the beginning.
LEMMA EndQAPlaces == ASSUME TextInv, PlaceInv, EndQA PROVE PlaceInv'
<1>1. /\ phase = "pairs" /\ UNCHANGED <<doc, method, todo, sec, cur, mark, pair>>
      /\ \/ phase' = "split" /\ at' = 0 /\ chunks' = <<>>
         \/ phase' = "end" /\ pair.matched
  BY DEF EndQA
<1>2. /\ cur = Empty /\ todo = <<>> /\ method = "qa" /\ doc \in Seq(Kinds)
      /\ sec = <<>> /\ mark = [headings |-> {}, start |-> 0]
  BY <1>1 DEF TextInv, Phases, Shape, PlaceInv
<1>3. CASE phase' = "split" /\ at' = 0 /\ chunks' = <<>>
  <2>1. Path(<<>>) = {}
    BY StackNone
  <2>2. StackIs(<<>>, 0)
    BY StackNone
  <2>3. OpenIsPlaced(Empty, mark, <<>>, 0)
    <3>1. mark.start <= 0 /\ mark.headings = Path(<<>>)
      BY <1>2, <2>1
    <3> QED  BY <1>2, <3>1, EmptyPlaced
  <2>4. <<>> \in Seq(PlacedChunks)
    OBVIOUS
  <2>5. AllPlaced(cur', mark', sec', at', todo', chunks')
    BY <1>1, <1>2, <1>3, <2>2, <2>3, <2>4, NoneLeftPlaced DEF AllPlaced
  <2> QED  BY <1>1, <1>3, <2>5, PlaceStep
<1>4. CASE phase' = "end" /\ pair.matched
  <2>1. ~BySection'
    BY <1>1, <1>2, <1>4 DEF BySection, Template
  <2> QED  BY <1>1, <1>4, <2>1, PlaceStep
<1> QED  BY <1>1, <1>3, <1>4

\* The invariant holds initially.
LEMMA PlaceInvInit == ASSUME ChunkInit PROVE PlaceInv
<1>1. TextInv
  BY TextInvInit
<1>2. doc \in Seq(Kinds) /\ sec = <<>> /\ cur = Empty /\ todo = <<>> /\ chunks = <<>> /\ at = 0
      /\ mark = [headings |-> {}, start |-> 0]
  BY <1>1 DEF TextInv, Shape, ChunkInit
<1>3. Path(<<>>) = {}
  BY StackNone
<1>4. StackIs(<<>>, 0)
  BY StackNone
<1>5. OpenIsPlaced(Empty, mark, <<>>, 0)
  <2>1. mark.start <= 0 /\ mark.headings = Path(<<>>)
    BY <1>2, <1>3
  <2> QED  BY <1>2, <2>1, EmptyPlaced
<1>6. <<>> \in Seq(PlacedChunks)
  OBVIOUS
<1>7. AllPlaced(cur, mark, sec, at, todo, chunks)
  BY <1>2, <1>4, <1>5, <1>6, NoneLeftPlaced DEF AllPlaced
<1> QED  BY <1>2, <1>7 DEF PlaceInv

\* A step that changes nothing.
LEMMA PlaceInvStutters == ASSUME PlaceInv, UNCHANGED chunkVars PROVE PlaceInv'
<1>1. UNCHANGED <<doc, method, phase, at, todo, sec, cur, mark, pair, chunks>>
  BY DEF chunkVars
<1>2. CASE phase = "pairs"
  BY <1>1, <1>2 DEF PlaceInv
<1>3. CASE phase # "pairs"
  <2>1. BySection' <=> BySection
    BY <1>1 DEF BySection, Template
  <2>2. BySection' => AllPlaced(cur', mark', sec', at', todo', chunks')
    BY <1>1, <1>3, <2>1 DEF PlaceInv
  <2> QED  BY <1>1, <1>3, <2>2, PlaceStep
<1> QED  BY <1>2, <1>3

\* Every step keeps the invariant.
LEMMA PlaceInvNext == ASSUME TextInv, PlaceInv, [ChunkNext]_chunkVars PROVE PlaceInv'
<1>1. CASE Title
  BY <1>1, TitlePlaces
<1>2. CASE Image
  BY <1>2, ImagePlaces
<1>3. CASE Item
  BY <1>3, ItemPlaces
<1>4. CASE BigTable
  BY <1>4, BigTablePlaces
<1>5. CASE Body
  BY <1>5, BodyPlaces
<1>6. CASE Join
  BY <1>6, JoinPlaces
<1>7. CASE Overflow
  BY <1>7, OverflowPlaces
<1>8. CASE EndNaive
  BY <1>8, EndNaivePlaces
<1>9. CASE TableOnly \/ One
  BY <1>9, OtherPlaces
<1>10. CASE QAQuestion \/ QAAnswer \/ SkipTable
  BY <1>10, PairStepPlaces
<1>11. CASE EndQA
  BY <1>11, EndQAPlaces
<1>12. CASE UNCHANGED chunkVars
  BY <1>12, PlaceInvStutters
<1> QED  BY <1>1, <1>2, <1>3, <1>4, <1>5, <1>6, <1>7, <1>8, <1>9, <1>10, <1>11, <1>12 DEF ChunkNext

\* The invariant places the chunks.
LEMMA PlaceInvPlaces == ASSUME TextInv, PlaceInv PROVE ChunksArePlaced
<1>1. doc \in Seq(Kinds) /\ chunks \in Seq(Chunk)
  BY DEF TextInv, Shape
<1>2. CASE phase = "pairs"
  <2>1. chunks = <<>>
    BY <1>2 DEF TextInv, Phases
  <2>2. DOMAIN chunks = {}
    BY <2>1
  <2> QED  BY <2>2 DEF ChunksArePlaced, HeadingsAreAncestors, StartsWhereItSays
<1>3. CASE phase # "pairs"
  <2>1. SUFFICES ASSUME BySection PROVE HeadingsAreAncestors /\ StartsWhereItSays
    BY DEF ChunksArePlaced, HeadingsAreAncestors, StartsWhereItSays
  <2>2. chunks \in Seq(PlacedChunks)
    BY <1>3, <2>1 DEF PlaceInv, AllPlaced
  <2>3. ASSUME NEW i \in DOMAIN chunks
        PROVE  /\ chunks[i].own[1][1] <= chunks[i].start
               /\ \A k \in DOMAIN chunks[i].own :
                    /\ chunks[i].headings = Ancestors(chunks[i].own[k][1])
                    /\ chunks[i].own[k][1] < chunks[i].start => TokenCount(<<chunks[i].own[k]>>) = 0
    <3>1. PICK c \in PlacedChunks : c = chunks[i]
      BY <2>2, <2>3
    <3>2. c \in Chunk /\ Placed(c.own, c.headings, c.start) /\ c.own \in Seq(Names)
      BY <3>1 DEF PlacedChunks, Chunk
    <3>3. ASSUME NEW k \in DOMAIN c.own
          PROVE  /\ c.headings = Ancestors(c.own[k][1])
                 /\ c.own[k][1] < c.start => TokenCount(<<c.own[k]>>) = 0
      <4>1. c.own[k] \in ToSet(c.own)
        BY <3>3 DEF ToSet
      <4>2. c.own[k] \in Names
        BY <3>2, <3>3
      <4>3. TokenCount(<<c.own[k]>>) = Weight(c.own[k])
        BY <1>1, <4>2, CountOne
      <4> QED  BY <3>2, <4>1, <4>3 DEF Placed
    <3>4. c.own[1][1] <= c.start
      BY <3>2 DEF Placed
    <3> QED  BY <3>1, <3>3, <3>4
  <2> QED  BY <2>3 DEF HeadingsAreAncestors, StartsWhereItSays
<1> QED  BY <1>2, <1>3

\* Each chunk carries the titles over its text and the position where that
\* begins: what flush notes early and uses late.
THEOREM ChunksArePlacedAlways == ChunkSpec => []ChunksArePlaced
<1>1. ChunkInit => TextInv /\ PlaceInv
  BY TextInvInit, PlaceInvInit
<1>2. TextInv /\ PlaceInv /\ [ChunkNext]_chunkVars => (TextInv /\ PlaceInv)'
  BY TextInvNext, PlaceInvNext
<1>3. TextInv /\ PlaceInv => ChunksArePlaced
  BY PlaceInvPlaces
<1> QED  BY <1>1, <1>2, <1>3, PTL DEF ChunkSpec

-----------------------------------------------------------------------------
(* How far a text is cut *)

\* Rows have their header with them.
Headed(own, head) ==
    \A n \in ToSet(own) : doc[n[1]].type = "table" /\ n[2] > 2 =>
        ToSet(TextOf(n[1])[1]) \subseteq ToSet(own) \cup ToSet(head)

\* n tokens are what was asked for and an overlap, or those of one sentence.
Bounded(own, n) ==
    \/ n <= MaxTokens + MaxLap
    \/ \E x \in ToSet(own) : Weight(x) > MaxTokens /\ n <= MaxLap + Weight(x)

\* The ways in which a chunk may be as large as it is.
Sized(c) ==
    \/ Bounded(c.own, c.tokens)
    \/ doc[c.own[1][1]].type = "table" /\ OneRowOf(c.own, c.own[1][1]) /\ c.lap = NoLap
    \/ Template = "qa" /\ c.tokens <= 2 * MaxTokens
    \/ Template = "one"
    \/ Template = "resume" /\ doc[c.own[1][1]].type = "list" /\ \A x \in ToSet(c.own) : x[1] = c.own[1][1]

CutChunks == {c \in Chunk : Sized(c) /\ Headed(c.own, c.head)}
CutPieces == {p \in Seq(Names) : Fitting(p) /\ Headed(p, <<>>)}

\* The open chunk can be closed as it is.
OpenIsCut(c) == Bounded(c.own, TokenCount(c.own) + Lapped(c.lap)) /\ Headed(c.own, <<>>)

\* The inductive invariant, with TextInv and PlaceInv.
CutInv ==
    phase # "pairs" =>
        /\ chunks \in Seq(CutChunks)
        /\ BySection => OpenIsCut(cur) /\ todo \in Seq(CutPieces)

\* A step that cuts as it should.
LEMMA CutStep ==
    ASSUME doc' = doc, method' = method, pair'.matched = pair.matched,
           phase' # "pairs" => /\ chunks' \in Seq(CutChunks)
                               /\ BySection => OpenIsCut(cur') /\ todo' \in Seq(CutPieces)
    PROVE  CutInv'
<1>1. Names' = Names
  BY DEF Names
<1>2. Chunk' = Chunk
  BY <1>1 DEF Chunk
<1>3. Template' = Template /\ (BySection' <=> BySection)
  BY DEF Template, BySection
<1>4. \A b : TextOf(b)' = TextOf(b)
  BY DEF TextOf
<1>5. \A own, head : Headed(own, head)' <=> Headed(own, head)
  BY <1>4 DEF Headed
<1>6. MaxTokens' = MaxTokens /\ MaxLap' = MaxLap
  BY DEF MaxTokens, MaxLap, TailRunes, Overlap
<1>7. \A own, n : Bounded(own, n)' <=> Bounded(own, n)
  BY <1>6 DEF Bounded, Weight
<1>8. \A c : Sized(c)' <=> Sized(c)
  BY <1>3, <1>6, <1>7 DEF Sized, OneRowOf, NoLap
<1>9. CutChunks' = CutChunks
  BY <1>2, <1>5, <1>8 DEF CutChunks
<1>10. \A s : TokenCount(s)' = TokenCount(s)
  BY DEF TokenCount
<1>11. CutPieces' = CutPieces
  BY <1>1, <1>5, <1>6, <1>10 DEF CutPieces, Fitting, Weight
<1>12. OpenIsCut(cur)' <=> OpenIsCut(cur')
  <2>1. TokenCount(cur.own)' = TokenCount(cur'.own)
    BY DEF TokenCount
  <2>2. Headed(cur.own, <<>>)' <=> Headed(cur'.own, <<>>)
    BY <1>4 DEF Headed
  <2>3. PICK n : n = (TokenCount(cur.own) + Lapped(cur.lap))'
    OBVIOUS
  <2>4. n = TokenCount(cur'.own) + Lapped(cur'.lap)
    BY <2>1, <2>3 DEF Lapped, NoLap
  <2>5. Bounded(cur.own, TokenCount(cur.own) + Lapped(cur.lap))' <=> Bounded(cur'.own, n)
    BY <1>6, <2>3 DEF Bounded, Weight
  <2> QED  BY <2>2, <2>4, <2>5 DEF OpenIsCut
<1> QED  BY <1>3, <1>9, <1>11, <1>12 DEF CutInv

\* A text that is no table's needs no header.
LEMMA HeadedOther ==
    ASSUME NEW own, NEW head, \A x \in ToSet(own) : doc[x[1]].type # "table" PROVE Headed(own, head)
BY DEF Headed

\* Two texts that have their headers.
LEMMA HeadedBoth ==
    ASSUME NEW own \in Seq(Names), NEW p \in Seq(Names), Headed(own, <<>>), Headed(p, <<>>)
    PROVE  Headed(own \o p, <<>>)
<1>1. PICK A, B : A = ToSet(own) /\ B = ToSet(p) /\ ToSet(own \o p) = A \cup B
  BY SetOfConcat
<1>2. ToSet(<<>>) = {}
  BY SetOfNone
<1>3. ASSUME NEW n \in A \cup B, doc[n[1]].type = "table" /\ n[2] > 2
      PROVE  ToSet(TextOf(n[1])[1]) \subseteq A \cup B
  BY <1>1, <1>2, <1>3 DEF Headed
<1> QED  BY <1>1, <1>3 DEF Headed

\* An empty text needs no header.
LEMMA HeadedNone == ASSUME NEW head PROVE Headed(<<>>, head)
BY SetOfNone DEF Headed

\* A text that fits, with an overlap.
LEMMA FittingBounded ==
    ASSUME doc \in Seq(Kinds), NEW p \in Seq(Names), Fitting(p), NEW l \in 0..MaxLap
    PROVE  Bounded(p, TokenCount(p) + l)
<1>1. PICK n \in Nat : n = TokenCount(p)
  BY CountType
<1>2. MaxTokens \in Nat /\ MaxLap \in Nat /\ l \in Nat /\ l <= MaxLap
  BY MaxTokensType
<1>3. CASE n <= MaxTokens
  <2>1. n + l <= MaxTokens + MaxLap
    BY <1>2, <1>3
  <2> QED  BY <1>1, <2>1 DEF Bounded
<1>4. CASE ~(n <= MaxTokens)
  <2>1. PICK x \in ToSet(p) : Weight(x) > MaxTokens /\ n = Weight(x)
    BY <1>1, <1>4 DEF Fitting
  <2>2. n + l <= MaxLap + Weight(x)
    BY <1>2, <2>1
  <2> QED  BY <1>1, <2>1, <2>2 DEF Bounded
<1> QED  BY <1>3, <1>4

\* The open chunk closed, wherever it says it begins.
LEMMA ClosedCut ==
    ASSUME Shape, OpenIsCut(cur), NEW m \in Marks, NEW c,
           c = [own |-> cur.own, lap |-> cur.lap, head |-> <<>>, start |-> m.start,
                tokens |-> TokenCount(cur.own) + Lapped(cur.lap), headings |-> m.headings]
    PROVE  c \in CutChunks
<1>1. cur.own \in Seq(Names) /\ cur.lap \in Int /\ m.start \in Int /\ m.headings \in SUBSET Int
  BY DEF Shape, Opened, Marks
<1>2. doc \in Seq(Kinds)
  BY DEF Shape
<1>3. PICK n : n = TokenCount(cur.own) + Lapped(cur.lap)
  OBVIOUS
<1>4. n \in Int
  <2>1. TokenCount(cur.own) \in Nat
    BY <1>1, <1>2, CountType
  <2>2. Lapped(cur.lap) \in Int
    BY <1>1 DEF Lapped
  <2> QED  BY <1>3, <2>1, <2>2
<1>5. c = [own |-> cur.own, lap |-> cur.lap, head |-> <<>>, start |-> m.start,
           tokens |-> n, headings |-> m.headings]
  BY <1>3
<1>6. c \in Chunk
  BY <1>1, <1>4, <1>5 DEF Chunk
<1>7. Bounded(cur.own, n) /\ Headed(cur.own, <<>>)
  BY <1>3 DEF OpenIsCut
<1>8. Sized(c) /\ Headed(c.own, c.head)
  BY <1>5, <1>7 DEF Sized
<1> QED  BY <1>6, <1>8 DEF CutChunks

\* flush closes the open chunk, which has the size that a chunk may have.
LEMMA FlushedCut ==
    ASSUME Shape, OpenIsCut(cur), chunks \in Seq(CutChunks) PROVE Flushed \in Seq(CutChunks)
<1>1. PICK c : c = [own |-> cur.own, lap |-> cur.lap, head |-> <<>>, start |-> mark.start,
                    tokens |-> TokenCount(cur.own) + Lapped(cur.lap), headings |-> mark.headings]
  OBVIOUS
<1>2. c \in CutChunks
  <2>1. mark \in Marks
    BY DEF Shape
  <2> QED  BY <1>1, <2>1, ClosedCut
<1>3. Flushed = IF cur.own = <<>> THEN chunks ELSE Append(chunks, c)
  BY <1>1 DEF Flushed
<1> QED  BY <1>2, <1>3, AppendType

\* Nothing is open.
LEMMA EmptyCut == ASSUME doc \in Seq(Kinds) PROVE OpenIsCut(Empty) /\ <<>> \in Seq(CutPieces)
<1>1. Empty.own = <<>> /\ Empty.lap = NoLap
  BY DEF Empty
<1>2. TokenCount(<<>>) = 0 /\ Lapped(NoLap) = 0
  BY CountNone DEF Lapped
<1>3. Bounded(<<>>, 0)
  <2>1. 0 <= MaxTokens + MaxLap
    BY MaxTokensType
  <2> QED  BY <2>1 DEF Bounded
<1>4. 0 + 0 = 0
  OBVIOUS
<1> QED  BY <1>1, <1>2, <1>3, <1>4, HeadedNone DEF OpenIsCut

\* What Alone makes of a piece.
LEMMA AloneIs ==
    ASSUME doc \in Seq(Kinds), NEW p \in PieceType, NEW h \in SUBSET Int, NEW b \in Int
    PROVE  /\ Alone(p, h, b) \in Chunk /\ Alone(p, h, b).own = p.own /\ Alone(p, h, b).head = p.head
           /\ Alone(p, h, b).lap = NoLap
           /\ Alone(p, h, b).tokens = TokenCount(p.head) + TokenCount(p.own)
           /\ TokenCount(p.own) \in Nat /\ TokenCount(p.head) \in Nat
<1>1. p.own \in Seq(Names) /\ p.head \in Seq(Names)
  BY DEF PieceType
<1>2. TokenCount(p.own) \in Nat /\ TokenCount(p.head) \in Nat
  BY <1>1, CountType
<1>3. Alone(p, h, b) \in Chunk
  BY AloneHolds
<1> QED  BY <1>2, <1>3 DEF Alone

\* The pieces of a table as chunks.
LEMMA TableCut ==
    ASSUME doc \in Seq(Kinds), NEW b \in 1..Len(doc), doc[b].type = "table",
           NEW h \in SUBSET Int, NEW cs, cs = AllAlone(SplitTable(TextOf(b)), h, b)
    PROVE  cs \in Seq(CutChunks)
<1>1. PICK ps : ps = SplitTable(TextOf(b)) /\ ps \in Seq(PieceType)
  <2>1. TextOf(b) \in Seq(Seq(Names)) /\ TextOf(b) # <<>>
    BY BlockText
  <2> QED  BY <2>1, SplitTableKeeps
<1>2. ASSUME NEW i \in DOMAIN ps PROVE Alone(ps[i], h, b) \in CutChunks
  <2>1. PICK p \in PieceType : p = ps[i]
    BY <1>1, <1>2
  <2>2. TablePiece(p, b)
    BY <1>1, <1>2, <2>1, SplitTableCuts
  <2>3. PICK c : c = Alone(p, h, b)
    OBVIOUS
  <2>4. /\ c \in Chunk /\ c.own = p.own /\ c.head = p.head /\ c.lap = NoLap
        /\ c.tokens = TokenCount(p.head) + TokenCount(p.own)
        /\ TokenCount(p.own) \in Nat /\ TokenCount(p.head) \in Nat
    BY <2>3, AloneIs
  <2>5. p.own \in Seq(Names) /\ p.own # <<>> /\ \A x \in ToSet(p.own) : x[1] = b
    BY <2>2 DEF PieceType, TablePiece
  <2>6. p.own[1][1] = b
    BY <2>5, SetOfType
  <2>7. Headed(p.own, p.head)
    BY <2>2, <2>5 DEF TablePiece, Headed
  <2>8. ASSUME TokenCount(p.head) + TokenCount(p.own) <= MaxTokens PROVE Sized(c)
    <3>1. c.tokens <= MaxTokens + MaxLap
      BY <2>4, <2>8, MaxTokensType
    <3> QED  BY <3>1 DEF Sized, Bounded
  <2>9. ASSUME p.head = <<>>, Fitting(p.own) PROVE Sized(c)
    <3>1. c.tokens = TokenCount(p.own) + 0
      BY <2>4, <2>9, CountNone
    <3>2. 0 \in 0..MaxLap
      BY MaxTokensType
    <3>3. Bounded(p.own, TokenCount(p.own) + 0)
      BY <2>5, <2>9, <3>2, FittingBounded
    <3> QED  BY <2>4, <3>1, <3>3 DEF Sized
  <2>10. ASSUME OneRowOf(p.own, b) PROVE Sized(c)
    BY <2>4, <2>6, <2>10 DEF Sized
  <2>11. Sized(c)
    BY <2>2, <2>8, <2>9, <2>10 DEF TablePiece
  <2> QED  BY <2>1, <2>3, <2>4, <2>7, <2>11 DEF CutChunks
<1>3. PICK n \in Nat : DOMAIN ps = 1..n
  BY <1>1
<1>4. cs = [i \in 1..n |-> Alone(ps[i], h, b)]
  BY <1>1, <1>3 DEF AllAlone
<1> QED  BY <1>2, <1>3, <1>4

\* What is known while sections are read.
LEMMA NaiveCut ==
    ASSUME TextInv, CutInv, phase = "split", method \notin {"table", "one"}
    PROVE  /\ BySection /\ Shape /\ doc \in Seq(Kinds) /\ at \in Nat /\ Len(doc) \in Nat
           /\ chunks \in Seq(CutChunks) /\ OpenIsCut(cur) /\ todo \in Seq(CutPieces)
<1>1. BySection
  BY DEF TextInv, Phases, Template, BySection
<1> QED  BY <1>1 DEF CutInv, TextInv, Shape

\* A title closes the open chunk.
LEMMA TitleCuts == ASSUME TextInv, CutInv, Title PROVE CutInv'
<1>1. /\ phase = "split" /\ method \notin {"table", "one"}
      /\ chunks' = Flushed /\ cur' = Empty
      /\ UNCHANGED <<doc, method, phase, todo, pair>>
  BY DEF Title, Naive
<1>2. /\ Shape /\ doc \in Seq(Kinds)
      /\ chunks \in Seq(CutChunks) /\ OpenIsCut(cur) /\ todo \in Seq(CutPieces)
  BY <1>1, NaiveCut
<1>3. Flushed \in Seq(CutChunks) /\ OpenIsCut(Empty)
  BY <1>2, FlushedCut, EmptyCut
<1> QED  BY <1>1, <1>2, <1>3, CutStep

\* An image is passed over: nothing is cut.
LEMMA ImageCuts == ASSUME TextInv, CutInv, Image PROVE CutInv'
<1>1. /\ phase = "split" /\ method \notin {"table", "one"}
      /\ UNCHANGED <<doc, method, phase, todo, sec, cur, mark, pair, chunks>>
  BY DEF Image, Naive
<1>2. chunks \in Seq(CutChunks) /\ OpenIsCut(cur) /\ todo \in Seq(CutPieces)
  BY <1>1, NaiveCut
<1> QED  BY <1>1, <1>2, CutStep

\* An item of a list in a resume is a chunk of its own.
LEMMA ItemCuts == ASSUME TextInv, CutInv, Item PROVE CutInv'
<1> PICK b : b = at + 1
  OBVIOUS
<1> PICK p, c : p = Piece(FlattenSeq(TextOf(b)), <<>>) /\ c = Alone(p, Path(sec), b)
  OBVIOUS
<1>1. /\ phase = "split" /\ method = "resume"
      /\ todo = <<>> /\ at < Len(doc) /\ doc[b].type = "list"
      /\ chunks' = Append(Flushed, c) /\ cur' = Empty
      /\ UNCHANGED <<doc, method, phase, todo, sec, pair>>
  BY DEF Item, NextIs, Naive, Single
<1>2. /\ Shape /\ doc \in Seq(Kinds) /\ at \in Nat /\ Len(doc) \in Nat
      /\ chunks \in Seq(CutChunks) /\ OpenIsCut(cur)
  BY <1>1, NaiveCut
<1>3. b \in 1..Len(doc) /\ b \in Int
  BY <1>1, <1>2
<1>4. c \in CutChunks
  <2>1. PICK whole : whole = FlattenSeq(TextOf(b)) /\ whole \in Seq(Names) /\ whole # <<>>
                     /\ (\A x \in ToSet(whole) : x[1] = b)
    BY <1>2, <1>3, BlockWhole
  <2>2. p = [own |-> whole, head |-> <<>>]
    BY <2>1 DEF Piece
  <2>3. p \in PieceType
    <3>1. whole \in Seq(Names) /\ <<>> \in Seq(Names)
      BY <2>1
    <3>2. [own |-> whole, head |-> <<>>] \in PieceType
      BY <3>1 DEF PieceType
    <3> QED  BY <2>2, <3>2
  <2>4. Path(sec) \in SUBSET Int
    BY <1>2, PathType DEF Shape
  <2>5. c \in Chunk /\ c.own = whole /\ c.head = <<>>
    BY <1>2, <1>3, <2>2, <2>3, <2>4, AloneIs
  <2>6. whole[1][1] = b
    BY <2>1, SetOfType
  <2>7. Template = "resume"
    BY <1>1 DEF Template
  <2>8. Sized(c)
    BY <1>1, <2>1, <2>5, <2>6, <2>7 DEF Sized
  <2>9. Headed(c.own, c.head)
    BY <1>1, <2>1, <2>5, HeadedOther
  <2> QED  BY <2>5, <2>8, <2>9 DEF CutChunks
<1>5. chunks' \in Seq(CutChunks)
  BY <1>1, <1>2, <1>4, FlushedCut, AppendType
<1>6. OpenIsCut(cur') /\ todo' \in Seq(CutPieces)
  BY <1>1, <1>2, EmptyCut
<1> QED  BY <1>1, <1>5, <1>6, CutStep

\* A table that is too big is cut by its rows, each with the header.
LEMMA BigTableCuts == ASSUME TextInv, CutInv, BigTable PROVE CutInv'
<1> PICK b : b = at + 1
  OBVIOUS
<1> PICK noted : noted = Marked(b)
  OBVIOUS
<1> PICK c : c = [own |-> cur.own, lap |-> cur.lap, head |-> <<>>, start |-> noted.start,
                  tokens |-> TokenCount(cur.own) + Lapped(cur.lap), headings |-> noted.headings]
  OBVIOUS
<1> PICK last : last = IF cur.own = <<>> THEN <<>> ELSE <<c>>
  OBVIOUS
<1> PICK cs : cs = AllAlone(SplitTable(TextOf(b)), Path(sec), b)
  OBVIOUS
<1>1. /\ phase = "split" /\ method \notin {"table", "one"}
      /\ todo = <<>> /\ at < Len(doc) /\ doc[b].type = "table"
      /\ chunks' = (chunks \o last) \o cs /\ cur' = Empty
      /\ UNCHANGED <<doc, method, phase, todo, sec, pair>>
  BY DEF BigTable, NextIs, Naive
<1>2. /\ Shape /\ doc \in Seq(Kinds) /\ at \in Nat /\ Len(doc) \in Nat
      /\ chunks \in Seq(CutChunks) /\ OpenIsCut(cur)
  BY <1>1, NaiveCut
<1>3. b \in 1..Len(doc) /\ b \in Int
  BY <1>1, <1>2
<1>4. last \in Seq(CutChunks)
  <2>1. noted \in Marks
    BY <1>2, <1>3, MarkedType
  <2>2. c \in CutChunks
    BY <1>2, <2>1, ClosedCut
  <2> QED  BY <2>2
<1>5. cs \in Seq(CutChunks)
  <2>1. Path(sec) \in SUBSET Int
    BY <1>2, PathType DEF Shape
  <2> QED  BY <1>1, <1>2, <1>3, <2>1, TableCut
<1>6. chunks' \in Seq(CutChunks)
  <2>1. chunks \o last \in Seq(CutChunks)
    BY <1>2, <1>4, ConcatProperties
  <2> QED  BY <1>1, <1>5, <2>1, ConcatProperties
<1>7. OpenIsCut(cur') /\ todo' \in Seq(CutPieces)
  BY <1>1, <1>2, EmptyCut
<1> QED  BY <1>1, <1>6, <1>7, CutStep

\* A block is cut into pieces that fit.
LEMMA BodyCuts == ASSUME TextInv, CutInv, Body PROVE CutInv'
<1> PICK b : b = at + 1
  OBVIOUS
<1> PICK ps : ps = SplitPiece(TextOf(b))
  OBVIOUS
<1>1. /\ phase = "split" /\ method \notin {"table", "one"}
      /\ todo = <<>> /\ at < Len(doc) /\ ~Big(b)
      /\ todo' = ps
      /\ UNCHANGED <<doc, method, phase, sec, cur, pair, chunks>>
  BY DEF Body, NextIs, Naive
<1>2. /\ Shape /\ doc \in Seq(Kinds) /\ at \in Nat /\ Len(doc) \in Nat
      /\ chunks \in Seq(CutChunks) /\ OpenIsCut(cur)
  BY <1>1, NaiveCut
<1>3. b \in 1..Len(doc)
  BY <1>1, <1>2
<1>4. PICK text \in Seq(Seq(Names)) : text = TextOf(b)
  BY <1>2, <1>3, BlockText
<1>5. PICK whole : whole = FlattenSeq(text) /\ whole \in Seq(Names) /\ whole # <<>>
                   /\ (\A x \in ToSet(whole) : x[1] = b)
                   /\ \A j \in DOMAIN text : ToSet(text[j]) \subseteq ToSet(whole)
  BY <1>2, <1>3, <1>4, BlockWhole
<1>6. ps \in Seq(Seq(Names))
  BY <1>2, <1>4, SplitPieceKeeps
<1>7. ASSUME NEW i \in DOMAIN ps PROVE ps[i] \in CutPieces
  <2>1. PieceOK(ps[i]) /\ ToSet(ps[i]) \subseteq ToSet(whole) /\ ps[i] \in Seq(Names)
    BY <1>2, <1>4, <1>5, <1>6, <1>7, SplitPieceCuts
  <2>2. Fitting(ps[i])
    BY <2>1 DEF PieceOK
  <2>3. ASSUME doc[b].type # "table" PROVE Headed(ps[i], <<>>)
    BY <1>5, <2>1, <2>3, HeadedOther
  <2>4. ASSUME doc[b].type = "table" PROVE Headed(ps[i], <<>>)
    <3>1. TokenCount(whole) <= MaxTokens
      <4>1. TokenCount(whole) \in Nat /\ MaxTokens \in Nat
        BY <1>2, <1>5, CountType, MaxTokensType
      <4>2. ~(TokenCount(whole) > MaxTokens)
        BY <1>1, <1>4, <1>5, <2>4 DEF Big
      <4> QED  BY <4>1, <4>2
    <3>2. ps = <<whole>>
      BY <1>4, <1>5, <3>1 DEF SplitPiece
    <3>3. ps[i] = whole
      BY <1>7, <3>2
    <3>4. 1 \in DOMAIN text
      <4>1. text # <<>>
        BY <1>2, <1>3, <1>4, BlockText
      <4> QED  BY <1>4, <4>1
    <3>5. ToSet(TextOf(b)[1]) \subseteq ToSet(whole)
      BY <1>4, <1>5, <3>4
    <3> QED  BY <1>5, <3>3, <3>5 DEF Headed
  <2> QED  BY <2>1, <2>2, <2>3, <2>4 DEF CutPieces
<1>8. ps \in Seq(CutPieces)
  <2>1. PICK n \in Nat : ps \in [1..n -> Seq(Names)] /\ DOMAIN ps = 1..n
    BY <1>6
  <2> QED  BY <1>7, <2>1
<1> QED  BY <1>1, <1>2, <1>8, CutStep

\* A piece that is left fits and has its header.
LEMMA PieceIsCut ==
    ASSUME TextInv, CutInv, todo # <<>>, NEW p, p = Head(todo)
    PROVE  /\ phase = "split" /\ method \notin {"table", "one"}
           /\ Shape /\ doc \in Seq(Kinds) /\ chunks \in Seq(CutChunks) /\ OpenIsCut(cur)
           /\ p \in Seq(Names) /\ Fitting(p) /\ Headed(p, <<>>)
           /\ Tail(todo) \in Seq(CutPieces)
<1>1. phase = "split" /\ method \notin {"table", "one"}
  BY PieceGoes
<1>2. /\ Shape /\ doc \in Seq(Kinds) /\ chunks \in Seq(CutChunks)
      /\ OpenIsCut(cur) /\ todo \in Seq(CutPieces)
  BY <1>1, NaiveCut
<1>3. PICK P : P = CutPieces
  OBVIOUS
<1>4. p \in P /\ Tail(todo) \in Seq(P)
  BY <1>2, <1>3, HeadTailProperties
<1>5. p \in Seq(Names) /\ Fitting(p) /\ Headed(p, <<>>)
  BY <1>3, <1>4 DEF CutPieces
<1> QED  BY <1>1, <1>2, <1>3, <1>4, <1>5

\* An open chunk has no more tokens than were counted.
LEMMA OpenCounted ==
    ASSUME TextInv, PlaceInv, todo # <<>>
    PROVE  /\ cur.tokens \in Int /\ cur.tokens >= TokenCount(cur.own) + Lapped(cur.lap)
           /\ Lapped(cur.lap) \in Nat
<1>1. phase = "split" /\ method \notin {"table", "one"}
  BY PieceGoes
<1>2. AllPlaced(cur, mark, sec, at, todo, chunks) /\ Shape
  BY <1>1, NaivePlaced
<1>3. OpenIsPlaced(cur, mark, sec, at)
  BY <1>2 DEF AllPlaced
<1> QED  BY <1>2, <1>3, MaxTokensType DEF OpenIsPlaced, Lapped, Shape, Opened

\* A piece that fits joins the open chunk.
LEMMA JoinCuts == ASSUME TextInv, PlaceInv, CutInv, Join PROVE CutInv'
<1> PICK p : p = Head(todo)
  OBVIOUS
<1> PICK k : k = cur.tokens + (IF cur = Empty THEN 0 ELSE 1) + TokenCount(p)
  OBVIOUS
<1>1. /\ todo # <<>> /\ cur' = [cur EXCEPT !.own = cur.own \o p, !.tokens = k]
      /\ cur.tokens = 0 \/ cur.tokens + TokenCount(p) <= MaxTokens
      /\ todo' = Tail(todo)
      /\ UNCHANGED <<doc, method, phase, at, sec, mark, pair, chunks>>
  BY DEF Join, Fits
<1>2. /\ Shape /\ doc \in Seq(Kinds) /\ chunks \in Seq(CutChunks) /\ OpenIsCut(cur)
      /\ p \in Seq(Names) /\ Fitting(p) /\ Headed(p, <<>>)
      /\ Tail(todo) \in Seq(CutPieces)
  BY <1>1, PieceIsCut
<1>3. PICK own : own = cur.own /\ own \in Seq(Names)
  BY <1>2 DEF Shape, Opened
<1>4. PICK l : l = Lapped(cur.lap)
  OBVIOUS
<1>5. cur'.own = own \o p /\ Lapped(cur'.lap) = l
  BY <1>1, <1>2, <1>3, <1>4 DEF Shape, Opened
<1>6. Headed(own \o p, <<>>)
  BY <1>2, <1>3, HeadedBoth DEF OpenIsCut
<1>7. PICK n, j : n = TokenCount(own) /\ j = TokenCount(p) /\ n \in Nat /\ j \in Nat
  BY <1>2, <1>3, CountType
<1>8. l \in Nat /\ cur.tokens \in Int /\ cur.tokens >= n + l
  BY <1>1, <1>3, <1>4, <1>7, OpenCounted
<1>9. TokenCount(own \o p) + l = n + j + l
  BY <1>2, <1>3, <1>7, CountConcat
<1>10. Bounded(own \o p, n + j + l)
  <2>1. CASE cur.tokens = 0
    <3>1. n = 0 /\ l = 0
      BY <1>7, <1>8, <2>1
    <3>2. n + j + l = j + 0
      BY <1>7, <3>1
    <3>3. 0 \in 0..MaxLap
      BY MaxTokensType
    <3>4. Bounded(p, j + 0)
      BY <1>2, <1>7, <3>3, FittingBounded
    <3>5. ToSet(p) \subseteq ToSet(own \o p)
      BY <1>2, <1>3, SetOfConcat
    <3> QED  BY <3>2, <3>4, <3>5 DEF Bounded
  <2>2. CASE cur.tokens + j <= MaxTokens
    <3>1. n + j + l <= MaxTokens + MaxLap
      BY <1>7, <1>8, <2>2, MaxTokensType
    <3> QED  BY <3>1 DEF Bounded
  <2> QED  BY <1>1, <1>7, <2>1, <2>2
<1>11. OpenIsCut(cur')
  BY <1>5, <1>6, <1>9, <1>10 DEF OpenIsCut
<1> QED  BY <1>1, <1>2, <1>11, CutStep

\* A piece that does not fit begins a chunk after the overlap.
LEMMA OverflowCuts == ASSUME TextInv, CutInv, Overflow PROVE CutInv'
<1> PICK p : p = Head(todo)
  OBVIOUS
<1>1. PICK lap \in Tails : cur' = [own |-> p, lap |-> lap,
                                   tokens |-> TokenCount(p) + IF lap = NoLap THEN 0 ELSE lap + 1]
  BY DEF Overflow
<1>2. /\ todo # <<>> /\ chunks' = Flushed /\ todo' = Tail(todo)
      /\ UNCHANGED <<doc, method, phase, at, sec, pair>>
  BY DEF Overflow
<1>3. /\ Shape /\ doc \in Seq(Kinds) /\ chunks \in Seq(CutChunks) /\ OpenIsCut(cur)
      /\ p \in Seq(Names) /\ Fitting(p) /\ Headed(p, <<>>)
      /\ Tail(todo) \in Seq(CutPieces)
  BY <1>2, PieceIsCut
<1>4. Lapped(lap) \in 0..MaxLap
  <2>1. lap \in {NoLap} \cup 0..MaxLap
    BY DEF Tails
  <2> QED  BY <2>1, MaxTokensType DEF Lapped
<1>5. Bounded(p, TokenCount(p) + Lapped(lap))
  BY <1>3, <1>4, FittingBounded
<1>6. OpenIsCut(cur')
  <2>1. cur'.own = p /\ cur'.lap = lap
    BY <1>1
  <2> QED  BY <1>3, <1>5, <2>1 DEF OpenIsCut
<1>7. Flushed \in Seq(CutChunks)
  BY <1>3, FlushedCut
<1> QED  BY <1>2, <1>3, <1>6, <1>7, CutStep

\* The last chunk is closed at the end of the document.
LEMMA EndNaiveCuts == ASSUME TextInv, CutInv, EndNaive PROVE CutInv'
<1>1. /\ phase = "split" /\ method \notin {"table", "one"}
      /\ chunks' = Flushed /\ cur' = Empty
      /\ UNCHANGED <<doc, method, at, todo, sec, mark, pair>>
  BY DEF EndNaive, Naive
<1>2. /\ Shape /\ doc \in Seq(Kinds)
      /\ chunks \in Seq(CutChunks) /\ OpenIsCut(cur) /\ todo \in Seq(CutPieces)
  BY <1>1, NaiveCut
<1>3. Flushed \in Seq(CutChunks) /\ OpenIsCut(Empty)
  BY <1>2, FlushedCut, EmptyCut
<1> QED  BY <1>1, <1>2, <1>3, CutStep

\* The template "table" cuts each table by its rows.
LEMMA TableOnlyCuts == ASSUME TextInv, CutInv, TableOnly PROVE CutInv'
<1> PICK b : b = at + 1
  OBVIOUS
<1> PICK cs : cs = AllAlone(SplitTable(TextOf(b)), {}, b)
  OBVIOUS
<1>1. /\ method = "table" /\ at < Len(doc)
      /\ chunks' = IF doc[b].type # "table" THEN chunks ELSE chunks \o cs
      /\ UNCHANGED <<doc, method, phase, todo, sec, cur, mark, pair>>
  BY DEF TableOnly, NextIs
<1>2. doc \in Seq(Kinds) /\ at \in Nat /\ Len(doc) \in Nat /\ phase = "split"
  BY <1>1 DEF TextInv, Shape, Phases
<1>3. chunks \in Seq(CutChunks)
  BY <1>2 DEF CutInv
<1>4. b \in 1..Len(doc)
  BY <1>1, <1>2
<1>5. doc[b].type = "table" => cs \in Seq(CutChunks)
  <2>1. {} \in SUBSET Int
    OBVIOUS
  <2> QED  BY <1>2, <1>4, <2>1, TableCut
<1>6. chunks' \in Seq(CutChunks)
  BY <1>1, <1>3, <1>5, ConcatProperties
<1>7. ~BySection
  BY <1>1 DEF BySection, Template
<1> QED  BY <1>1, <1>6, <1>7, CutStep

\* The sentences of what was read are those of the parts.
LEMMA SetOfRead ==
    ASSUME doc \in Seq(Kinds), NEW n \in 0..Len(doc)
    PROVE  ToSet(Read(n)) = UNION {ToSet(Part(b)) : b \in 1..n}
<1>1. PICK T, s : T = Seq(Names) /\ s = [b \in 1..n |-> Part(b)]
  OBVIOUS
<1>2. ASSUME NEW b \in 1..n PROVE s[b] \in T
  <2>1. b \in 1..Len(doc)
    OBVIOUS
  <2> QED  BY <1>1, <2>1, PartType
<1>3. s \in Seq(T) /\ DOMAIN s = 1..n
  <2>1. s = [b \in 1..n |-> s[b]] /\ n \in Nat
    BY <1>1
  <2> QED  BY <1>2, <2>1, SequenceIs
<1>4. ToSet(FlattenSeq(s)) = UNION {ToSet(s[b]) : b \in DOMAIN s}
  BY <1>1, <1>3, SetOfFlatten
<1>5. \A b \in 1..n : s[b] = Part(b)
  BY <1>1
<1> QED  BY <1>1, <1>3, <1>4, <1>5 DEF Read

\* A chunk's sentences are of the text of all chunks.
LEMMA OwnIsOfText ==
    ASSUME NEW cs \in Seq(Chunk), NEW i \in DOMAIN cs
    PROVE  ToSet(cs[i].own) \subseteq ToSet(OwnText(cs))
<1>1. PICK T, s : T = Seq(Names) /\ s = OwnsOf(cs)
  OBVIOUS
<1>2. s \in Seq(T)
  BY <1>1, OwnsType
<1>3. ToSet(FlattenSeq(s)) = UNION {ToSet(s[k]) : k \in DOMAIN s}
  BY <1>1, <1>2, SetOfFlatten
<1>4. i \in DOMAIN s /\ s[i] = cs[i].own
  BY <1>1 DEF OwnsOf
<1> QED  BY <1>1, <1>3, <1>4 DEF OwnText

\* All of the text in one chunk has the headers in it.
LEMMA OneCuts == ASSUME TextInv, One PROVE CutInv'
<1> PICK n : n = Len(doc)
  OBVIOUS
<1>1. /\ method = "one" /\ phase = "split"
      /\ UNCHANGED <<doc, method, todo, sec, cur, mark, pair>>
  BY DEF One
<1>2. doc \in Seq(Kinds) /\ n \in Nat /\ n \in 0..Len(doc) /\ DOMAIN doc = 1..n
  BY DEF TextInv, Shape
<1>3. Template = "one" /\ ~BySection
  BY <1>1 DEF Template, BySection
<1>4. \A b : Part(b) = IF doc[b].type = "image" THEN <<>> ELSE FlattenSeq(TextOf(b))
  BY <1>3 DEF Due, Part
<1>5. PICK text : text = Read(n)
  OBVIOUS
<1>6. chunks' = IF text = <<>> THEN <<>> ELSE <<Alone(Piece(text, <<>>), {}, 0)>>
  <2>1. Read(n) = FlattenSeq([b \in DOMAIN doc |->
                     IF doc[b].type = "image" THEN <<>> ELSE FlattenSeq(TextOf(b))])
    BY <1>2, <1>4 DEF Read
  <2> QED  BY <1>5, <2>1 DEF One
<1>7. text \in Seq(Names)
  BY <1>2, <1>5, ReadType
<1>8. Headed(text, <<>>)
  <2>1. ASSUME NEW x \in ToSet(text), doc[x[1]].type = "table"
        PROVE  ToSet(TextOf(x[1])[1]) \subseteq ToSet(text)
    <3>1. PICK b \in 1..n : x \in ToSet(Part(b))
      BY <1>2, <1>5, SetOfRead
    <3>2. b \in 1..Len(doc) /\ ToSet(Part(b)) \subseteq ToSet(text)
      BY <1>2, <1>5, SetOfRead
    <3>3. PICK whole : /\ whole = FlattenSeq(TextOf(b)) /\ (\A y \in ToSet(whole) : y[1] = b)
                       /\ \A j \in DOMAIN TextOf(b) : ToSet(TextOf(b)[j]) \subseteq ToSet(whole)
      BY <1>2, <3>2, BlockWhole
    <3>4. Part(b) = whole
      BY <1>4, <3>1, <3>3, SetOfNone
    <3>5. x[1] = b
      BY <3>1, <3>3, <3>4
    <3>6. 1 \in DOMAIN TextOf(b)
      <4>1. TextOf(b) \in Seq(Seq(Names)) /\ TextOf(b) # <<>>
        BY <1>2, <3>2, BlockText
      <4> QED  BY <4>1
    <3> QED  BY <3>2, <3>3, <3>4, <3>5, <3>6
  <2> QED  BY <2>1 DEF Headed
<1>9. chunks' \in Seq(CutChunks)
  <2>1. CASE text = <<>>
    BY <1>6, <2>1
  <2>2. CASE text # <<>>
    <3>1. PICK p, c : p = Piece(text, <<>>) /\ c = Alone(p, {}, 0)
      OBVIOUS
    <3>2. p \in PieceType /\ p.own = text /\ p.head = <<>>
      <4>1. text \in Seq(Names) /\ <<>> \in Seq(Names)
        BY <1>7
      <4>2. [own |-> text, head |-> <<>>] \in PieceType
        BY <4>1 DEF PieceType
      <4> QED  BY <3>1, <4>2 DEF Piece
    <3>3. {} \in SUBSET Int /\ 0 \in Int
      OBVIOUS
    <3>4. c \in Chunk /\ c.own = text /\ c.head = <<>>
      BY <1>2, <3>1, <3>2, <3>3, AloneIs
    <3>5. c \in CutChunks
      BY <1>3, <1>8, <3>4 DEF CutChunks, Sized
    <3>6. chunks' = <<c>>
      BY <1>6, <2>2, <3>1
    <3> QED  BY <3>5, <3>6
  <2> QED  BY <2>1, <2>2
<1> QED  BY <1>1, <1>3, <1>9, CutStep

\* The chunks of a pair are the pair, or pieces that fit.
SizedChunks == {c \in Chunk : Sized(c)}

\* The chunks of a pair are cut like any text.
LEMMA PairChunksCut ==
    ASSUME doc \in Seq(Kinds), Template = "qa", NEW t \in Seq(Seq(Names))
    PROVE  PairChunks(t) \in Seq(SizedChunks)
<1>1. PICK whole : whole = FlattenSeq(t) /\ whole \in Seq(Names)
  BY FlattenType
<1>2. PICK n \in Nat : n = TokenCount(whole)
  BY <1>1, CountType
<1>3. PICK ps : ps = PairPieces(t)
  OBVIOUS
<1>4. ps \in Seq(Seq(Names))
  <2>1. CASE n <= 2 * MaxTokens
    BY <1>1, <1>2, <1>3, <2>1 DEF PairPieces
  <2>2. CASE ~(n <= 2 * MaxTokens)
    BY <1>1, <1>2, <1>3, <2>2, SplitPieceKeeps DEF PairPieces
  <2> QED  BY <2>1, <2>2
<1>5. ASSUME NEW i \in DOMAIN ps PROVE Alone(Piece(ps[i], <<>>), {}, 0) \in SizedChunks
  <2>1. PICK x \in Seq(Names) : x = ps[i]
    BY <1>4, <1>5
  <2>2. PICK p : p = [own |-> x, head |-> <<>>]
    OBVIOUS
  <2>3. p \in PieceType
    <3>1. <<>> \in Seq(Names)
      OBVIOUS
    <3> QED  BY <2>2, <3>1 DEF PieceType
  <2>4. PICK c : c = Alone(p, {}, 0)
    OBVIOUS
  <2>5. {} \in SUBSET Int /\ 0 \in Int
    OBVIOUS
  <2>6. c \in Chunk /\ c.own = x /\ c.tokens = TokenCount(<<>>) + TokenCount(x) /\ TokenCount(x) \in Nat
    BY <2>2, <2>3, <2>4, <2>5, AloneIs
  <2>7. c.tokens = TokenCount(x) + 0
    BY <2>6, CountNone
  <2>8. ASSUME n <= 2 * MaxTokens PROVE Sized(c)
    <3>1. x = whole
      BY <1>1, <1>2, <1>3, <1>5, <2>1, <2>8 DEF PairPieces
    <3>2. c.tokens <= 2 * MaxTokens
      BY <1>2, <2>7, <2>8, <3>1
    <3> QED  BY <3>2 DEF Sized
  <2>9. ASSUME ~(n <= 2 * MaxTokens) PROVE Sized(c)
    <3>1. whole # <<>>
      <4>1. n # 0
        BY <2>9, MaxTokensType
      <4> QED  BY <1>2, <4>1, CountNone
    <3>2. ps = SplitPiece(t)
      BY <1>1, <1>2, <1>3, <2>9 DEF PairPieces
    <3>3. Fitting(x)
      <4>1. PieceOK(SplitPiece(t)[i])
        BY <1>1, <1>5, <3>1, <3>2, SplitPieceCuts
      <4> QED  BY <2>1, <3>2, <4>1 DEF PieceOK
    <3>4. 0 \in 0..MaxLap
      BY MaxTokensType
    <3>5. Bounded(x, TokenCount(x) + 0)
      BY <3>3, <3>4, FittingBounded
    <3> QED  BY <2>6, <2>7, <3>5 DEF Sized
  <2>10. c \in SizedChunks
    BY <2>6, <2>8, <2>9 DEF SizedChunks
  <2> QED  BY <2>1, <2>2, <2>4, <2>10 DEF Piece
<1>6. PICK m \in Nat : DOMAIN ps = 1..m
  BY <1>4
<1>7. PairChunks(t) = [i \in 1..m |-> Alone(Piece(ps[i], <<>>), {}, 0)]
  BY <1>3, <1>6 DEF PairChunks
<1> QED  BY <1>5, <1>6, <1>7

\* Pairs have no tables.
LEMMA EndQACuts == ASSUME TextInv, EndQA PROVE CutInv'
<1>1. /\ phase = "pairs" /\ at = Len(doc)
      /\ UNCHANGED <<doc, method, todo, sec, cur, mark, pair>>
  BY DEF EndQA
<1>2. /\ Shape /\ doc \in Seq(Kinds) /\ pair \in PairType /\ at \in 0..Len(doc)
      /\ method = "qa" /\ cur = Empty /\ todo = <<>>
  BY <1>1 DEF TextInv, Phases, Shape
<1>3. PICK pairs : pairs = PairFlushed
  OBVIOUS
<1>4. pairs \in Seq(Seq(Seq(Names)))
  BY <1>2, <1>3, PairFlushedHolds
<1>5. CASE ~pair.matched \/ pairs = <<>>
  <2>1. chunks' = <<>>
    BY <1>3, <1>5 DEF EndQA
  <2>2. OpenIsCut(cur') /\ todo' \in Seq(CutPieces)
    BY <1>1, <1>2, EmptyCut
  <2> QED  BY <1>1, <2>1, <2>2, CutStep
<1>6. CASE ~(~pair.matched \/ pairs = <<>>)
  <2>1. /\ phase' = "end" /\ at' = at
        /\ chunks' = FlattenSeq([i \in DOMAIN pairs |-> PairChunks(pairs[i])])
    BY <1>3, <1>6 DEF EndQA, PairChunks, PairPieces
  <2>2. Template = "qa" /\ ~BySection
    BY <1>2, <1>6 DEF Template, BySection
  <2>3. PICK css, T : css = [i \in DOMAIN pairs |-> PairChunks(pairs[i])] /\ T = Seq(SizedChunks)
    OBVIOUS
  <2>4. PICK n \in Nat : DOMAIN pairs = 1..n
    BY <1>4
  <2>5. ASSUME NEW i \in 1..n PROVE css[i] \in T
    <3>1. pairs[i] \in Seq(Seq(Names))
      BY <1>4, <2>4
    <3> QED  BY <1>2, <2>2, <2>3, <2>4, <3>1, PairChunksCut
  <2>6. css \in Seq(T)
    <3>1. css = [i \in 1..n |-> css[i]]
      BY <2>3, <2>4
    <3> QED  BY <2>5, <3>1, SequenceIs
  <2>7. chunks' \in Seq(SizedChunks)
    BY <2>1, <2>3, <2>6, FlattenType
  <2>8. OwnText(chunks') = Read(at) /\ chunks' \in Seq(Chunk)
    <3>1. TextInv'
      BY EndQAKeeps
    <3>2. chunks' \in Seq(Chunk)
      <4>1. (chunks \in Seq(Chunk))'
        BY <3>1 DEF TextInv, Shape
      <4>2. Chunk' = Chunk
        BY <1>1, ReadStays
      <4> QED  BY <4>1, <4>2
    <3>3. (Total(chunks, cur.own, todo) = Read(at))'
      BY <2>1, <3>1 DEF TextInv, TextKept
    <3>4. Total(chunks, cur.own, todo)' = Total(chunks', cur'.own, todo')
      BY DEF Total, OwnText, OwnsOf
    <3>5. Read(at)' = Read(at)
      <4>3. \A k \in Nat : Read(k)' = Read(k)
        BY <1>1, ReadStays
      <4>4. PICK k \in Nat : k = at
        BY <1>2
      <4>5. Read(at)' = Read(k)'
        BY <2>1, <4>4 DEF Read, Part
      <4> QED  BY <4>3, <4>4, <4>5
    <3>6. Total(chunks', <<>>, <<>>) = OwnText(chunks')
      BY <3>2, TotalClosed
    <3> QED  BY <1>1, <1>2, <3>2, <3>3, <3>4, <3>5, <3>6, EmptyType
  <2>9. ASSUME NEW x \in ToSet(Read(at)) PROVE doc[x[1]].type # "table"
    <3>1. PICK b \in 1..at : x \in ToSet(Part(b))
      BY <1>2, SetOfRead
    <3>2. Due(b) /\ Part(b) = FlattenSeq(TextOf(b))
      BY <3>1, SetOfNone DEF Part
    <3>3. doc[b].type # "table"
      BY <2>2, <3>2 DEF Due
    <3>4. b \in 1..Len(doc)
      BY <1>2, <3>1
    <3>5. x[1] = b
      BY <1>2, <3>1, <3>2, <3>4, BlockWhole
    <3> QED  BY <3>3, <3>5
  <2>10. PICK cs : cs = chunks'
    OBVIOUS
  <2>11. ASSUME NEW i \in DOMAIN cs PROVE cs[i] \in CutChunks
    <3>1. ToSet(cs[i].own) \subseteq ToSet(Read(at))
      BY <2>8, <2>10, <2>11, OwnIsOfText
    <3>2. Headed(cs[i].own, cs[i].head)
      BY <2>9, <3>1, HeadedOther
    <3>3. cs[i] \in Chunk /\ Sized(cs[i])
      <4>1. cs[i] \in SizedChunks
        BY <2>7, <2>10, <2>11
      <4> QED  BY <4>1 DEF SizedChunks
    <3> QED  BY <3>2, <3>3 DEF CutChunks
  <2>12. cs \in Seq(CutChunks)
    <3>1. PICK k \in Nat : cs = [i \in 1..k |-> cs[i]] /\ DOMAIN cs = 1..k
      BY <2>7, <2>10
    <3> QED  BY <2>11, <3>1, SequenceIs
  <2> QED  BY <1>1, <2>2, <2>10, <2>12, CutStep
<1> QED  BY <1>5, <1>6

\* Nothing has been cut at the start.
LEMMA CutInvInit == ASSUME ChunkInit PROVE CutInv
<1>1. TextInv
  BY TextInvInit
<1>2. doc \in Seq(Kinds) /\ cur = Empty /\ todo = <<>> /\ chunks = <<>>
  BY <1>1 DEF TextInv, Shape, ChunkInit
<1>3. OpenIsCut(Empty) /\ <<>> \in Seq(CutPieces) /\ <<>> \in Seq(CutChunks)
  BY <1>2, EmptyCut
<1> QED  BY <1>2, <1>3 DEF CutInv

\* A step that changes nothing cuts nothing.
LEMMA CutInvStutters == ASSUME CutInv, UNCHANGED chunkVars PROVE CutInv'
<1>1. UNCHANGED <<doc, method, phase, at, todo, sec, cur, mark, pair, chunks>>
  BY DEF chunkVars
<1> QED  BY <1>1, CutStep DEF CutInv

\* Every step keeps the invariant.
LEMMA CutInvNext == ASSUME TextInv, PlaceInv, CutInv, [ChunkNext]_chunkVars PROVE CutInv'
<1>1. CASE Title      BY <1>1, TitleCuts
<1>2. CASE Image      BY <1>2, ImageCuts
<1>3. CASE Item       BY <1>3, ItemCuts
<1>4. CASE BigTable   BY <1>4, BigTableCuts
<1>5. CASE Body       BY <1>5, BodyCuts
<1>6. CASE Join       BY <1>6, JoinCuts
<1>7. CASE Overflow   BY <1>7, OverflowCuts
<1>8. CASE EndNaive   BY <1>8, EndNaiveCuts
<1>9. CASE TableOnly  BY <1>9, TableOnlyCuts
<1>10. CASE One       BY <1>10, OneCuts
<1>11. CASE QAQuestion \/ QAAnswer \/ SkipTable
  <2>1. phase = "pairs" /\ phase' = phase
    BY <1>11 DEF QAQuestion, QAAnswer, SkipTable
  <2> QED  BY <2>1 DEF CutInv
<1>12. CASE EndQA     BY <1>12, EndQACuts
<1>13. CASE UNCHANGED chunkVars BY <1>13, CutInvStutters
<1> QED  BY <1>1, <1>2, <1>3, <1>4, <1>5, <1>6, <1>7, <1>8, <1>9, <1>10, <1>11, <1>12, <1>13
         DEF ChunkNext

\* The rows of a chunk that has one.
LEMMA OneRowCounts ==
    ASSUME NEW c \in Chunk, NEW b, OneRowOf(c.own, b) PROVE Cardinality(Rows(c)) = 1
<1>1. PICK j \in Nat : /\ j > 2 /\ \E x \in ToSet(c.own) : x[2] = j
                       /\ \A x \in ToSet(c.own) : x[1] = b /\ (x[2] > 2 => x[2] = j)
  BY DEF OneRowOf
<1>2. c.own \in Seq(Names)
  BY DEF Chunk
<1>3. Rows(c) = {<<b, j>>}
  <2>1. ASSUME NEW r \in Rows(c) PROVE r = <<b, j>>
    <3>1. PICK k \in DOMAIN c.own : c.own[k][2] > 2 /\ r = <<c.own[k][1], c.own[k][2]>>
      BY DEF Rows
    <3>2. c.own[k] \in ToSet(c.own)
      BY <3>1 DEF ToSet
    <3> QED  BY <1>1, <3>1, <3>2
  <2>2. <<b, j>> \in Rows(c)
    <3>1. PICK x \in ToSet(c.own) : x[2] = j
      BY <1>1
    <3>2. PICK k \in DOMAIN c.own : c.own[k] = x
      BY DEF ToSet
    <3>3. x[1] = b /\ x[2] = j /\ c.own[k][2] > 2
      BY <1>1, <3>1, <3>2
    <3> QED  BY <3>2, <3>3 DEF Rows
  <2> QED  BY <2>1, <2>2
<1> QED  BY <1>3, FS_Singleton

\* The invariant bounds the chunks and keeps the headers.
LEMMA CutInvCuts == ASSUME TextInv, PlaceInv, CutInv PROVE ChunksFit /\ RowsKeepHeader
<1>1. doc \in Seq(Kinds) /\ chunks \in Seq(Chunk)
  BY DEF TextInv, Shape
<1>2. chunks \in Seq(CutChunks)
  <2>1. CASE phase = "pairs"
    BY <2>1 DEF TextInv, Phases
  <2>2. CASE phase # "pairs"
    BY <2>2 DEF CutInv
  <2> QED  BY <2>1, <2>2
<1>3. ASSUME NEW c \in CutChunks, NEW b, b = c.own[1][1]
      PROVE  \/ c.tokens <= MaxTokens + MaxLap
             \/ \E k \in DOMAIN c.own :
                  TokenCount(<<c.own[k]>>) > MaxTokens /\ c.tokens <= MaxLap + TokenCount(<<c.own[k]>>)
             \/ doc[b].type = "table" /\ Cardinality(Rows(c)) = 1 /\ c.lap = NoLap
             \/ Template = "qa" /\ c.tokens <= 2 * MaxTokens
             \/ Template = "one"
             \/ Template = "resume" /\ doc[b].type = "list" /\ \A k \in DOMAIN c.own : c.own[k][1] = b
  <2>1. c \in Chunk /\ Sized(c) /\ c.own \in Seq(Names)
    BY DEF CutChunks, Chunk
  <2>2. \A k \in DOMAIN c.own : c.own[k] \in ToSet(c.own)
    BY DEF ToSet
  <2>3. ASSUME NEW x \in ToSet(c.own) PROVE \E k \in DOMAIN c.own : TokenCount(<<c.own[k]>>) = Weight(x)
    <3>1. PICK k \in DOMAIN c.own : c.own[k] = x
      BY DEF ToSet
    <3>2. x \in Names
      BY <2>1, <3>1
    <3>3. TokenCount(<<x>>) = Weight(x)
      BY <1>1, <3>2, CountOne
    <3> QED  BY <3>1, <3>3
  <2>4. OneRowOf(c.own, b) => Cardinality(Rows(c)) = 1
    BY <2>1, OneRowCounts
  <2> QED  BY <1>3, <2>1, <2>2, <2>3, <2>4 DEF Sized, Bounded
<1>4. ChunksFit
  <2>1. \A i \in DOMAIN chunks : chunks[i] \in CutChunks
    BY <1>2
  <2> QED  BY <1>3, <2>1 DEF ChunksFit
<1>5. ASSUME NEW i \in DOMAIN chunks, NEW k \in DOMAIN chunks[i].own, NEW id, id = chunks[i].own[k],
             doc[id[1]].type = "table" /\ id[2] > 2, NEW h \in DOMAIN doc[id[1]].text[1]
      PROVE  Contains(chunks[i].own, <<id[1], 1, h>>) \/ Contains(chunks[i].head, <<id[1], 1, h>>)
  <2>1. PICK c \in CutChunks : c = chunks[i]
    BY <1>2, <1>5
  <2>2. c.own \in Seq(Names) /\ c.head \in Seq(Names) /\ Headed(c.own, c.head)
    BY DEF CutChunks, Chunk
  <2>3. id \in ToSet(c.own) /\ id \in Names
    BY <1>5, <2>1, <2>2 DEF ToSet
  <2>4. PICK b \in 1..Len(doc) : b = id[1]
    BY <1>1, <2>3 DEF Names
  <2>5. <<b, 1, h>> \in ToSet(TextOf(b)[1])
    <3>1. TextOf(b) \in Seq(Seq(Names)) /\ TextOf(b) # <<>>
      BY <1>1, BlockText
    <3>2. 1 \in DOMAIN TextOf(b)
      BY <3>1
    <3>3. ToSet(TextOf(b)[1]) = {<<b, 1, l>> : l \in DOMAIN doc[b].text[1]}
      BY <1>1, <3>2, BlockLines
    <3> QED  BY <1>5, <2>4, <3>3
  <2>6. <<b, 1, h>> \in ToSet(c.own) \cup ToSet(c.head)
    BY <1>5, <2>2, <2>3, <2>4, <2>5 DEF Headed
  <2>7. DOMAIN c.own = 1..Len(c.own) /\ DOMAIN c.head = 1..Len(c.head)
    BY <2>2
  <2> QED  BY <2>1, <2>4, <2>6, <2>7 DEF ToSet, Contains
<1>6. RowsKeepHeader
  BY <1>5 DEF RowsKeepHeader
<1> QED  BY <1>4, <1>6

-----------------------------------------------------------------------------
(* A question and its answers *)

\* What was said after the question of block q, up to block n.
Answers(q, b)    == b >= q /\ doc[b].type # "table" /\ \A u \in (q + 1)..b : ~Opens(u)
AnswerPart(q, b) == IF Answers(q, b) THEN FlattenSeq(TextOf(b)) ELSE <<>>
Answered(q, n)   == FlattenSeq([b \in 1..n |-> AnswerPart(q, b)])

\* Each question up to block n has a pair with all that was said after it: the
\* last one the open pair.
PairsAnswer(p, n) ==
    \A q \in 1..n : Opens(q) =>
        IF \E u \in (q + 1)..n : Opens(u) THEN \E i \in DOMAIN p.all : FlattenSeq(p.all[i]) = Answered(q, n)
        ELSE FlattenSeq(p.q) \o FlattenSeq(p.a) = Answered(q, n)

\* The inductive invariant, with TextInv.
WholeInv == (phase = "pairs" => PairsAnswer(pair, at)) /\ PairsWhole

\* What is said after a question is a text.
LEMMA AnswerType ==
    ASSUME doc \in Seq(Kinds), NEW q, NEW b \in 1..Len(doc) PROVE AnswerPart(q, b) \in Seq(Names)
BY BlockText DEF AnswerPart

\* One more block.
LEMMA AnsweredNext ==
    ASSUME doc \in Seq(Kinds), NEW q, NEW n \in Nat, n < Len(doc)
    PROVE  Answered(q, n + 1) = Answered(q, n) \o AnswerPart(q, n + 1) /\ Answered(q, n) \in Seq(Names)
<1>1. PICK f : f = [b \in 1..(n + 1) |-> AnswerPart(q, b)]
  OBVIOUS
<1>2. \A b \in 1..(n + 1) : f[b] \in Seq(Names)
  <2>1. \A b \in 1..(n + 1) : b \in 1..Len(doc)
    OBVIOUS
  <2> QED  BY <1>1, <2>1, AnswerType
<1>3. /\ [b \in 1..(n + 1) |-> AnswerPart(q, b)] = [b \in 1..(n + 1) |-> f[b]]
      /\ [b \in 1..n |-> AnswerPart(q, b)] = [b \in 1..n |-> f[b]]
      /\ f[n + 1] = AnswerPart(q, n + 1)
  BY <1>1
<1>4. /\ FlattenSeq([b \in 1..(n + 1) |-> f[b]]) = FlattenSeq([b \in 1..n |-> f[b]]) \o f[n + 1]
      /\ FlattenSeq([b \in 1..n |-> f[b]]) \in Seq(Names)
  BY <1>2, PartsFollow
<1> QED  BY <1>3, <1>4 DEF Answered

\* A block that does not answer adds nothing.
LEMMA AnsweredSame ==
    ASSUME doc \in Seq(Kinds), NEW q, NEW n \in Nat, n < Len(doc), ~Answers(q, n + 1)
    PROVE  Answered(q, n + 1) = Answered(q, n)
<1>1. Answered(q, n + 1) = Answered(q, n) \o <<>> /\ Answered(q, n) \in Seq(Names)
  BY AnsweredNext DEF AnswerPart
<1> QED  BY <1>1, ConcatEmptySeq

\* Nothing answers before the question.
LEMMA AnsweredNothing ==
    ASSUME doc \in Seq(Kinds), NEW m \in Nat, m < Len(doc) PROVE Answered(m + 1, m) = <<>>
<1> DEFINE G == {k \in 0..m : Answered(m + 1, k) = <<>>}
<1>1. 0 \in G
  <2>1. [b \in 1..0 |-> AnswerPart(m + 1, b)] = <<>>
    OBVIOUS
  <2>2. Answered(m + 1, 0) = <<>>
    BY <2>1, FlattenNone DEF Answered
  <2> QED  BY <2>2
<1>2. ASSUME NEW k \in 1..m, k - 1 \in G PROVE k \in G
  <2>1. PICK j \in Nat : j = k - 1
    OBVIOUS
  <2>2. j + 1 = k /\ j < Len(doc) /\ k \in 0..m
    BY <2>1
  <2>3. ~Answers(m + 1, j + 1)
    BY <2>2 DEF Answers
  <2>4. Answered(m + 1, j + 1) = Answered(m + 1, j)
    BY <2>2, <2>3, AnsweredSame
  <2> QED  BY <1>2, <2>1, <2>2, <2>4
<1>3. m \in G
  <2> HIDE DEF G
  <2>1. \A k \in 0..m : k \in G
    BY <1>1, <1>2, StepByStep
  <2> QED  BY <2>1
<1> QED  BY <1>3

\* The pairs, with the open one after the others, answer every question.
LEMMA PairFlushedAnswers ==
    ASSUME pair \in PairType, NEW n \in Nat, PairsAnswer(pair, n),
           (\E c \in 1..n : Opens(c)) => pair.q # <<>>,
           NEW q \in 1..n, Opens(q)
    PROVE  \E i \in DOMAIN PairFlushed : FlattenSeq(PairFlushed[i]) = Answered(q, n)
<1>1. PICK T, U : T = Seq(Names) /\ U = Seq(T)
  OBVIOUS
<1>2. PICK x, all : x = pair.q \o pair.a /\ all = pair.all
  OBVIOUS
<1>3. pair.q # <<>>
  OBVIOUS
<1>4. PairFlushed = Append(all, x)
  BY <1>2, <1>3 DEF PairFlushed
<1>5. pair.q \in Seq(T) /\ pair.a \in Seq(T) /\ all \in Seq(U)
  BY <1>1, <1>2, PairParts
<1>6. x \in U
  BY <1>1, <1>2, <1>5, ConcatProperties
<1>7. PICK m \in Nat : /\ m = Len(all) /\ DOMAIN all = 1..m
                       /\ DOMAIN Append(all, x) = 1..(m + 1)
                       /\ Append(all, x)[m + 1] = x
                       /\ \A i \in 1..m : Append(all, x)[i] = all[i]
  BY <1>5, <1>6, AppendProperties
<1>8. CASE \E u \in (q + 1)..n : Opens(u)
  <2>1. PICK i \in DOMAIN all : FlattenSeq(all[i]) = Answered(q, n)
    BY <1>2, <1>8 DEF PairsAnswer
  <2>2. i \in 1..(m + 1) /\ Append(all, x)[i] = all[i]
    BY <1>7, <2>1
  <2> QED  BY <1>4, <1>7, <2>1, <2>2
<1>9. CASE ~\E u \in (q + 1)..n : Opens(u)
  <2>1. FlattenSeq(pair.q) \o FlattenSeq(pair.a) = Answered(q, n)
    BY <1>9 DEF PairsAnswer
  <2>2. FlattenSeq(x) = FlattenSeq(pair.q) \o FlattenSeq(pair.a)
    <3>1. pair.q \in Seq(Seq(Names)) /\ pair.a \in Seq(Seq(Names))
      BY <1>1, <1>5
    <3> QED  BY <1>2, <3>1, FlattenConcat
  <2>3. m + 1 \in 1..(m + 1)
    OBVIOUS
  <2> QED  BY <1>4, <1>7, <2>1, <2>2, <2>3
<1> QED  BY <1>8, <1>9

\* A step of the search for pairs.
LEMMA PairStepAnswers ==
    ASSUME doc' = doc, phase' = "pairs", NEW n, at' = n, PairsAnswer(pair', n) PROVE WholeInv'
<1>1. \A b : Opens(b)' <=> Opens(b)
  BY DEF Opens
<1>2. \A b : TextOf(b)' = TextOf(b)
  BY DEF TextOf
<1>3. \A q, b : AnswerPart(q, b)' = AnswerPart(q, b)
  BY <1>1, <1>2 DEF AnswerPart, Answers
<1>4. \A q : Answered(q, at)' = Answered(q, n)
  BY <1>3 DEF Answered
<1>5. PairsAnswer(pair, at)' <=> PairsAnswer(pair', n)
  BY <1>1, <1>4 DEF PairsAnswer
<1>6. PairsWhole'
  BY DEF PairsWhole
<1> QED  BY <1>5, <1>6 DEF WholeInv

\* A question closes the pair and has itself as its own.
LEMMA QAQuestionAnswers == ASSUME TextInv, WholeInv, QAQuestion PROVE WholeInv'
<1> PICK b : b = at + 1
  OBVIOUS
<1>1. /\ phase = "pairs" /\ phase' = "pairs" /\ todo = <<>> /\ at < Len(doc) /\ at' = b
      /\ doc[b].type # "table" /\ doc[b].says = "question"
      /\ pair' = [q |-> TextOf(b), a |-> <<>>, matched |-> TRUE, all |-> PairFlushed]
      /\ doc' = doc
  BY DEF QAQuestion, NextIs
<1>2. /\ TextOf(b) \in Seq(Seq(Names)) /\ FlattenSeq(TextOf(b)) \in Seq(Names)
      /\ pair \in PairType /\ PairsHold(pair, at)
  BY <1>1, PairsBlock
<1>3. doc \in Seq(Kinds) /\ at \in Nat /\ Len(doc) \in Nat /\ Opens(b) /\ PairsAnswer(pair, at)
  BY <1>1 DEF TextInv, Shape, Opens, WholeInv
<1>4. (\E c \in 1..at : Opens(c)) => pair.q # <<>>
  BY <1>2 DEF PairsHold
<1>5. ASSUME NEW q \in 1..b, Opens(q), \E u \in (q + 1)..b : Opens(u)
      PROVE  \E i \in DOMAIN pair'.all : FlattenSeq(pair'.all[i]) = Answered(q, b)
  <2>1. q \in 1..at /\ q \in Nat
    BY <1>3, <1>5
  <2>2. \E i \in DOMAIN PairFlushed : FlattenSeq(PairFlushed[i]) = Answered(q, at)
    BY <1>2, <1>3, <1>4, <1>5, <2>1, PairFlushedAnswers
  <2>3. ~Answers(q, b)
    <3>1. b \in (q + 1)..b
      BY <1>3, <2>1
    <3> QED  BY <1>3, <3>1 DEF Answers
  <2>4. Answered(q, at + 1) = Answered(q, at)
    BY <1>1, <1>3, <2>3, AnsweredSame
  <2> QED  BY <1>1, <2>2, <2>4
<1>6. ASSUME NEW q \in 1..b, Opens(q), ~\E u \in (q + 1)..b : Opens(u)
      PROVE  FlattenSeq(pair'.q) \o FlattenSeq(pair'.a) = Answered(q, b)
  <2>1. q = b
    <3>1. q < b => b \in (q + 1)..b
      BY <1>3
    <3> QED  BY <1>3, <1>6, <3>1
  <2>2. Answers(b, b)
    <3>1. ~\E u : u \in (b + 1)..b
      BY <1>3
    <3>2. b >= b
      BY <1>3
    <3> QED  BY <1>1, <3>1, <3>2 DEF Answers
  <2>3. Answered(b, at + 1) = Answered(b, at) \o FlattenSeq(TextOf(b))
    BY <1>1, <1>3, <2>2, AnsweredNext DEF AnswerPart
  <2>4. Answered(b, at) = <<>>
    BY <1>1, <1>3, AnsweredNothing
  <2>5. <<>> \o FlattenSeq(TextOf(b)) = FlattenSeq(TextOf(b)) \o <<>>
    BY <1>2, ConcatEmptySeq
  <2> QED  BY <1>1, <2>1, <2>3, <2>4, <2>5, FlattenNone
<1>7. PairsAnswer(pair', b)
  BY <1>5, <1>6 DEF PairsAnswer
<1> QED  BY <1>1, <1>7, PairStepAnswers

\* What is said goes to the last question.
LEMMA QAAnswerAnswers == ASSUME TextInv, WholeInv, QAAnswer PROVE WholeInv'
<1> PICK b : b = at + 1
  OBVIOUS
<1>1. /\ phase = "pairs" /\ phase' = "pairs" /\ todo = <<>> /\ at < Len(doc) /\ at' = b
      /\ doc[b].type # "table" /\ doc[b].says # "question"
      /\ pair' = IF doc[b].says = "answer" THEN [pair EXCEPT !.a = Glue(pair.a, TextOf(b))]
                 ELSE IF pair.matched THEN [pair EXCEPT !.a = pair.a \o TextOf(b)]
                 ELSE pair
      /\ doc' = doc
  BY DEF QAAnswer, NextIs
<1>2. /\ TextOf(b) \in Seq(Seq(Names)) /\ FlattenSeq(TextOf(b)) \in Seq(Names)
      /\ pair \in PairType /\ PairsHold(pair, at)
  BY <1>1, PairsBlock
<1>3. doc \in Seq(Kinds) /\ at \in Nat /\ Len(doc) \in Nat /\ ~Opens(b) /\ PairsAnswer(pair, at)
  BY <1>1 DEF TextInv, Shape, Opens, WholeInv
<1>4. pair.q \in Seq(Seq(Names)) /\ pair.a \in Seq(Seq(Names))
      /\ FlattenSeq(pair.q) \in Seq(Names) /\ FlattenSeq(pair.a) \in Seq(Names)
  BY <1>2, PairParts
<1>5. pair'.q = pair.q /\ pair'.all = pair.all
  BY <1>1, <1>2 DEF PairType
<1>6. pair.matched => FlattenSeq(pair'.a) = FlattenSeq(pair.a) \o FlattenSeq(TextOf(b))
  <2>1. FlattenSeq(Glue(pair.a, TextOf(b))) = FlattenSeq(pair.a) \o FlattenSeq(TextOf(b))
    BY <1>2, <1>4, GlueKeeps
  <2>2. FlattenSeq(pair.a \o TextOf(b)) = FlattenSeq(pair.a) \o FlattenSeq(TextOf(b))
    BY <1>2, <1>4, FlattenConcat
  <2>3. pair.matched => pair'.a = Glue(pair.a, TextOf(b)) \/ pair'.a = pair.a \o TextOf(b)
    BY <1>1, <1>2 DEF PairType
  <2> QED  BY <2>1, <2>2, <2>3
<1>7. ASSUME NEW q \in 1..b, Opens(q)
      PROVE  q \in 1..at /\ q \in Nat /\ pair.matched
             /\ ((\E u \in (q + 1)..b : Opens(u)) <=> (\E u \in (q + 1)..at : Opens(u)))
  <2>1. q # b
    BY <1>3, <1>7
  <2>2. q \in 1..at /\ q \in Nat
    BY <1>3, <2>1
  <2>3. \A u : u \in (q + 1)..b <=> u \in (q + 1)..at \/ u = b
    BY <1>3, <2>2
  <2> QED  BY <1>2, <1>3, <1>7, <2>2, <2>3 DEF PairsHold
<1>8. ASSUME NEW q \in 1..b, Opens(q), \E u \in (q + 1)..b : Opens(u)
      PROVE  \E i \in DOMAIN pair'.all : FlattenSeq(pair'.all[i]) = Answered(q, b)
  <2>1. \E i \in DOMAIN pair.all : FlattenSeq(pair.all[i]) = Answered(q, at)
    BY <1>3, <1>7, <1>8 DEF PairsAnswer
  <2>2. ~Answers(q, b)
    BY <1>8 DEF Answers
  <2>3. Answered(q, at + 1) = Answered(q, at)
    BY <1>1, <1>3, <2>2, AnsweredSame
  <2> QED  BY <1>5, <2>1, <2>3
<1>9. ASSUME NEW q \in 1..b, Opens(q), ~\E u \in (q + 1)..b : Opens(u)
      PROVE  FlattenSeq(pair'.q) \o FlattenSeq(pair'.a) = Answered(q, b)
  <2>1. q \in 1..at /\ pair.matched /\ ~\E u \in (q + 1)..at : Opens(u)
    BY <1>7, <1>9
  <2>2. FlattenSeq(pair.q) \o FlattenSeq(pair.a) = Answered(q, at)
    BY <1>3, <1>9, <2>1 DEF PairsAnswer
  <2>3. b >= q
    BY <1>3
  <2>4. Answers(q, b)
    BY <1>1, <1>9, <2>3 DEF Answers
  <2>5. Answered(q, at + 1) = Answered(q, at) \o FlattenSeq(TextOf(b))
    BY <1>1, <1>3, <2>4, AnsweredNext DEF AnswerPart
  <2>6. PICK x, y, z : x = FlattenSeq(pair.q) /\ y = FlattenSeq(pair.a) /\ z = FlattenSeq(TextOf(b))
    OBVIOUS
  <2>7. (x \o y) \o z = x \o (y \o z)
    <3>1. x \in Seq(Names) /\ y \in Seq(Names) /\ z \in Seq(Names)
      BY <1>2, <1>4, <2>6
    <3>2. Grouped(x, y, z)
      BY <3>1, Grouping
    <3> QED  BY <3>2 DEF Grouped
  <2> QED  BY <1>5, <1>6, <2>1, <2>2, <2>5, <2>6, <2>7
<1>10. PairsAnswer(pair', b)
  BY <1>8, <1>9 DEF PairsAnswer
<1> QED  BY <1>1, <1>10, PairStepAnswers

\* Tables are no answers.
LEMMA SkipTableAnswers == ASSUME TextInv, WholeInv, SkipTable PROVE WholeInv'
<1> PICK b : b = at + 1
  OBVIOUS
<1>1. /\ phase = "pairs" /\ phase' = "pairs" /\ at < Len(doc) /\ at' = b /\ doc[b].type = "table"
      /\ doc' = doc /\ pair' = pair
  BY DEF SkipTable, NextIs
<1>2. doc \in Seq(Kinds) /\ at \in Nat /\ Len(doc) \in Nat /\ ~Opens(b) /\ PairsAnswer(pair, at)
  BY <1>1 DEF TextInv, Shape, Opens, WholeInv
<1>3. ASSUME NEW q \in 1..b, Opens(q)
      PROVE  q \in 1..at /\ Answered(q, b) = Answered(q, at)
             /\ ((\E u \in (q + 1)..b : Opens(u)) <=> (\E u \in (q + 1)..at : Opens(u)))
  <2>1. q # b
    BY <1>2, <1>3
  <2>2. q \in 1..at /\ q \in Nat
    BY <1>2, <2>1
  <2>3. \A u : u \in (q + 1)..b <=> u \in (q + 1)..at \/ u = b
    BY <1>2, <2>2
  <2>4. ~Answers(q, b)
    BY <1>1 DEF Answers
  <2>5. Answered(q, at + 1) = Answered(q, at)
    BY <1>1, <1>2, <2>4, AnsweredSame
  <2> QED  BY <1>2, <2>2, <2>3, <2>5
<1>4. PairsAnswer(pair', b)
  BY <1>1, <1>2, <1>3 DEF PairsAnswer
<1> QED  BY <1>1, <1>4, PairStepAnswers

\* A step that does not end the search for pairs.
LEMMA OtherWhole ==
    ASSUME phase' # "pairs", phase' # "end" \/ Template' # "qa" PROVE WholeInv'
BY DEF WholeInv, PairsWhole

\* The pairs that fit become chunks as they are.
LEMMA EndQAWhole == ASSUME TextInv, WholeInv, EndQA PROVE WholeInv'
<1>1. /\ phase = "pairs" /\ at = Len(doc)
      /\ UNCHANGED <<doc, method, todo, sec, cur, mark, pair>>
  BY DEF EndQA
<1>2. /\ doc \in Seq(Kinds) /\ pair \in PairType /\ at \in Nat /\ DOMAIN doc = 1..at
      /\ PairsKept /\ PairsAnswer(pair, at)
  BY <1>1 DEF TextInv, Shape, TextKept, WholeInv
<1>3. PICK pairs : pairs = PairFlushed
  OBVIOUS
<1>4. CASE ~pair.matched \/ pairs = <<>>
  <2>1. phase' = "split"
    BY <1>3, <1>4 DEF EndQA
  <2> QED  BY <2>1, OtherWhole
<1>5. CASE ~(~pair.matched \/ pairs = <<>>)
  <2>1. /\ phase' = "end"
        /\ chunks' = FlattenSeq([i \in DOMAIN pairs |-> PairChunks(pairs[i])])
    BY <1>3, <1>5 DEF EndQA, PairChunks, PairPieces
  <2>2. pairs \in Seq(Seq(Seq(Names)))
    BY <1>2, <1>3, PairFlushedHolds
  <2>3. PICK css, T : css = [i \in DOMAIN pairs |-> PairChunks(pairs[i])] /\ T = Seq(Chunk)
    OBVIOUS
  <2>4. PICK n \in Nat : DOMAIN pairs = 1..n
    BY <2>2
  <2>5. ASSUME NEW i \in 1..n PROVE css[i] \in T
    <3>1. pairs[i] \in Seq(Seq(Names))
      BY <2>2, <2>4
    <3> QED  BY <1>2, <2>3, <2>4, <3>1, PairChunksHold
  <2>6. css \in Seq(Seq(Chunk)) /\ DOMAIN css = 1..n
    <3>1. css = [i \in 1..n |-> css[i]]
      BY <2>3, <2>4
    <3> QED  BY <2>3, <2>5, <3>1, SequenceIs
  <2>7. PICK cs : cs = FlattenSeq(css) /\ cs \in Seq(Chunk)
    BY <2>6, FlattenType
  <2>8. ToSet(cs) = UNION {ToSet(css[i]) : i \in DOMAIN css}
    BY <2>6, <2>7, SetOfFlatten
  <2>9. ASSUME NEW q \in 1..at, Opens(q), TokenCount(Answered(q, at)) <= 2 * MaxTokens
        PROVE  \E k \in DOMAIN cs : cs[k].own = Answered(q, at)
    <3>1. PICK i \in DOMAIN pairs : FlattenSeq(pairs[i]) = Answered(q, at)
      <4>1. (\E c \in 1..at : Opens(c)) => pair.q # <<>>
        BY <1>2 DEF PairsKept
      <4> QED  BY <1>2, <1>3, <2>9, <4>1, PairFlushedAnswers
    <3>2. PICK x : x = Answered(q, at)
      OBVIOUS
    <3>3. PairPieces(pairs[i]) = <<x>>
      BY <2>9, <3>1, <3>2 DEF PairPieces
    <3>4. PICK c : c = Alone(Piece(x, <<>>), {}, 0)
      OBVIOUS
    <3>5. css[i] = <<c>>
      BY <2>3, <3>1, <3>3, <3>4 DEF PairChunks
    <3>6. c.own = x
      BY <3>4 DEF Alone, Piece
    <3>7. c \in ToSet(cs)
      <4>1. c \in ToSet(css[i])
        BY <3>5, SetOfOne
      <4>2. i \in DOMAIN css
        BY <2>4, <2>6, <3>1
      <4> QED  BY <2>8, <4>1, <4>2
    <3>8. PICK k \in DOMAIN cs : cs[k] = c
      BY <3>7 DEF ToSet
    <3> QED  BY <3>2, <3>6, <3>8
  <2>10. \A q \in 1..at : Answered(q, at) =
           FlattenSeq([b \in 1..at |->
              IF b \in {d \in q..at : doc[d].type # "table" /\ \A u \in (q + 1)..d : ~Opens(u)}
              THEN FlattenSeq(TextOf(b)) ELSE <<>>])
    <3>1. SUFFICES ASSUME NEW q \in 1..at
                   PROVE  \A b \in 1..at :
                            Answers(q, b) <=>
                              b \in {d \in q..at : doc[d].type # "table" /\ \A u \in (q + 1)..d : ~Opens(u)}
      BY DEF Answered, AnswerPart
    <3> QED  BY <1>2 DEF Answers
  <2>11. PairsWhole'
    <3>1. chunks' = cs /\ doc' = doc /\ Len(doc) = at
      BY <1>1, <2>1, <2>3, <2>7
    <3>2. \A b : TextOf(b)' = TextOf(b)
      BY <3>1 DEF TextOf
    <3>3. \A s : TokenCount(s)' = TokenCount(s)
      BY <3>1 DEF TokenCount
    <3>4. MaxTokens' = MaxTokens
      BY DEF MaxTokens
    <3>5. ASSUME NEW q \in 1..at, NEW text,
                 text = FlattenSeq([b \in 1..at |->
                    IF b \in {d \in q..at : /\ doc[d].type # "table"
                                            /\ \A u \in (q + 1)..d :
                                                 ~(doc[u].says = "question" /\ doc[u].type # "table")}
                    THEN FlattenSeq(TextOf(b)) ELSE <<>>]),
                 doc[q].says = "question" /\ doc[q].type # "table", TokenCount(text) <= 2 * MaxTokens
          PROVE  \E i \in DOMAIN cs : cs[i].own = text
      <4>1. text = Answered(q, at) /\ Opens(q)
        BY <2>10, <3>5 DEF Opens
      <4> QED  BY <2>9, <3>5, <4>1
    <3>6. SUFFICES ASSUME NEW q \in DOMAIN doc', NEW text,
                          text = FlattenSeq([b \in DOMAIN doc' |->
                             IF b \in {d \in q..Len(doc') :
                                        /\ doc'[d].type # "table"
                                        /\ \A u \in (q + 1)..d :
                                             ~(doc'[u].says = "question" /\ doc'[u].type # "table")}
                             THEN FlattenSeq(TextOf(b)') ELSE <<>>]),
                          doc'[q].says = "question" /\ doc'[q].type # "table",
                          TokenCount(text)' <= 2 * MaxTokens'
                   PROVE  \E i \in DOMAIN chunks' : chunks'[i].own = text
      BY DEF PairsWhole
    <3>7. q \in 1..at /\ doc[q].says = "question" /\ doc[q].type # "table" /\ TokenCount(text) <= 2 * MaxTokens
      BY <1>2, <3>1, <3>3, <3>4, <3>6
    <3>8. text = FlattenSeq([b \in 1..at |->
                    IF b \in {d \in q..at : /\ doc[d].type # "table"
                                            /\ \A u \in (q + 1)..d :
                                                 ~(doc[u].says = "question" /\ doc[u].type # "table")}
                    THEN FlattenSeq(TextOf(b)) ELSE <<>>])
      BY <1>2, <3>1, <3>2, <3>6
    <3> QED  BY <3>1, <3>5, <3>7, <3>8
  <2> QED  BY <2>1, <2>11 DEF WholeInv
<1> QED  BY <1>4, <1>5

\* No pair is open at the start.
LEMMA WholeInvInit == ASSUME ChunkInit PROVE WholeInv
<1>1. at = 0 /\ phase # "end"
  BY DEF ChunkInit
<1> QED  BY <1>1 DEF WholeInv, PairsAnswer, PairsWhole

\* A step that changes nothing keeps the pairs.
LEMMA WholeInvStutters == ASSUME WholeInv, UNCHANGED chunkVars PROVE WholeInv'
<1>1. UNCHANGED <<doc, method, phase, at, todo, sec, cur, mark, pair, chunks>>
  BY DEF chunkVars
<1>2. CASE phase = "pairs"
  <2>1. PairsAnswer(pair', at)
    BY <1>1, <1>2 DEF WholeInv, PairsAnswer
  <2> QED  BY <1>1, <1>2, <2>1, PairStepAnswers
<1>3. CASE phase # "pairs"
  <2>1. PairsWhole'
    <3>1. \A b : TextOf(b)' = TextOf(b)
      BY <1>1 DEF TextOf
    <3>2. \A s : TokenCount(s)' = TokenCount(s)
      BY <1>1 DEF TokenCount
    <3>3. MaxTokens' = MaxTokens /\ Template' = Template
      BY <1>1 DEF MaxTokens, Template
    <3>4. PairsWhole
      BY DEF WholeInv
    <3> QED  BY <1>1, <3>1, <3>2, <3>3, <3>4 DEF PairsWhole
  <2> QED  BY <1>1, <1>3, <2>1 DEF WholeInv
<1> QED  BY <1>2, <1>3

\* Every step keeps the invariant.
LEMMA WholeInvNext == ASSUME TextInv, WholeInv, [ChunkNext]_chunkVars PROVE WholeInv'
<1>1. CASE Title \/ Image \/ Item \/ BigTable \/ Body
  <2>1. phase = "split" /\ phase' = phase
    BY <1>1 DEF Title, Image, Item, BigTable, Body, Naive
  <2> QED  BY <2>1, OtherWhole
<1>2. CASE Join \/ Overflow
  <2>1. todo # <<>> /\ phase' = phase
    BY <1>2 DEF Join, Overflow
  <2>2. phase = "split"
    BY <2>1, PieceGoes
  <2> QED  BY <2>1, <2>2, OtherWhole
<1>3. CASE EndNaive
  <2>1. phase' = "end" /\ Template' = Template /\ Naive
    BY <1>3 DEF EndNaive, Template
  <2>2. Template # "qa"
    BY <2>1 DEF TextInv, Phases, Template, Naive
  <2> QED  BY <2>1, <2>2, OtherWhole
<1>4. CASE TableOnly \/ One
  <2>1. method \in {"table", "one"} /\ method' = method
    BY <1>4 DEF TableOnly, One
  <2>2. Template' # "qa"
    BY <2>1 DEF Template
  <2>3. phase' # "pairs"
    BY <1>4, <2>1 DEF TextInv, Phases, TableOnly, One
  <2> QED  BY <2>2, <2>3, OtherWhole
<1>5. CASE QAQuestion
  BY <1>5, QAQuestionAnswers
<1>6. CASE QAAnswer
  BY <1>6, QAAnswerAnswers
<1>7. CASE SkipTable
  BY <1>7, SkipTableAnswers
<1>8. CASE EndQA
  BY <1>8, EndQAWhole
<1>9. CASE UNCHANGED chunkVars
  BY <1>9, WholeInvStutters
<1> QED  BY <1>1, <1>2, <1>3, <1>4, <1>5, <1>6, <1>7, <1>8, <1>9 DEF ChunkNext

\* However a text is cut, a chunk is within the limit as far as the cut can
\* reach, a row has its header, and a question what was said after it.
THEOREM CutsKeepAlways == ChunkSpec => []CutsKeep
<1>1. ChunkInit => TextInv /\ PlaceInv /\ CutInv /\ WholeInv
  BY TextInvInit, PlaceInvInit, CutInvInit, WholeInvInit
<1>2. TextInv /\ PlaceInv /\ CutInv /\ WholeInv /\ [ChunkNext]_chunkVars
        => (TextInv /\ PlaceInv /\ CutInv /\ WholeInv)'
  BY TextInvNext, PlaceInvNext, CutInvNext, WholeInvNext
<1>3. TextInv /\ PlaceInv /\ CutInv /\ WholeInv => CutsKeep
  BY CutInvCuts DEF WholeInv, CutsKeep
<1> QED  BY <1>1, <1>2, <1>3, PTL DEF ChunkSpec

-----------------------------------------------------------------------------
(* Types *)

\* A text of at least one sentence: none but such is asked or said.
Spoken == {t \in Seq(Seq(Names)) : FlattenSeq(t) # <<>>}

PairSpoken(p) ==
    /\ p.q # <<>> => p.q \in Spoken
    /\ p.a # <<>> => p.a \in Spoken
    /\ p.all \in Seq(Spoken)

\* A chunk has text, and says of the document what can be.
Laps == {NoLap} \cup 0..MaxLap
FormedChunks ==
    {c \in Chunk : /\ c.own # <<>> /\ c.start \in 0..Len(doc) /\ c.tokens \in Nat
                   /\ c.lap \in Laps /\ c.headings \subseteq 1..Len(doc)}

StackFormed(s) == Len(s) <= 6 /\ \A i \in DOMAIN s : s[i] \in 0..Len(doc)
MarkFormed(m)  == m.headings \subseteq 1..Len(doc) /\ m.start \in 0..Len(doc)
OpenFormed(c)  == c.tokens \in Nat /\ c.lap \in Laps

\* The inductive invariant, with TextInv: whatever is noted is of this document,
\* and no chunk and no pair is without text.
FormInv ==
    /\ doc \in Docs /\ method \in Methods
    /\ StackFormed(sec) /\ MarkFormed(mark) /\ OpenFormed(cur) /\ PairSpoken(pair)
    /\ chunks \in Seq(FormedChunks)

\* A step that notes only what is of the document.
LEMMA FormStep ==
    ASSUME FormInv, doc' = doc, method' = method,
           StackFormed(sec'), MarkFormed(mark'), OpenFormed(cur'), PairSpoken(pair'),
           chunks' \in Seq(FormedChunks)
    PROVE  FormInv'
<1>1. Names' = Names
  BY DEF Names
<1>2. Chunk' = Chunk
  BY <1>1 DEF Chunk
<1>3. Laps' = Laps
  BY DEF Laps, NoLap, MaxLap, TailRunes, MaxTokens, Overlap
<1>4. FormedChunks' = FormedChunks
  BY <1>2, <1>3 DEF FormedChunks
<1>5. Spoken' = Spoken
  BY <1>1 DEF Spoken
<1>6. StackFormed(sec)' /\ MarkFormed(mark)' /\ OpenFormed(cur)'
  BY <1>3 DEF StackFormed, MarkFormed, OpenFormed
<1>7. PairSpoken(pair)'
  BY <1>5 DEF PairSpoken
<1>8. doc' \in Docs' /\ method' \in Methods
  BY DEF FormInv, Docs
<1> QED  BY <1>4, <1>6, <1>7, <1>8 DEF FormInv

\* The titles of a path are of the document.
LEMMA PathFormed ==
    ASSUME NEW s, StackFormed(s) PROVE Path(s) \subseteq 1..Len(doc) /\ Path(s) \in SUBSET Int
BY DEF StackFormed, Path

\* What is noted of the beginning is of the document.
LEMMA MarkedFormed ==
    ASSUME FormInv, NEW b \in 0..Len(doc) PROVE MarkFormed(Marked(b))
<1>1. Path(sec) \subseteq 1..Len(doc)
  BY PathFormed DEF FormInv
<1> QED  BY <1>1 DEF Marked, MarkFormed, FormInv

\* The empty chunk has no tokens and no overlap.
LEMMA EmptyFormed == OpenFormed(Empty)
BY DEF OpenFormed, Empty, Laps

\* The tokens of an overlap are a number.
LEMMA LapCounted == ASSUME NEW l \in Laps PROVE Lapped(l) \in Nat /\ l \in Int
BY MaxTokensType DEF Laps, Lapped, NoLap

\* The open chunk, closed with a mark.
LEMMA ClosedFormed ==
    ASSUME Shape, FormInv, cur.own # <<>>, NEW m \in Marks, MarkFormed(m), NEW c,
           c = [own |-> cur.own, lap |-> cur.lap, head |-> <<>>, start |-> m.start,
                tokens |-> TokenCount(cur.own) + Lapped(cur.lap), headings |-> m.headings]
    PROVE  c \in FormedChunks
<1>1. cur.own \in Seq(Names) /\ cur.lap \in Laps /\ cur.lap \in Int
      /\ m.start \in Int /\ m.headings \in SUBSET Int
  BY LapCounted DEF Shape, Opened, Marks, FormInv, OpenFormed
<1>2. PICK n \in Nat : n = TokenCount(cur.own) + Lapped(cur.lap)
  <2>1. doc \in Seq(Kinds)
    BY DEF Shape
  <2>2. PICK x \in Nat : x = TokenCount(cur.own)
    BY <1>1, <2>1, CountType
  <2>3. PICK y \in Nat : y = Lapped(cur.lap)
    BY <1>1, LapCounted
  <2>4. x + y \in Nat
    OBVIOUS
  <2> QED  BY <2>2, <2>3, <2>4
<1>3. c = [own |-> cur.own, lap |-> cur.lap, head |-> <<>>, start |-> m.start,
           tokens |-> n, headings |-> m.headings]
  BY <1>2
<1>4. c \in Chunk
  BY <1>1, <1>3 DEF Chunk
<1> QED  BY <1>1, <1>3, <1>4 DEF FormedChunks, MarkFormed

\* flush adds the open chunk only if it has text.
LEMMA FlushedFormed == ASSUME Shape, FormInv PROVE Flushed \in Seq(FormedChunks)
<1>1. chunks \in Seq(FormedChunks) /\ mark \in Marks /\ MarkFormed(mark)
  BY DEF FormInv, Shape
<1>2. CASE cur.own = <<>>
  BY <1>1, <1>2 DEF Flushed
<1>3. CASE cur.own # <<>>
  <2>1. PICK c : c = [own |-> cur.own, lap |-> cur.lap, head |-> <<>>, start |-> mark.start,
                      tokens |-> TokenCount(cur.own) + Lapped(cur.lap), headings |-> mark.headings]
    OBVIOUS
  <2>2. c \in FormedChunks
    BY <1>1, <1>3, <2>1, ClosedFormed
  <2>3. Flushed = Append(chunks, c)
    BY <1>3, <2>1 DEF Flushed
  <2> QED  BY <1>1, <2>2, <2>3, AppendType
<1> QED  BY <1>2, <1>3

\* A piece that is a chunk of its own.
LEMMA AloneFormed ==
    ASSUME doc \in Seq(Kinds), NEW p \in PieceType, p.own # <<>>,
           NEW h \in SUBSET (1..Len(doc)), NEW b \in 0..Len(doc)
    PROVE  Alone(p, h, b) \in FormedChunks
<1>1. h \in SUBSET Int /\ b \in Int
  OBVIOUS
<1>2. PICK c : c = Alone(p, h, b)
  OBVIOUS
<1>3. /\ c \in Chunk /\ c.own = p.own /\ c.lap = NoLap
      /\ c.tokens = TokenCount(p.head) + TokenCount(p.own)
      /\ TokenCount(p.own) \in Nat /\ TokenCount(p.head) \in Nat
  BY <1>1, <1>2, AloneIs
<1>4. c.tokens \in Nat
  BY <1>3
<1>5. c.start = b /\ c.headings = h
  BY <1>2 DEF Alone
<1> QED  BY <1>2, <1>3, <1>4, <1>5 DEF FormedChunks, Laps

\* The pieces of a table as chunks.
LEMMA TableFormed ==
    ASSUME doc \in Seq(Kinds), NEW b \in 1..Len(doc), doc[b].type = "table",
           NEW h \in SUBSET (1..Len(doc)), NEW cs, cs = AllAlone(SplitTable(TextOf(b)), h, b)
    PROVE  cs \in Seq(FormedChunks)
<1>1. PICK ps : ps = SplitTable(TextOf(b)) /\ ps \in Seq(PieceType)
  <2>1. TextOf(b) \in Seq(Seq(Names)) /\ TextOf(b) # <<>>
    BY BlockText
  <2> QED  BY <2>1, SplitTableKeeps
<1>2. ASSUME NEW i \in DOMAIN ps PROVE Alone(ps[i], h, b) \in FormedChunks
  <2>1. PICK p \in PieceType : p = ps[i]
    BY <1>1, <1>2
  <2>2. TablePiece(p, b)
    BY <1>1, <1>2, <2>1, SplitTableCuts
  <2>3. p.own # <<>> /\ b \in 0..Len(doc)
    BY <2>2 DEF TablePiece
  <2> QED  BY <2>1, <2>3, AloneFormed
<1>3. PICK n \in Nat : DOMAIN ps = 1..n
  BY <1>1
<1>4. cs = [i \in 1..n |-> Alone(ps[i], h, b)]
  BY <1>1, <1>3 DEF AllAlone
<1> QED  BY <1>2, <1>3, <1>4

\* What is known of the document and of the next block.
LEMMA FormDoc ==
    ASSUME TextInv, FormInv
    PROVE  /\ Shape /\ doc \in Seq(Kinds) /\ at \in Nat /\ at <= Len(doc) /\ Len(doc) \in Nat
           /\ StackFormed(sec) /\ MarkFormed(mark) /\ OpenFormed(cur) /\ PairSpoken(pair)
           /\ chunks \in Seq(FormedChunks) /\ at \in 0..Len(doc)
           /\ at < Len(doc) => at + 1 \in 1..Len(doc) /\ at + 1 \in 0..Len(doc)
BY DEF TextInv, Shape, FormInv

\* A title is put on the stack at a level from 1 to 6.
LEMMA TitleForms == ASSUME TextInv, FormInv, Title PROVE FormInv'
<1> PICK b : b = at + 1
  OBVIOUS
<1> PICK s : s = PushTitle(sec, Clamp(doc[b].level), b)
  OBVIOUS
<1>1. /\ at < Len(doc)
      /\ chunks' = Flushed /\ cur' = Empty /\ sec' = s
      /\ mark' = [headings |-> Path(s), start |-> b]
      /\ UNCHANGED <<doc, method, pair>>
  BY DEF Title, NextIs
<1>2. Shape /\ doc \in Seq(Kinds) /\ b \in 1..Len(doc) /\ b \in 0..Len(doc) /\ PairSpoken(pair)
  BY <1>1, FormDoc
<1>3. StackFormed(s)
  <2>1. PICK l \in 1..6 : l = Clamp(doc[b].level)
    BY <1>2, LevelOf
  <2>2. s = [i \in 1..l |-> IF i = l THEN b ELSE IF i <= Len(sec) THEN sec[i] ELSE 0]
    BY <2>1 DEF PushTitle
  <2>3. sec \in Seq(Int) /\ \A i \in DOMAIN sec : sec[i] \in 0..Len(doc)
    BY <1>2 DEF Shape, FormInv, StackFormed
  <2>4. \A i \in 1..l : i <= Len(sec) => i \in DOMAIN sec
    BY <2>3
  <2>5. 0 \in 0..Len(doc)
    BY <1>2
  <2>6. \A i \in 1..l : s[i] \in 0..Len(doc)
    BY <1>2, <2>2, <2>3, <2>4, <2>5
  <2>7. Len(s) = l /\ DOMAIN s = 1..l
    BY <2>2
  <2> QED  BY <2>6, <2>7 DEF StackFormed
<1>4. MarkFormed([headings |-> Path(s), start |-> b])
  BY <1>2, <1>3, PathFormed DEF MarkFormed
<1>5. Flushed \in Seq(FormedChunks)
  BY <1>2, FlushedFormed
<1> QED  BY <1>1, <1>2, <1>3, <1>4, <1>5, EmptyFormed, FormStep

\* Steps that leave alone what has a form but for the pairs and the pieces.
LEMMA OtherForms ==
    ASSUME FormInv, UNCHANGED <<doc, method, sec, mark, cur, pair, chunks>> PROVE FormInv'
BY FormStep DEF FormInv

\* An item of a resume is a chunk with its text.
LEMMA ItemForms == ASSUME TextInv, FormInv, Item PROVE FormInv'
<1> PICK b : b = at + 1
  OBVIOUS
<1> PICK p, c : p = Piece(FlattenSeq(TextOf(b)), <<>>) /\ c = Alone(p, Path(sec), b)
  OBVIOUS
<1>1. /\ at < Len(doc)
      /\ chunks' = Append(Flushed, c) /\ cur' = Empty
      /\ mark' = [mark EXCEPT !.headings = Path(sec)]
      /\ UNCHANGED <<doc, method, sec, pair>>
  BY DEF Item, NextIs
<1>2. /\ Shape /\ doc \in Seq(Kinds) /\ b \in 1..Len(doc) /\ b \in 0..Len(doc) /\ PairSpoken(pair)
      /\ StackFormed(sec) /\ MarkFormed(mark)
  BY <1>1, FormDoc
<1>3. Path(sec) \in SUBSET (1..Len(doc))
  BY <1>2, PathFormed
<1>4. PICK whole : whole = FlattenSeq(TextOf(b)) /\ whole \in Seq(Names) /\ whole # <<>>
  BY <1>2, BlockWhole
<1>5. p \in PieceType /\ p.own # <<>>
  <2>1. p = [own |-> whole, head |-> <<>>]
    BY <1>4 DEF Piece
  <2>2. whole \in Seq(Names) /\ <<>> \in Seq(Names)
    BY <1>4
  <2>3. [own |-> whole, head |-> <<>>] \in PieceType
    BY <2>2 DEF PieceType
  <2> QED  BY <1>4, <2>1, <2>3
<1>6. chunks' \in Seq(FormedChunks)
  <2>1. c \in FormedChunks
    BY <1>2, <1>3, <1>5, AloneFormed
  <2> QED  BY <1>1, <1>2, <2>1, FlushedFormed, AppendType
<1>7. MarkFormed(mark')
  <2>1. mark \in Marks
    BY <1>2 DEF Shape
  <2>2. mark'.headings = Path(sec) /\ mark'.start = mark.start
    BY <1>1, <2>1 DEF Marks
  <2> QED  BY <1>2, <1>3, <2>2 DEF MarkFormed
<1> QED  BY <1>1, <1>2, <1>6, <1>7, EmptyFormed, FormStep

\* A table that is too long closes the open chunk and becomes chunks with rows.
LEMMA BigTableForms == ASSUME TextInv, FormInv, BigTable PROVE FormInv'
<1> PICK b : b = at + 1
  OBVIOUS
<1> PICK noted : noted = Marked(b)
  OBVIOUS
<1> PICK c : c = [own |-> cur.own, lap |-> cur.lap, head |-> <<>>, start |-> noted.start,
                  tokens |-> TokenCount(cur.own) + Lapped(cur.lap), headings |-> noted.headings]
  OBVIOUS
<1> PICK last : last = IF cur.own = <<>> THEN <<>> ELSE <<c>>
  OBVIOUS
<1> PICK cs : cs = AllAlone(SplitTable(TextOf(b)), Path(sec), b)
  OBVIOUS
<1>1. /\ at < Len(doc) /\ doc[b].type = "table"
      /\ chunks' = (chunks \o last) \o cs /\ cur' = Empty
      /\ mark' = [noted EXCEPT !.headings = Path(sec)]
      /\ UNCHANGED <<doc, method, sec, pair>>
  BY DEF BigTable, NextIs
<1>2. /\ Shape /\ doc \in Seq(Kinds) /\ b \in 1..Len(doc) /\ b \in 0..Len(doc) /\ PairSpoken(pair)
      /\ StackFormed(sec) /\ MarkFormed(mark) /\ chunks \in Seq(FormedChunks)
  BY <1>1, FormDoc
<1>3. Path(sec) \in SUBSET (1..Len(doc))
  BY <1>2, PathFormed
<1>4. noted \in Marks /\ MarkFormed(noted)
  <2>1. b \in Int
    BY <1>2
  <2> QED  BY <1>2, <2>1, MarkedType, MarkedFormed
<1>5. last \in Seq(FormedChunks)
  <2>1. CASE cur.own = <<>>
    BY <2>1
  <2>2. CASE cur.own # <<>>
    <3>1. c \in FormedChunks
      BY <1>2, <1>4, <2>2, ClosedFormed
    <3> QED  BY <2>2, <3>1
  <2> QED  BY <2>1, <2>2
<1>6. cs \in Seq(FormedChunks)
  BY <1>1, <1>2, <1>3, TableFormed
<1>7. chunks' \in Seq(FormedChunks)
  <2>1. chunks \o last \in Seq(FormedChunks)
    BY <1>2, <1>5, ConcatProperties
  <2> QED  BY <1>1, <1>6, <2>1, ConcatProperties
<1>8. MarkFormed(mark')
  <2>1. mark'.headings = Path(sec) /\ mark'.start = noted.start
    BY <1>1, <1>4 DEF Marks
  <2> QED  BY <1>3, <1>4, <2>1 DEF MarkFormed
<1> QED  BY <1>1, <1>2, <1>7, <1>8, EmptyFormed, FormStep

\* Other blocks are cut, and the beginning is noted.
LEMMA BodyForms == ASSUME TextInv, FormInv, Body PROVE FormInv'
<1>1. /\ at < Len(doc) /\ mark' = Marked(at + 1)
      /\ UNCHANGED <<doc, method, sec, cur, pair, chunks>>
  BY DEF Body, NextIs
<1>2. MarkFormed(Marked(at + 1))
  BY <1>1, FormDoc, MarkedFormed
<1> QED  BY <1>1, <1>2, FormDoc, FormStep

\* A piece adds its tokens, and the newline, to those of the open chunk.
LEMMA JoinForms == ASSUME TextInv, FormInv, Join PROVE FormInv'
<1> PICK p : p = Head(todo)
  OBVIOUS
<1>1. /\ todo # <<>>
      /\ cur' = [cur EXCEPT !.own = cur.own \o p,
                            !.tokens = cur.tokens + (IF cur = Empty THEN 0 ELSE 1) + TokenCount(p)]
      /\ UNCHANGED <<doc, method, sec, mark, pair, chunks>>
  BY DEF Join
<1>2. Shape /\ doc \in Seq(Kinds) /\ OpenFormed(cur)
  BY FormDoc
<1>3. PICK n \in Nat : n = TokenCount(p)
  <2>1. PICK T : T = Seq(Names)
    OBVIOUS
  <2>2. todo \in Seq(T)
    BY <1>2, <2>1 DEF Shape
  <2>3. p \in T
    BY <1>1, <2>2, HeadTailProperties
  <2> QED  BY <1>2, <2>1, <2>3, CountType
<1>4. cur'.tokens \in Nat /\ cur'.lap = cur.lap
  <2>1. cur \in Opened
    BY <1>2 DEF Shape
  <2>2. PICK k \in Nat : k = cur.tokens + (IF cur = Empty THEN 0 ELSE 1) + n
    BY <1>2 DEF OpenFormed
  <2> QED  BY <1>1, <1>3, <2>1, <2>2 DEF Opened
<1>5. OpenFormed(cur')
  BY <1>2, <1>4 DEF OpenFormed
<1> QED  BY <1>1, <1>5, FormDoc, FormStep

\* A piece that does not fit begins a chunk with an overlap.
LEMMA OverflowForms == ASSUME TextInv, FormInv, Overflow PROVE FormInv'
<1> PICK p : p = Head(todo)
  OBVIOUS
<1>1. PICK lap \in Tails : cur' = [own |-> p, lap |-> lap,
                                   tokens |-> TokenCount(p) + IF lap = NoLap THEN 0 ELSE lap + 1]
  BY DEF Overflow
<1>2. /\ todo # <<>> /\ chunks' = Flushed /\ mark' = [headings |-> Path(sec), start |-> at]
      /\ UNCHANGED <<doc, method, sec, pair>>
  BY DEF Overflow
<1>3. /\ Shape /\ doc \in Seq(Kinds) /\ StackFormed(sec) /\ PairSpoken(pair) /\ at \in 0..Len(doc)
  BY FormDoc
<1>4. PICK n \in Nat : n = TokenCount(p)
  <2>1. PICK T : T = Seq(Names)
    OBVIOUS
  <2>2. todo \in Seq(T)
    BY <1>3, <2>1 DEF Shape
  <2>3. p \in T
    BY <1>2, <2>2, HeadTailProperties
  <2> QED  BY <1>3, <2>1, <2>3, CountType
<1>5. lap \in Laps /\ (lap = NoLap \/ lap \in Nat)
  BY MaxTokensType DEF Tails, Laps
<1>6. PICK k \in Nat : k = n + IF lap = NoLap THEN 0 ELSE lap + 1
  BY <1>4, <1>5
<1>7. OpenFormed(cur')
  <2>1. cur'.tokens = k /\ cur'.lap = lap
    BY <1>1, <1>4, <1>6
  <2> QED  BY <1>5, <2>1 DEF OpenFormed
<1>8. MarkFormed(mark')
  BY <1>2, <1>3, PathFormed DEF MarkFormed
<1>9. Flushed \in Seq(FormedChunks)
  BY <1>3, FlushedFormed
<1> QED  BY <1>2, <1>3, <1>7, <1>8, <1>9, FormStep

\* The last flush.
LEMMA EndNaiveForms == ASSUME TextInv, FormInv, EndNaive PROVE FormInv'
<1>1. chunks' = Flushed /\ cur' = Empty /\ UNCHANGED <<doc, method, sec, mark, pair>>
  BY DEF EndNaive
<1> QED  BY <1>1, FormDoc, FlushedFormed, EmptyFormed, FormStep

\* The template "table" makes chunks of tables only.
LEMMA TableOnlyForms == ASSUME TextInv, FormInv, TableOnly PROVE FormInv'
<1> PICK b : b = at + 1
  OBVIOUS
<1> PICK cs : cs = AllAlone(SplitTable(TextOf(b)), {}, b)
  OBVIOUS
<1>1. /\ at < Len(doc)
      /\ chunks' = IF doc[b].type # "table" THEN chunks ELSE chunks \o cs
      /\ UNCHANGED <<doc, method, sec, cur, mark, pair>>
  BY DEF TableOnly, NextIs
<1>2. doc \in Seq(Kinds) /\ b \in 1..Len(doc) /\ chunks \in Seq(FormedChunks)
  BY <1>1, FormDoc
<1>3. doc[b].type = "table" => cs \in Seq(FormedChunks)
  <2>1. {} \in SUBSET (1..Len(doc))
    OBVIOUS
  <2> QED  BY <1>2, <2>1, TableFormed
<1>4. chunks' \in Seq(FormedChunks)
  BY <1>1, <1>2, <1>3, ConcatProperties
<1> QED  BY <1>1, <1>4, FormDoc, FormStep

\* The template "one" makes a chunk if there is any text.
LEMMA OneForms == ASSUME TextInv, FormInv, One PROVE FormInv'
<1> PICK n : n = Len(doc)
  OBVIOUS
<1>1. method = "one" /\ UNCHANGED <<doc, method, sec, cur, mark, pair>>
  BY DEF One
<1>2. doc \in Seq(Kinds) /\ n \in Nat /\ n \in 0..Len(doc) /\ DOMAIN doc = 1..n
  BY FormDoc
<1>3. \A b : Part(b) = IF doc[b].type = "image" THEN <<>> ELSE FlattenSeq(TextOf(b))
  BY <1>1 DEF Due, Part, Template
<1>4. PICK text : text = Read(n)
  OBVIOUS
<1>5. chunks' = IF text = <<>> THEN <<>> ELSE <<Alone(Piece(text, <<>>), {}, 0)>>
  <2>1. Read(n) = FlattenSeq([b \in DOMAIN doc |->
                     IF doc[b].type = "image" THEN <<>> ELSE FlattenSeq(TextOf(b))])
    BY <1>2, <1>3 DEF Read
  <2> QED  BY <1>4, <2>1 DEF One
<1>6. text \in Seq(Names)
  BY <1>2, <1>4, ReadType
<1>7. chunks' \in Seq(FormedChunks)
  <2>1. CASE text = <<>>
    BY <1>5, <2>1
  <2>2. CASE text # <<>>
    <3>1. PICK p, c : p = [own |-> text, head |-> <<>>] /\ c = Alone(p, {}, 0)
      OBVIOUS
    <3>2. p \in PieceType /\ p.own # <<>>
      <4>1. text \in Seq(Names) /\ <<>> \in Seq(Names)
        BY <1>6
      <4>2. [own |-> text, head |-> <<>>] \in PieceType
        BY <4>1 DEF PieceType
      <4> QED  BY <2>2, <3>1, <4>2
    <3>3. {} \in SUBSET (1..Len(doc)) /\ 0 \in 0..Len(doc)
      BY <1>2
    <3>4. c \in FormedChunks
      BY <1>2, <3>1, <3>2, <3>3, AloneFormed
    <3>5. chunks' = <<c>>
      BY <1>5, <2>2, <3>1 DEF Piece
    <3> QED  BY <3>4, <3>5
  <2> QED  BY <2>1, <2>2
<1> QED  BY <1>1, <1>7, FormDoc, FormStep

\* What two texts say, one after the other.
LEMMA SpokenBoth ==
    ASSUME NEW q \in Seq(Seq(Names)), NEW a \in Seq(Seq(Names)), q \in Spoken \/ a \in Spoken
    PROVE  q \o a \in Spoken
<1>1. PICK x, y : x = FlattenSeq(q) /\ y = FlattenSeq(a) /\ x \in Seq(Names) /\ y \in Seq(Names)
  BY FlattenType
<1>2. q \o a \in Seq(Seq(Names)) /\ FlattenSeq(q \o a) = x \o y
  <2>1. PICK T : T = Seq(Names)
    OBVIOUS
  <2>2. q \o a \in Seq(T)
    BY <2>1, ConcatProperties
  <2> QED  BY <1>1, <2>1, <2>2, FlattenConcat
<1>3. x # <<>> \/ y # <<>>
  BY <1>1 DEF Spoken
<1>4. x \o y # <<>>
  BY <1>1, <1>3, EmptySeq, ConcatProperties
<1> QED  BY <1>2, <1>4 DEF Spoken

\* The pairs with the last one among them.
LEMMA PairFlushedSpoken ==
    ASSUME TextInv, FormInv PROVE PairFlushed \in Seq(Spoken)
<1>1. pair \in PairType /\ PairSpoken(pair)
  BY FormDoc DEF Shape
<1>2. PICK q, a, all : q = pair.q /\ a = pair.a /\ all = pair.all
  OBVIOUS
<1>3. q \in Seq(Seq(Names)) /\ a \in Seq(Seq(Names)) /\ all \in Seq(Spoken)
  BY <1>1, <1>2 DEF PairType, PairSpoken
<1>4. CASE q = <<>> /\ a = <<>>
  BY <1>2, <1>3, <1>4 DEF PairFlushed
<1>5. CASE ~(q = <<>> /\ a = <<>>)
  <2>1. q \in Spoken \/ a \in Spoken
    BY <1>1, <1>2, <1>5 DEF PairSpoken
  <2>2. q \o a \in Spoken
    BY <1>3, <2>1, SpokenBoth
  <2>3. PairFlushed = Append(all, q \o a)
    BY <1>2, <1>5 DEF PairFlushed
  <2> QED  BY <1>3, <2>2, <2>3, AppendType
<1> QED  BY <1>4, <1>5

\* The text of the next block is spoken.
LEMMA BlockSpoken ==
    ASSUME doc \in Seq(Kinds), NEW b \in 1..Len(doc) PROVE TextOf(b) \in Spoken
<1>1. TextOf(b) \in Seq(Seq(Names)) /\ FlattenSeq(TextOf(b)) # <<>>
  BY BlockText, BlockWhole
<1> QED  BY <1>1 DEF Spoken

\* A question opens a pair with its text.
LEMMA QAQuestionForms == ASSUME TextInv, FormInv, QAQuestion PROVE FormInv'
<1>1. /\ at < Len(doc)
      /\ pair' = [q |-> TextOf(at + 1), a |-> <<>>, matched |-> TRUE, all |-> PairFlushed]
      /\ UNCHANGED <<doc, method, sec, cur, mark, chunks>>
  BY DEF QAQuestion, NextIs
<1>2. TextOf(at + 1) \in Spoken
  BY <1>1, FormDoc, BlockSpoken
<1>3. PairSpoken(pair')
  BY <1>1, <1>2, PairFlushedSpoken DEF PairSpoken
<1> QED  BY <1>1, <1>3, FormDoc, FormStep

\* An answer adds text to the pair.
LEMMA QAAnswerForms == ASSUME TextInv, FormInv, QAAnswer PROVE FormInv'
<1> PICK b : b = at + 1
  OBVIOUS
<1>1. /\ at < Len(doc)
      /\ pair' = IF doc[b].says = "answer" THEN [pair EXCEPT !.a = Glue(pair.a, TextOf(b))]
                 ELSE IF pair.matched THEN [pair EXCEPT !.a = pair.a \o TextOf(b)]
                 ELSE pair
      /\ UNCHANGED <<doc, method, sec, cur, mark, chunks>>
  BY DEF QAAnswer, NextIs
<1>2. Shape /\ pair \in PairType /\ PairSpoken(pair) /\ doc \in Seq(Kinds) /\ b \in 1..Len(doc)
  BY <1>1, FormDoc DEF Shape
<1>3. PICK t, a : t = TextOf(b) /\ t \in Spoken /\ t \in Seq(Seq(Names))
                  /\ a = pair.a /\ a \in Seq(Seq(Names))
  <2>1. pair.a \in Seq(Seq(Names))
    BY <1>2 DEF PairType
  <2> QED  BY <1>2, <2>1, BlockSpoken DEF Spoken
<1>4. a \o t \in Spoken
  BY <1>3, SpokenBoth
<1>5. Glue(a, t) \in Spoken
  <2>1. Glue(a, t) \in Seq(Seq(Names)) /\ FlattenSeq(Glue(a, t)) = FlattenSeq(a) \o FlattenSeq(t)
    BY <1>3, GlueKeeps
  <2>2. FlattenSeq(a \o t) = FlattenSeq(a) \o FlattenSeq(t)
    BY <1>3, FlattenConcat
  <2> QED  BY <1>4, <2>1, <2>2 DEF Spoken
<1>6. PairSpoken(pair')
  <2>1. \A s : [pair EXCEPT !.a = s].q = pair.q /\ [pair EXCEPT !.a = s].a = s
               /\ [pair EXCEPT !.a = s].all = pair.all
    BY <1>2 DEF PairType
  <2>2. \A s \in Spoken : PairSpoken([pair EXCEPT !.a = s])
    BY <1>2, <2>1 DEF PairSpoken
  <2>3. pair' = pair \/ pair' = [pair EXCEPT !.a = Glue(a, t)] \/ pair' = [pair EXCEPT !.a = a \o t]
    BY <1>1, <1>3
  <2> QED  BY <1>2, <1>4, <1>5, <2>2, <2>3
<1> QED  BY <1>1, <1>6, FormDoc, FormStep

\* The chunks of a pair have text, since the pair has.
LEMMA PairChunksFormed ==
    ASSUME doc \in Seq(Kinds), NEW t \in Spoken PROVE PairChunks(t) \in Seq(FormedChunks)
<1>1. PICK whole : whole = FlattenSeq(t) /\ whole \in Seq(Names) /\ whole # <<>> /\ t \in Seq(Seq(Names))
  BY FlattenType DEF Spoken
<1>2. PICK ps : ps = PairPieces(t)
  OBVIOUS
<1>3. ps = <<whole>> \/ ps = SplitPiece(t)
  BY <1>1, <1>2 DEF PairPieces
<1>4. ps \in Seq(Seq(Names)) /\ \A i \in DOMAIN ps : ps[i] # <<>>
  <2>1. CASE ps = <<whole>>
    BY <1>1, <2>1
  <2>2. CASE ps = SplitPiece(t)
    <3>1. ps \in Seq(Seq(Names))
      BY <1>1, <2>2, SplitPieceKeeps
    <3>2. ASSUME NEW i \in DOMAIN ps PROVE ps[i] # <<>>
      BY <1>1, <2>2, <3>2, SplitPieceCuts DEF PieceOK
    <3> QED  BY <3>1, <3>2
  <2> QED  BY <1>3, <2>1, <2>2
<1>5. ASSUME NEW i \in DOMAIN ps PROVE Alone(Piece(ps[i], <<>>), {}, 0) \in FormedChunks
  <2>1. PICK x \in Seq(Names) : x = ps[i] /\ x # <<>>
    BY <1>4, <1>5
  <2>2. PICK p : p = [own |-> x, head |-> <<>>]
    OBVIOUS
  <2>3. p \in PieceType /\ p.own # <<>>
    <3>1. <<>> \in Seq(Names)
      OBVIOUS
    <3>2. [own |-> x, head |-> <<>>] \in PieceType
      BY <3>1 DEF PieceType
    <3> QED  BY <2>1, <2>2, <3>2
  <2>4. {} \in SUBSET (1..Len(doc)) /\ 0 \in 0..Len(doc)
    OBVIOUS
  <2>5. Alone(p, {}, 0) \in FormedChunks
    BY <2>3, <2>4, AloneFormed
  <2> QED  BY <2>1, <2>2, <2>5 DEF Piece
<1>6. PICK m \in Nat : DOMAIN ps = 1..m
  BY <1>4
<1>7. PairChunks(t) = [i \in 1..m |-> Alone(Piece(ps[i], <<>>), {}, 0)]
  BY <1>2, <1>6 DEF PairChunks
<1> QED  BY <1>5, <1>6, <1>7

\* The pairs become chunks with text.
LEMMA EndQAForms == ASSUME TextInv, FormInv, EndQA PROVE FormInv'
<1>1. UNCHANGED <<doc, method, sec, cur, mark, pair>>
  BY DEF EndQA
<1>2. PICK pairs : pairs = PairFlushed /\ pairs \in Seq(Spoken)
  BY PairFlushedSpoken
<1>3. doc \in Seq(Kinds)
  BY FormDoc
<1>4. chunks' \in Seq(FormedChunks)
  <2>1. CASE ~pair.matched \/ pairs = <<>>
    <3>1. chunks' = <<>>
      BY <1>2, <2>1 DEF EndQA
    <3> QED  BY <3>1
  <2>2. CASE ~(~pair.matched \/ pairs = <<>>)
    <3>1. PICK css, T : css = [i \in DOMAIN pairs |-> PairChunks(pairs[i])] /\ T = Seq(FormedChunks)
      OBVIOUS
    <3>2. chunks' = FlattenSeq(css)
      BY <1>2, <2>2, <3>1 DEF EndQA, PairChunks, PairPieces
    <3>3. PICK n \in Nat : DOMAIN pairs = 1..n
      BY <1>2
    <3>4. ASSUME NEW i \in 1..n PROVE css[i] \in T
      <4>1. pairs[i] \in Spoken
        BY <1>2, <3>3
      <4> QED  BY <1>3, <3>1, <3>3, <4>1, PairChunksFormed
    <3>5. css \in Seq(T)
      <4>1. css = [i \in 1..n |-> css[i]]
        BY <3>1, <3>3
      <4> QED  BY <3>4, <4>1, SequenceIs
    <3> QED  BY <3>1, <3>2, <3>5, FlattenType
  <2> QED  BY <2>1, <2>2
<1> QED  BY <1>1, <1>4, FormDoc, FormStep

\* Nothing is noted at the start.
LEMMA FormInvInit == ASSUME ChunkInit PROVE FormInv
<1>1. doc \in Docs /\ method \in Methods /\ sec = <<>> /\ cur = Empty /\ chunks = <<>>
      /\ mark = [headings |-> {}, start |-> 0] /\ pair = NoPair
  BY DEF ChunkInit
<1>2. Len(doc) \in Nat
  <2>1. TextInv
    BY TextInvInit
  <2> QED  BY <2>1 DEF TextInv, Shape
<1>3. StackFormed(<<>>) /\ MarkFormed([headings |-> {}, start |-> 0])
  BY <1>2 DEF StackFormed, MarkFormed
<1>4. PairSpoken(NoPair)
  BY DEF PairSpoken, NoPair
<1>5. <<>> \in Seq(FormedChunks)
  OBVIOUS
<1> QED  BY <1>1, <1>3, <1>4, <1>5, EmptyFormed DEF FormInv

\* Every step notes only what is of the document.
LEMMA FormInvNext == ASSUME TextInv, FormInv, [ChunkNext]_chunkVars PROVE FormInv'
<1>1. CASE Title       BY <1>1, TitleForms
<1>2. CASE Image       BY <1>2, OtherForms DEF Image
<1>3. CASE Item        BY <1>3, ItemForms
<1>4. CASE BigTable    BY <1>4, BigTableForms
<1>5. CASE Body        BY <1>5, BodyForms
<1>6. CASE Join        BY <1>6, JoinForms
<1>7. CASE Overflow    BY <1>7, OverflowForms
<1>8. CASE EndNaive    BY <1>8, EndNaiveForms
<1>9. CASE TableOnly   BY <1>9, TableOnlyForms
<1>10. CASE One        BY <1>10, OneForms
<1>11. CASE QAQuestion BY <1>11, QAQuestionForms
<1>12. CASE QAAnswer   BY <1>12, QAAnswerForms
<1>13. CASE SkipTable  BY <1>13, OtherForms DEF SkipTable
<1>14. CASE EndQA      BY <1>14, EndQAForms
<1>15. CASE UNCHANGED chunkVars BY <1>15, OtherForms DEF chunkVars
<1> QED  BY <1>1, <1>2, <1>3, <1>4, <1>5, <1>6, <1>7, <1>8, <1>9, <1>10, <1>11, <1>12, <1>13,
            <1>14, <1>15 DEF ChunkNext

\* Sequences of more than was asked for.
LEMMA SeqWider == ASSUME NEW S, NEW T, S \subseteq T PROVE Seq(S) \subseteq Seq(T)
OBVIOUS

\* What is named is a sequence of numbers, and the chunks are of their type.
LEMMA ChunkTyped == ASSUME TextInv, FormInv PROVE ChunkTypeOK
<1>1. Shape
  BY DEF TextInv
<1>2. Names \subseteq Seq(Nat)
  <2>1. ASSUME NEW n \in Nat \X Nat \X Nat PROVE n \in Seq(Nat)
    <3>1. PICK a \in Nat, b \in Nat, c \in Nat : n = <<a, b, c>>
      BY <2>1
    <3> QED  BY <3>1
  <2> QED  BY <2>1 DEF Names
<1>3. PICK A, B, C : A = Seq(Names) /\ B = Seq(Seq(Nat)) /\ C = Seq(Seq(Seq(Nat)))
  OBVIOUS
<1>4. A \subseteq B
  BY <1>2, <1>3, SeqWider
<1>5. Seq(A) \subseteq C
  <2>1. Seq(A) \subseteq Seq(B)
    BY <1>4, SeqWider
  <2> QED  BY <1>3, <2>1
<1>6. todo \in C /\ cur.own \in B /\ pair.q \in C /\ pair.a \in C /\ pair.matched \in BOOLEAN
  BY <1>1, <1>3, <1>4, <1>5 DEF Shape, Opened, PairType
<1>7. ASSUME NEW i \in DOMAIN chunks PROVE ChunkOK(chunks[i])
  <2>1. chunks[i] \in FormedChunks
    BY <1>7 DEF FormInv
  <2> QED  BY <2>1 DEF FormedChunks, Laps, ChunkOK
<1> QED
  BY <1>1, <1>3, <1>6, <1>7
     DEF ChunkTypeOK, TextType, Shape, FormInv, StackFormed, MarkFormed, OpenFormed, Laps

\* Whatever is noted while a document is cut is of this document, and no chunk
\* is without text, for every template and every document.
THEOREM ChunkTypes == ChunkSpec => []ChunkTypeOK
<1>1. ChunkInit => TextInv /\ FormInv
  BY TextInvInit, FormInvInit
<1>2. TextInv /\ FormInv /\ [ChunkNext]_chunkVars => TextInv' /\ FormInv'
  BY TextInvNext, FormInvNext
<1>3. TextInv /\ FormInv => ChunkTypeOK
  BY ChunkTyped
<1> QED  BY <1>1, <1>2, <1>3, PTL DEF ChunkSpec

=============================================================================
