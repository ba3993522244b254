----------------------------- MODULE ShopProofs -----------------------------
(***************************************************************************)
(* Theorems about Shop, for every set of shops, types, positions, every    *)
(* finite number of calls at a time and every bound on writes and failures.*)
(***************************************************************************)
EXTENDS Shop, FiniteSetTheorems, TLAPS

\* The labels of a call that reads, writes, or fills the index.
ReadingPcs == {"lock", "rebuild", "refill", "unlock", "load", "fill", "null"}
WritingPcs == {"store", "update", "evict", "unlist", "list"}
FillingPcs == {"scan", "backfill"}

\* What a call is about to store as a whole row is one.
Carries(r) == /\ r.pc \in {"refill", "fill"} => r.has \in Row
              /\ r.pc = "store" => r.new \in Row

AnyCall == {r \in {Idle} \cup Reading \cup Writing \cup Filling : Carries(r)}

TypeInv == TypeOK /\ call \in [Calls -> AnyCall]

-----------------------------------------------------------------------------
(* Type correctness.                                                       *)

\* The label of a call tells what the call remembers.
LEMMA LabelTellsKind ==
    ASSUME TypeInv, NEW c \in Calls
    PROVE  /\ call[c] \in AnyCall
           /\ call[c].pc \in ReadingPcs => call[c] \in Reading
           /\ call[c].pc \in WritingPcs => call[c] \in Writing
           /\ call[c].pc \in FillingPcs => call[c] \in Filling
<1>1. call[c] \in AnyCall
  BY DEF TypeInv
<1>2. /\ Idle.pc = "idle"
      /\ \A r \in Reading : r.pc \in ReadingPcs
      /\ \A r \in Writing : r.pc \in WritingPcs
      /\ \A r \in Filling : r.pc \in FillingPcs
  BY DEF Idle, Reading, Writing, Filling, ReadingPcs, WritingPcs, FillingPcs
<1> QED  BY <1>1, <1>2 DEF AnyCall, ReadingPcs, WritingPcs, FillingPcs

\* A call goes to another label of its kind, or ends.
LEMMA GotoTyped ==
    ASSUME TypeInv, NEW c \in Calls, NEW pc,
           \/ Done(c)
           \/ Goto(c, pc) /\ call[c] \in Reading /\ pc \in ReadingPcs \ {"refill", "fill"}
           \/ Goto(c, pc) /\ call[c] \in Writing /\ pc \in WritingPcs \ {"store"}
    PROVE  call' \in [Calls -> AnyCall]
<1>1. call \in [Calls -> AnyCall] /\ Idle \in AnyCall
  BY DEF TypeInv, AnyCall, Carries, Idle
<1>2. CASE Done(c)
  BY <1>1, <1>2 DEF Done
<1> DEFINE moved == [call[c] EXCEPT !.pc = pc]
<1>3. ASSUME Goto(c, pc) PROVE call' = [call EXCEPT ![c] = moved]
  BY <1>3 DEF Goto
<1>4. CASE Goto(c, pc) /\ call[c] \in Reading /\ pc \in ReadingPcs \ {"refill", "fill"}
  <2>1. moved \in Reading /\ moved.pc = pc
    BY <1>4 DEF Reading, ReadingPcs
  <2>2. moved \in AnyCall
    BY <1>4, <2>1 DEF AnyCall, Carries, ReadingPcs
  <2> QED  BY <1>1, <1>3, <1>4, <2>2
<1>5. CASE Goto(c, pc) /\ call[c] \in Writing /\ pc \in WritingPcs \ {"store"}
  <2>1. moved \in Writing /\ moved.pc = pc
    BY <1>5 DEF Writing, WritingPcs
  <2>2. moved \in AnyCall
    BY <1>5, <2>1 DEF AnyCall, Carries, WritingPcs
  <2> QED  BY <1>1, <1>3, <1>5, <2>2
<1> QED  BY <1>2, <1>4, <1>5

\* A call that begins or is replaced is what it is replaced with.
LEMMA PutTyped ==
    ASSUME TypeInv, NEW c \in Calls, NEW r \in AnyCall, call' = [call EXCEPT ![c] = r]
    PROVE  call' \in [Calls -> AnyCall]
BY DEF TypeInv, TypeOK, AnyCall

\* A call that ends leaves a free place.
LEMMA DoneTyped ==
    ASSUME TypeInv, NEW c \in Calls, Done(c)
    PROVE  call' \in [Calls -> AnyCall]
<1>1. Idle \in AnyCall
  BY DEF AnyCall, Idle, Carries
<1> QED  BY <1>1, PutTyped DEF Done

\* Every row, whole or blank, is made of fields.
LEMMA FieldFacts ==
    /\ Blank \in Fields /\ Row \subseteq Fields
    /\ \A r \in Fields : r.type \in Types \cup {Absent} /\ r.place \in Places \cup {Absent}
BY DEF Blank, Fields, Row

\* The fault budget is never overdrawn.
LEMMA FaultTyped ==
    ASSUME TypeInv, Fault \/ NoFault \/ Spend
    PROVE  faults' \in 0..MaxFaults
BY BoundsAssumption DEF TypeInv, TypeOK, Fault, NoFault, Spend

\* A SET or DEL of an entry, or none, leaves entries.
LEMMA CacheTyped ==
    ASSUME TypeInv, NEW s \in Shops, NEW e \in Entries, SetCache(s, e) \/ UNCHANGED cache
    PROVE  cache' \in [Shops -> Entries]
BY DEF TypeInv, TypeOK, SetCache

\* A GEOADD of some fields, or none, leaves positions.
LEMMA GeoTyped ==
    ASSUME TypeInv, NEW s \in Shops, NEW r \in Fields, GeoAdd(s, r) \/ UNCHANGED geo
    PROVE  geo' \in [Types -> [Shops -> Places \cup {Absent}]]
<1>1. CASE UNCHANGED geo
  BY <1>1 DEF TypeInv, TypeOK
<1>2. CASE GeoAdd(s, r) /\ Absent \notin {r.type, r.place}
  BY <1>2 DEF TypeInv, TypeOK, GeoAdd, Fields
<1> QED  BY <1>1, <1>2 DEF GeoAdd

\* An update of a whole row is a whole row, of anything at least fields.
LEMMA MergeTyped ==
    ASSUME NEW old \in Fields, NEW new \in Fields
    PROVE  /\ Merge(old, new) \in Fields
           /\ old \in Row => Merge(old, new) \in Row
<1>1. ASSUME old \in Row PROVE Merge(old, new) \in Row
  BY <1>1 DEF Merge, Row, Fields
<1>2. Merge(old, new) \in Fields
  BY DEF Merge, Fields
<1> QED  BY <1>1, <1>2

\* The part of the type that a step of the program changes.
StoresTyped ==
    /\ row' \in [Shops -> Row \cup {Blank}]
    /\ cache' \in [Shops -> Entries]
    /\ lock' \in [Shops -> BOOLEAN]
    /\ geo' \in [Types -> [Shops -> Places \cup {Absent}]]
    /\ call' \in [Calls -> AnyCall]
    /\ writes' \in 0..MaxWrites
    /\ faults' \in 0..MaxFaults

\* Reading a shop keeps the types.
LEMMA DetailTyped ==
    ASSUME TypeInv, NEW c \in Calls,
           Detail(c) \/ \E s \in Shops : GetDetail(c, s)
    PROVE  StoresTyped
<1>1. CASE \E s \in Shops : GetDetail(c, s)
  <2>1. PICK s \in Shops : GetDetail(c, s)
    BY <1>1
  <2>2. Read(s, "lock") \in AnyCall /\ Read(s, "load") \in AnyCall
    BY FieldFacts DEF Read, AnyCall, Reading, Carries
  <2>3. call' \in [Calls -> AnyCall]
    BY <2>1, <2>2, PutTyped DEF GetDetail, Begin
  <2>4. faults' \in 0..MaxFaults
    BY <2>1, FaultTyped DEF GetDetail
  <2> QED  BY <2>1, <2>3, <2>4 DEF GetDetail, StoresTyped, TypeInv, TypeOK, stores
<1>2. CASE Detail(c)
  <2>1. call[c] \in Reading /\ Subject(c) \in Shops /\ call[c].has \in Fields
    <3>1. call[c].pc \in ReadingPcs
      BY <1>2 DEF Detail, LockShop, Reload, Refill, Unlock, Load, Fill, MarkMissing, At, ReadingPcs
    <3> QED  BY <3>1, LabelTellsKind DEF Reading, Subject
  <2>2. faults' \in 0..MaxFaults
    BY <1>2, FaultTyped
       DEF Detail, LockShop, Reload, Refill, Unlock, Load, Fill, MarkMissing, Try
  <2>3. CASE LockShop(c)
    <3>1. call' \in [Calls -> AnyCall]
      BY <2>1, <2>3, GotoTyped DEF LockShop, ReadingPcs
    <3>2. lock' \in [Shops -> BOOLEAN]
      BY <2>1, <2>3 DEF LockShop, TypeInv, TypeOK
    <3> QED  BY <2>2, <2>3, <3>1, <3>2 DEF LockShop, StoresTyped, TypeInv, TypeOK
  <2>4. CASE Reload(c) \/ Load(c)
    <3>1. ASSUME NEW pc \in ReadingPcs, row[Subject(c)] # Blank,
                 call' = [call EXCEPT ![c].pc = pc, ![c].has = row[Subject(c)]]
          PROVE  call' \in [Calls -> AnyCall]
      <4> DEFINE moved == [call[c] EXCEPT !.pc = pc, !.has = row[Subject(c)]]
      <4>1. row[Subject(c)] \in Row /\ row[Subject(c)] \in Fields
        BY <2>1, <3>1, FieldFacts DEF TypeInv, TypeOK
      <4>2. moved \in Reading /\ moved.has = row[Subject(c)] /\ moved.pc = pc
        BY <2>1, <4>1 DEF Reading, ReadingPcs
      <4>5. moved \in AnyCall
        BY <4>1, <4>2 DEF AnyCall, Carries, Reading, ReadingPcs
      <4>3. call' = [call EXCEPT ![c] = moved]
        BY <3>1 DEF TypeInv, TypeOK
      <4> QED  BY <4>3, <4>5, PutTyped
    <3>2. call' \in [Calls -> AnyCall]
      BY <2>1, <2>4, <3>1, GotoTyped DEF Reload, Load, ReadingPcs
    <3> QED  BY <2>2, <2>4, <3>2 DEF Reload, Load, StoresTyped, TypeInv, TypeOK, stores
  <2>5. CASE Refill(c) \/ Fill(c) \/ MarkMissing(c)
    <3>1. call' \in [Calls -> AnyCall]
      BY <2>1, <2>5, GotoTyped DEF Refill, Fill, MarkMissing, ReadingPcs
    <3>2. cache' \in [Shops -> Entries]
      <4>1. Entry("null", Blank) \in Entries
        BY DEF Entries
      <4>2. ASSUME call[c].pc \in {"refill", "fill"}
            PROVE  Entry("fresh", call[c].has) \in Entries
        BY <4>2 DEF Entries, Entry, TypeInv, AnyCall, Carries
      <4>3. \E e \in Entries : SetCache(Subject(c), e) \/ UNCHANGED cache
        BY <2>5, <4>1, <4>2 DEF Refill, Fill, MarkMissing, At, Try
      <4> QED  BY <2>1, <4>3, CacheTyped
    <3> QED  BY <2>2, <2>5, <3>1, <3>2 DEF Refill, Fill, MarkMissing, StoresTyped, TypeInv, TypeOK
  <2>6. CASE Unlock(c)
    <3>1. call' \in [Calls -> AnyCall]
      BY <2>6, GotoTyped DEF Unlock
    <3>2. lock' \in [Shops -> BOOLEAN]
      BY <2>6 DEF Unlock, Try, TypeInv, TypeOK
    <3> QED  BY <2>2, <2>6, <3>1, <3>2 DEF Unlock, StoresTyped, TypeInv, TypeOK
  <2> QED  BY <1>2, <2>3, <2>4, <2>5, <2>6 DEF Detail
<1> QED  BY <1>1, <1>2

\* Saving and updating a shop keep the types.
LEMMA BeginsTyped ==
    ASSUME TypeInv, NEW c \in Calls, NEW s \in Shops,
           (\E r \in Row : SaveShop(c, s, r)) \/ \E new \in Fields : ReadOld(c, s, new)
    PROVE  StoresTyped
<1>0. /\ faults' \in 0..MaxFaults
      /\ writes' \in 0..MaxWrites
  BY FaultTyped, BoundsAssumption DEF SaveShop, ReadOld, Write, TypeInv, TypeOK
<1>1. CASE \E r \in Row : SaveShop(c, s, r)
  <2>1. PICK r \in Row : SaveShop(c, s, r)
    BY <1>1
  <2>2. WriteOf(s, "store", Blank, r) \in AnyCall
    BY FieldFacts DEF WriteOf, AnyCall, Writing, Carries
  <2>3. call' \in [Calls -> AnyCall]
    BY <2>1, <2>2, PutTyped DEF SaveShop, Begin, TypeInv
  <2>4. row' \in [Shops -> Row \cup {Blank}]
    BY <2>1 DEF SaveShop, TypeInv, TypeOK
  <2> QED  BY <1>0, <2>1, <2>3, <2>4 DEF SaveShop, StoresTyped, TypeInv, TypeOK
<1>2. CASE \E new \in Fields : ReadOld(c, s, new)
  <2>1. PICK new \in Fields : ReadOld(c, s, new)
    BY <1>2
  <2>2. row[s] \in Fields
    BY FieldFacts DEF TypeInv, TypeOK
  <2>3. /\ WriteOf(s, "update", row[s], new) \in AnyCall
        /\ WriteOf(s, "update", Blank, new) \in AnyCall
    BY <2>2, FieldFacts DEF WriteOf, AnyCall, Writing, Carries
  <2>4. call' \in [Calls -> AnyCall]
    BY <2>1, <2>3, PutTyped DEF ReadOld, Begin
  <2> QED  BY <1>0, <2>1, <2>4 DEF ReadOld, StoresTyped, TypeInv, TypeOK, stores
<1> QED  BY <1>1, <1>2

\* What follows on a save or an update keeps the types.
LEMMA ChangeTyped ==
    ASSUME TypeInv, NEW c \in Calls, Change(c)
    PROVE  StoresTyped
<1>1. /\ call[c] \in Writing /\ Subject(c) \in Shops
      /\ call[c].old \in Fields /\ call[c].new \in Fields
  <2>1. call[c].pc \in WritingPcs
    BY DEF Change, StoreDetail, UpdateRow, Evict, Unlist, List, At, WritingPcs
  <2> QED  BY <2>1, LabelTellsKind DEF Writing, Subject
<1>2. faults' \in 0..MaxFaults
  BY FaultTyped DEF Change, StoreDetail, UpdateRow, Evict, Unlist, List, Try
<1>3. call' \in [Calls -> AnyCall]
  <2>1. CASE StoreDetail(c) \/ UpdateRow(c) \/ Unlist(c) \/ List(c)
    BY <1>1, <2>1, GotoTyped DEF StoreDetail, UpdateRow, Unlist, List, WritingPcs
  <2>2. CASE Evict(c)
    <3>1. (IF Moves(c) THEN "unlist" ELSE "list") \in WritingPcs \ {"store"}
      BY DEF WritingPcs
    <3> QED  BY <1>1, <2>2, <3>1, GotoTyped DEF Evict
  <2> QED  BY <2>1, <2>2 DEF Change
<1>4. CASE StoreDetail(c) \/ Evict(c)
  <2>1. Missing \in Entries
    BY DEF Entries
  <2>2. call[c].pc = "store" => Entry("fresh", call[c].new) \in Entries
    BY DEF Entries, Entry, TypeInv, AnyCall, Carries
  <2>3. \E e \in Entries : SetCache(Subject(c), e) \/ UNCHANGED cache
    BY <1>4, <2>1, <2>2 DEF StoreDetail, Evict, At, Try
  <2>4. cache' \in [Shops -> Entries]
    BY <1>1, <2>3, CacheTyped
  <2> QED  BY <1>2, <1>3, <1>4, <2>4 DEF StoreDetail, Evict, StoresTyped, TypeInv, TypeOK
<1>5. CASE UpdateRow(c)
  <2> DEFINE s == Subject(c)
             merged == Merge(row[s], call[c].new)
  <2>1. row[s] # Blank => merged \in Row
    BY <1>1, MergeTyped, FieldFacts DEF TypeInv, TypeOK
  <2>2. row' \in {row, [row EXCEPT ![s] = merged]} /\ (row[s] = Blank => row' = row)
    BY <1>5 DEF UpdateRow
  <2>3. row' \in [Shops -> Row \cup {Blank}]
    BY <1>1, <2>1, <2>2 DEF TypeInv, TypeOK
  <2> QED  BY <1>2, <1>3, <1>5, <2>3 DEF UpdateRow, StoresTyped, TypeInv, TypeOK
<1>6. CASE Unlist(c)
  <2>1. \/ UNCHANGED geo
        \/ geo' = [geo EXCEPT ![call[c].old.type][Subject(c)] = Absent]
    BY <1>6 DEF Unlist, Try
  <2>2. geo' \in [Types -> [Shops -> Places \cup {Absent}]]
    BY <1>1, <2>1 DEF TypeInv, TypeOK
  <2> QED  BY <1>2, <1>3, <1>6, <2>2 DEF Unlist, StoresTyped, TypeInv, TypeOK
<1>7. CASE List(c)
  <2>1. Merge(call[c].old, call[c].new) \in Fields
    BY <1>1, MergeTyped
  <2>2. geo' \in [Types -> [Shops -> Places \cup {Absent}]]
    BY <1>1, <1>7, <2>1, GeoTyped DEF List, Try
  <2> QED  BY <1>2, <1>3, <1>7, <2>2 DEF List, StoresTyped, TypeInv, TypeOK
<1> QED  BY <1>4, <1>5, <1>6, <1>7 DEF Change

\* Filling the index keeps the types.
LEMMA FillingTyped ==
    ASSUME TypeInv, NEW c \in Calls,
           Scan(c) \/ Backfill(c) \/ \E t \in Types : Nearby(c, t)
    PROVE  StoresTyped
<1>0. faults' \in 0..MaxFaults
  BY FaultTyped DEF Scan, Backfill, Nearby, Try
<1>1. CASE \E t \in Types : Nearby(c, t)
  <2>1. PICK t \in Types : Nearby(c, t)
    BY <1>1
  <2>2. [pc |-> "scan", type |-> t, todo |-> {}] \in AnyCall
    BY DEF AnyCall, Filling, Carries
  <2>3. call' \in [Calls -> AnyCall]
    BY <2>1, <2>2, PutTyped DEF Nearby, Begin
  <2> QED  BY <1>0, <2>1, <2>3 DEF Nearby, StoresTyped, TypeInv, TypeOK, stores
<1>2. ASSUME NEW pc \in FillingPcs, NEW todo \in SUBSET (Shops \X Places), call[c] \in Filling
      PROVE  [call[c] EXCEPT !.pc = pc, !.todo = todo] \in AnyCall
  BY <1>2 DEF AnyCall, Filling, Carries, FillingPcs
<1>3. CASE Scan(c)
  <2> DEFINE found == {s \in Shops : row[s].type = call[c].type}
             todo == {<<s, row[s].place>> : s \in found}
  <2>1. call[c] \in Filling
    BY <1>3, LabelTellsKind DEF Scan, At, FillingPcs
  <2>2. todo \in SUBSET (Shops \X Places)
    BY <2>1, AbsentAssumption DEF TypeInv, TypeOK, Filling, Row, Blank
  <2>3. [call[c] EXCEPT !.pc = "backfill", !.todo = todo] \in AnyCall
    BY <1>2, <2>1, <2>2 DEF FillingPcs
  <2> HIDE DEF todo
  <2>4. ASSUME call' = [call EXCEPT ![c].pc = "backfill", ![c].todo = todo]
        PROVE  call' \in [Calls -> AnyCall]
    <3> DEFINE moved == [call[c] EXCEPT !.pc = "backfill", !.todo = todo]
    <3>1. moved \in AnyCall /\ call' = [call EXCEPT ![c] = moved]
      BY <2>3, <2>4 DEF TypeInv, TypeOK
    <3> HIDE DEF moved
    <3> QED  BY <3>1, PutTyped
  <2>5. ASSUME Done(c)
        PROVE  call' \in [Calls -> AnyCall]
    BY <2>5, DoneTyped
  <2>6. call' \in [Calls -> AnyCall]
    BY <1>3, <2>4, <2>5 DEF Scan, todo
  <2> QED  BY <1>0, <1>3, <2>6 DEF Scan, StoresTyped, TypeInv, TypeOK, stores
<1>4. CASE Backfill(c)
  <2>1. /\ call[c] \in Filling /\ call[c].pc = "backfill"
        /\ call[c].type \in Types /\ call[c].todo \in SUBSET (Shops \X Places)
    BY <1>4, LabelTellsKind DEF Backfill, At, FillingPcs, Filling
  <2>2. PICK x \in call[c].todo :
          /\ GeoAdd(x[1], [type |-> call[c].type, place |-> x[2]]) \/ UNCHANGED geo
          /\ \/ Done(c)
             \/ call' = [call EXCEPT ![c].todo = @ \ {x}]
    BY <1>4 DEF Backfill, Try
  <2>3. x[1] \in Shops /\ [type |-> call[c].type, place |-> x[2]] \in Fields
    BY <2>1 DEF Fields
  <2>4. geo' \in [Types -> [Shops -> Places \cup {Absent}]]
    BY <2>2, <2>3, GeoTyped
  <2>5. ASSUME call' = [call EXCEPT ![c].todo = @ \ {x}]
        PROVE  call' \in [Calls -> AnyCall]
    <3> DEFINE less == [call[c] EXCEPT !.todo = call[c].todo \ {x}]
    <3>1. less \in Filling
      BY <2>1 DEF Filling
    <3>2. less \in AnyCall
      BY <2>1, <3>1 DEF AnyCall, Carries, Filling
    <3>3. call' = [call EXCEPT ![c] = less]
      BY <2>5 DEF TypeInv, TypeOK
    <3> HIDE DEF less
    <3> QED  BY <3>2, <3>3, PutTyped
  <2>6. ASSUME Done(c)
        PROVE  call' \in [Calls -> AnyCall]
    BY <2>6, DoneTyped
  <2>7. call' \in [Calls -> AnyCall]
    BY <2>2, <2>5, <2>6
  <2> QED  BY <1>0, <1>4, <2>4, <2>7 DEF Backfill, StoresTyped, TypeInv, TypeOK
<1> QED  BY <1>1, <1>3, <1>4

\* Time and crashes keep the types.
LEMMA TimeTyped ==
    ASSUME TypeInv,
           \/ \E s \in Shops : Expire(s) \/ NullExpires(s) \/ LockExpires(s) \/ LockExpiresEarly(s)
           \/ \E dead \in SUBSET Calls : Crash(dead)
    PROVE  StoresTyped
<1>0. faults' \in 0..MaxFaults
  BY FaultTyped DEF Expire, NullExpires, LockExpires, LockExpiresEarly, Crash
<1>1. ASSUME NEW s \in Shops, Expire(s) \/ NullExpires(s) PROVE StoresTyped
  <2>1. Missing \in Entries
    BY DEF Entries
  <2>2. cache[s].state = "fresh" => Entry("expired", cache[s].shop) \in Entries
    BY DEF TypeInv, TypeOK, Entries, Entry, Missing
  <2>3. cache' \in [Shops -> Entries]
    BY <1>1, <2>1, <2>2, CacheTyped DEF Expire, NullExpires
  <2> QED  BY <1>0, <1>1, <2>3 DEF Expire, NullExpires, StoresTyped, TypeInv, TypeOK
<1>2. ASSUME NEW s \in Shops, LockExpires(s) \/ LockExpiresEarly(s) PROVE StoresTyped
  BY <1>0, <1>2 DEF LockExpires, LockExpiresEarly, StoresTyped, TypeInv, TypeOK
<1>3. ASSUME NEW dead \in SUBSET Calls, Crash(dead) PROVE StoresTyped
  <2>1. Idle \in AnyCall
    BY DEF AnyCall, Idle, Carries
  <2>2. call' \in [Calls -> AnyCall]
    BY <1>3, <2>1 DEF Crash, TypeInv
  <2> QED  BY <1>0, <1>3, <2>2 DEF Crash, StoresTyped, TypeInv, TypeOK, stores
<1> QED  BY <1>1, <1>2, <1>3

\* Only a lock that expires under its owner counts as a slow rebuild.
LEMMA SlowStep ==
    ASSUME TypeInv, Step
    PROVE  /\ slow' = slow \/ \E t \in Shops : LockExpiresEarly(t)
           /\ slow' \in [Shops -> Nat]
           /\ \A s \in Shops : slow'[s] = slow[s] \/ slow'[s] = slow[s] + 1
<1>1. slow' = slow \/ \E t \in Shops : LockExpiresEarly(t)
  BY DEF Step, Continue, Detail, Change, LockShop, Reload, Refill, Unlock, Load, Fill,
         MarkMissing, StoreDetail, UpdateRow, Evict, Unlist, List, Scan, Backfill, GetDetail,
         SaveShop, ReadOld, Nearby, Expire, NullExpires, LockExpires, Crash, Try, Fault, NoFault
<1>2. slow \in [Shops -> Nat]
  BY DEF TypeInv, TypeOK
<1>3. ASSUME NEW t \in Shops, LockExpiresEarly(t)
      PROVE  slow' = [slow EXCEPT ![t] = @ + 1]
  BY <1>3 DEF LockExpiresEarly
<1> QED  BY <1>1, <1>2, <1>3

\* The initial values have their types.
LEMMA TypeInit == Init => TypeInv
BY BoundsAssumption DEF Init, TypeInv, TypeOK, AnyCall, Carries, Idle, Entries, Missing, Entry

\* Every step keeps the types.
LEMMA TypeStep == TypeInv /\ [Next]_vars => TypeInv'
<1> SUFFICES ASSUME TypeInv, [Next]_vars PROVE TypeInv'
  OBVIOUS
<1>1. CASE Next
  <2>1. StoresTyped
    BY <1>1, DetailTyped, BeginsTyped, ChangeTyped, FillingTyped, TimeTyped
       DEF Next, Step, Continue
  <2>2. overlapped' \subseteq Shops
    BY <1>1 DEF Next, TypeInv, TypeOK
  <2>3. AnyCall \subseteq {Idle} \cup Reading \cup Writing \cup Filling
    BY DEF AnyCall
  <2>4. slow' \in [Shops -> Nat]
    BY <1>1, SlowStep DEF Next
  <2> QED  BY <2>1, <2>2, <2>3, <2>4 DEF TypeInv, TypeOK, StoresTyped
<1>2. CASE UNCHANGED vars
  BY <1>2 DEF TypeInv, TypeOK, vars, stores
<1> QED  BY <1>1, <1>2

\* The types hold throughout.
LEMMA TypeInvariant == Spec => []TypeInv
BY TypeInit, TypeStep, PTL DEF Spec

\* Stores and calls always have the values their comments name: in
\* particular a cache entry that is no marker is a whole row.
THEOREM TypeCorrect == Spec => []TypeOK
<1>1. TypeInv => TypeOK
  BY DEF TypeInv
<1> QED  BY <1>1, TypeInvariant, PTL

-----------------------------------------------------------------------------
(* Rebuilds of a shop.                                                     *)

\* Without the lock nobody rebuilds but those who lost it by being slow; a lock
\* that is held adds its holder.
RebuildInv ==
    \A s \in Shops :
        Cardinality(Rebuilding(s)) <= slow[s] + (IF lock[s] THEN 1 ELSE 0)

\* What the steps do to those who rebuild shop s, and to its lock.
Stays(s)   == /\ Rebuilding(s)' \subseteq Rebuilding(s)
              /\ lock[s] => lock'[s]
Slips(s)   == /\ Rebuilding(s)' \subseteq Rebuilding(s)
              /\ slow'[s] = slow[s] + 1
Leaves(s)  == \E c \in Rebuilding(s) : Rebuilding(s)' \subseteq Rebuilding(s) \ {c}
Enters(s)  == /\ \E c \in Calls : Rebuilding(s)' \subseteq Rebuilding(s) \cup {c}
              /\ ~ lock[s] /\ lock'[s]
Expires(s) == Rebuilding(s)' = {}

\* The number of calls that rebuild a shop, before and after such a step.
LEMMA RebuildersCounted ==
    ASSUME NEW s \in Shops
    PROVE  LET n == Cardinality(Rebuilding(s))
               m == Cardinality(Rebuilding(s)')
           IN  /\ n \in Nat /\ m \in Nat
               /\ Rebuilding(s)' \subseteq Rebuilding(s) => m <= n
               /\ Leaves(s) => m <= n - 1
               /\ Enters(s) => m <= n + 1
               /\ Expires(s) => m = 0
<1> DEFINE R == Rebuilding(s)
           Q == Rebuilding(s)'
<1>1. IsFiniteSet(R) /\ IsFiniteSet(Q)
  BY CallsAssumption, FS_Subset DEF Rebuilding
<1>2. Cardinality(R) \in Nat /\ Cardinality(Q) \in Nat
  BY <1>1, FS_CardinalityType
<1>3. Q \subseteq R => Cardinality(Q) <= Cardinality(R)
  BY <1>1, FS_Subset
<1>4. ASSUME NEW c \in R, Q \subseteq R \ {c} PROVE Cardinality(Q) <= Cardinality(R) - 1
  <2>1. IsFiniteSet(R \ {c}) /\ Cardinality(R \ {c}) = Cardinality(R) - 1
    BY <1>1, FS_RemoveElement
  <2>2. Cardinality(Q) <= Cardinality(R \ {c})
    BY <1>4, <2>1, FS_Subset
  <2> QED  BY <2>1, <2>2
<1>5. ASSUME NEW c \in Calls, Q \subseteq R \cup {c} PROVE Cardinality(Q) <= Cardinality(R) + 1
  <2>1. IsFiniteSet(R \cup {c}) /\ Cardinality(R \cup {c}) <= Cardinality(R) + 1
    <3>1. /\ IsFiniteSet(R \cup {c})
          /\ Cardinality(R \cup {c}) = IF c \in R THEN Cardinality(R) ELSE Cardinality(R) + 1
      BY <1>1, FS_AddElement
    <3> HIDE DEF R
    <3> QED  BY <1>2, <3>1
  <2>2. Cardinality(Q) <= Cardinality(R \cup {c}) /\ Cardinality(R \cup {c}) \in Nat
    BY <1>5, <2>1, FS_Subset, FS_CardinalityType
  <2> QED  BY <1>2, <2>1, <2>2
<1>6. Q = {} => Cardinality(Q) = 0
  BY FS_EmptySet
<1> QED  BY <1>2, <1>3, <1>4, <1>5, <1>6 DEF Leaves, Enters, Expires

\* A step of one call is about that call: the others go on rebuilding.
LEMMA OneCallMoves ==
    ASSUME TypeInv, NEW c \in Calls, NEW s \in Shops, NEW r, call' = [call EXCEPT ![c] = r]
    PROVE  /\ Rebuilding(s)' \subseteq Rebuilding(s) \cup {c}
           /\ (~ (r.pc \in {"rebuild", "refill", "unlock"} /\ r.shop = s)) =>
                 Rebuilding(s)' \subseteq Rebuilding(s) \ {c}
BY DEF TypeInv, TypeOK, Rebuilding, Subject

\* Each step of a call that takes part in a rebuild.
LEMMA RebuildStep ==
    ASSUME TypeInv, NEW c \in Calls, NEW s \in Shops,
           LockShop(c) \/ Reload(c) \/ Refill(c) \/ Unlock(c)
    PROVE  Stays(s) \/ Slips(s) \/ Leaves(s) \/ Enters(s)
<1>0. /\ lock \in [Shops -> BOOLEAN] /\ call \in [Calls -> AnyCall]
      /\ call[c] \in Reading /\ Subject(c) \in Shops
  <2>1. call[c].pc \in ReadingPcs
    BY DEF LockShop, Reload, Refill, Unlock, At, ReadingPcs
  <2> QED  BY <2>1, LabelTellsKind DEF TypeInv, TypeOK, Reading, Subject
<1>1. ASSUME NEW pc, Goto(c, pc) PROVE Rebuilding(s)' \subseteq Rebuilding(s) \cup {c}
  <2> DEFINE moved == [call[c] EXCEPT !.pc = pc]
  <2>1. call' = [call EXCEPT ![c] = moved]
    BY <1>1 DEF Goto
  <2> HIDE DEF moved
  <2> QED  BY <2>1, OneCallMoves
<1>2. ASSUME Done(c) PROVE Rebuilding(s)' \subseteq Rebuilding(s) \ {c}
  <2>1. call' = [call EXCEPT ![c] = Idle] /\ Idle.pc = "idle"
    BY <1>2 DEF Done, Idle
  <2> QED  BY <2>1, OneCallMoves
<1>3. CASE LockShop(c)
  <2>1. CASE ~ lock[Subject(c)] /\ lock' = [lock EXCEPT ![Subject(c)] = TRUE] /\ Goto(c, "rebuild")
    <3>1. CASE Subject(c) = s
      BY <1>0, <1>1, <2>1, <3>1 DEF Enters
    <3>2. CASE Subject(c) # s
      <4>1. Rebuilding(s)' \subseteq Rebuilding(s)
        BY <1>0, <2>1, <3>2 DEF Rebuilding, Goto, Subject, Reading
      <4> QED  BY <1>0, <2>1, <3>2, <4>1 DEF Stays
    <3> QED  BY <3>1, <3>2
  <2>2. CASE Done(c) /\ (lock' = lock \/ lock' = [lock EXCEPT ![Subject(c)] = TRUE])
    BY <1>0, <1>2, <2>2 DEF Stays
  <2> QED  BY <1>3, <2>1, <2>2 DEF LockShop
<1>4. CASE Reload(c) \/ Refill(c)
  <2>1. /\ call[c].pc \in {"rebuild", "refill"} /\ lock' = lock
        /\ \A b \in Calls \ {c} : call'[b] = call[b]
        /\ call'[c].shop = call[c].shop
    BY <1>0, <1>4 DEF Reload, Refill, At, Goto, stores, Reading
  <2>2. Rebuilding(s)' \subseteq Rebuilding(s)
    BY <2>1 DEF Rebuilding, Subject
  <2> QED  BY <2>1, <2>2 DEF Stays
<1>5. CASE Unlock(c)
  <2>1. CASE Subject(c) = s
    <3>1. c \in Rebuilding(s)
      BY <1>5, <2>1 DEF Unlock, At, Rebuilding
    <3> QED  BY <1>2, <1>5, <3>1 DEF Unlock, Leaves
  <2>2. CASE Subject(c) # s
    BY <1>0, <1>2, <1>5, <2>2 DEF Unlock, Try, Stays
  <2> QED  BY <2>1, <2>2
<1> QED  BY <1>3, <1>4, <1>5

\* Whatever else a call does, it neither joins a rebuild nor uses a lock.
LEMMA OtherCallStep ==
    ASSUME TypeInv, NEW c \in Calls, NEW s \in Shops,
           \/ Load(c) \/ Fill(c) \/ MarkMissing(c) \/ Change(c) \/ Scan(c) \/ Backfill(c)
           \/ \E t \in Shops : \/ GetDetail(c, t)
                               \/ \E r \in Row : SaveShop(c, t, r)
                               \/ \E new \in Fields : ReadOld(c, t, new)
           \/ \E t \in Types : Nearby(c, t)
    PROVE  Stays(s)
<1>1. lock' = lock
  BY DEF Load, Fill, MarkMissing, Change, StoreDetail, UpdateRow, Evict, Unlist, List,
         Scan, Backfill, GetDetail, SaveShop, ReadOld, Nearby, stores
<1>2. call \in [Calls -> AnyCall]
  BY DEF TypeInv
<1>3. \A b \in Calls \ {c} : call'[b] = call[b]
  BY <1>2
     DEF Load, Fill, MarkMissing, Change, StoreDetail, UpdateRow, Evict, Unlist, List,
         Scan, Backfill, GetDetail, SaveShop, ReadOld, Nearby, Done, Goto, Begin
<1>4. call'[c].pc \notin {"rebuild", "refill", "unlock"}
  <2>1. Done(c) => call'[c].pc = "idle"
    BY <1>2 DEF Done, Idle
  <2>2. \A pc : Goto(c, pc) => call'[c].pc = pc
    <3>1. call[c] \in {Idle} \cup Reading \cup Writing \cup Filling
      BY <1>2 DEF AnyCall
    <3>2. \A pc : [call[c] EXCEPT !.pc = pc].pc = pc
      BY <3>1 DEF Idle, Reading, Writing, Filling
    <3> QED  BY <1>2, <3>2 DEF Goto
  <2>3. \A r : Begin(c, r) => call'[c] = r
    BY <1>2 DEF Begin
  <2>4. CASE Load(c) \/ Fill(c) \/ MarkMissing(c)
    <3>1. CASE call' = [call EXCEPT ![c].pc = "fill", ![c].has = row[Subject(c)]] /\ At(c, "load")
      <4>1. call[c] \in Reading
        BY <3>1, LabelTellsKind DEF At, ReadingPcs
      <4>2. call'[c].pc = "fill"
        BY <1>2, <3>1, <4>1 DEF Reading
      <4> QED  BY <4>2
    <3>2. CASE Goto(c, "null") \/ Done(c)
      BY <2>1, <2>2, <3>2
    <3> QED  BY <2>4, <3>1, <3>2 DEF Load, Fill, MarkMissing
  <2>5. CASE Change(c)
    BY <2>1, <2>2, <2>5 DEF Change, StoreDetail, UpdateRow, Evict, Unlist, List
  <2>6. CASE Scan(c) \/ Backfill(c)
    <3>1. call[c] \in Filling /\ call[c].pc \in {"scan", "backfill"}
      BY <2>6, LabelTellsKind DEF Scan, Backfill, At, FillingPcs
    <3>2. ASSUME NEW todo, call' = [call EXCEPT ![c].pc = "backfill", ![c].todo = todo]
          PROVE  call'[c].pc = "backfill"
      BY <1>2, <3>1, <3>2 DEF Filling
    <3>3. ASSUME NEW x, call' = [call EXCEPT ![c].todo = @ \ {x}]
          PROVE  call'[c].pc \in {"scan", "backfill"}
      BY <1>2, <3>1, <3>3 DEF Filling
    <3> QED  BY <2>1, <2>6, <3>2, <3>3 DEF Scan, Backfill
  <2>7. CASE \E t \in Shops : GetDetail(c, t)
    BY <2>3, <2>7 DEF GetDetail, Read
  <2>8. CASE \E t \in Shops : \/ \E r \in Row : SaveShop(c, t, r)
                              \/ \E new \in Fields : ReadOld(c, t, new)
    <3>1. PICK t \in Shops : \/ \E r \in Row : SaveShop(c, t, r)
                             \/ \E new \in Fields : ReadOld(c, t, new)
      BY <2>8
    <3>2. \A pc, old, new : WriteOf(t, pc, old, new).pc = pc
      BY DEF WriteOf
    <3>3. CASE \E r \in Row : SaveShop(c, t, r)
      <4>1. call'[c] = Idle \/ \E r \in Row : call'[c] = WriteOf(t, "store", Blank, r)
        BY <2>3, <3>3 DEF SaveShop
      <4> QED  BY <3>2, <4>1 DEF Idle
    <3>4. CASE \E new \in Fields : ReadOld(c, t, new)
      <4>1. \E old, new : call'[c] = WriteOf(t, "update", old, new)
        BY <2>3, <3>4 DEF ReadOld
      <4> QED  BY <3>2, <4>1
    <3> QED  BY <3>1, <3>3, <3>4
  <2>9. CASE \E t \in Types : Nearby(c, t)
    BY <2>3, <2>9 DEF Nearby
  <2> QED  BY <2>4, <2>5, <2>6, <2>7, <2>8, <2>9
<1>5. Rebuilding(s)' \subseteq Rebuilding(s)
  BY <1>3, <1>4 DEF Rebuilding, Subject
<1> QED  BY <1>1, <1>5 DEF Stays

\* What time and crashes do to those who rebuild.
LEMMA TimeStep ==
    ASSUME TypeInv, NEW s \in Shops,
           \/ \E t \in Shops : Expire(t) \/ NullExpires(t) \/ LockExpires(t) \/ LockExpiresEarly(t)
           \/ \E dead \in SUBSET Calls : Crash(dead)
    PROVE  Stays(s) \/ Slips(s) \/ Expires(s)
<1>0. lock \in [Shops -> BOOLEAN] /\ call \in [Calls -> AnyCall] /\ Idle.pc = "idle"
  BY DEF TypeInv, TypeOK, Idle
<1>1. ASSUME call' = call PROVE Rebuilding(s)' = Rebuilding(s)
  BY <1>1 DEF Rebuilding, Subject
<1>2. ASSUME NEW t \in Shops, Expire(t) \/ NullExpires(t) PROVE Stays(s)
  BY <1>1, <1>2 DEF Expire, NullExpires, Stays
<1>3. ASSUME NEW t \in Shops, LockExpires(t) PROVE Stays(s) \/ Expires(s)
  BY <1>0, <1>1, <1>3 DEF LockExpires, Stays, Expires
<1>4. ASSUME NEW t \in Shops, LockExpiresEarly(t) PROVE Stays(s) \/ Slips(s)
  <2>1. CASE t = s
    BY <1>1, <1>4, <2>1 DEF LockExpiresEarly, Slips, TypeInv, TypeOK
  <2>2. CASE t # s
    BY <1>0, <1>1, <1>4, <2>2 DEF LockExpiresEarly, Stays
  <2> QED  BY <2>1, <2>2
<1>5. ASSUME NEW dead \in SUBSET Calls, Crash(dead) PROVE Stays(s)
  BY <1>0, <1>5 DEF Crash, Rebuilding, Subject, stores, Stays
<1> QED  BY <1>2, <1>3, <1>4, <1>5

\* Every step adds at most one rebuild, which takes the lock; the lock comes
\* free by a rebuild that ends, by one that is slow, or when there is none.
LEMMA RebuildInvStep == TypeInv /\ RebuildInv /\ [Next]_vars => RebuildInv'
<1> SUFFICES ASSUME TypeInv, RebuildInv, [Next]_vars PROVE RebuildInv'
  OBVIOUS
<1>1. TypeInv'
  BY TypeStep
<1> SUFFICES ASSUME NEW s \in Shops
             PROVE  Cardinality(Rebuilding(s)') <= slow'[s] + (IF lock'[s] THEN 1 ELSE 0)
  BY DEF RebuildInv
<1>2. slow[s] \in Nat /\ slow'[s] \in Nat /\ lock[s] \in BOOLEAN /\ lock'[s] \in BOOLEAN
  BY <1>1 DEF TypeInv, TypeOK
<1>3. Cardinality(Rebuilding(s)) <= slow[s] + (IF lock[s] THEN 1 ELSE 0)
  BY DEF RebuildInv
<1>4. CASE Next
  <2>1. Step
    BY <1>4 DEF Next
  <2>2. Stays(s) \/ Slips(s) \/ Leaves(s) \/ Enters(s) \/ Expires(s)
    BY <2>1, RebuildStep, OtherCallStep, TimeStep DEF Step, Continue, Detail
  <2>3. slow'[s] = slow[s] \/ slow'[s] = slow[s] + 1
    BY <2>1, SlowStep
  <2> DEFINE n == Cardinality(Rebuilding(s))
             m == Cardinality(Rebuilding(s)')
             held == IF lock[s] THEN 1 ELSE 0
             left == IF lock'[s] THEN 1 ELSE 0
  <2>0. /\ held \in 0..1 /\ left \in 0..1
        /\ (lock[s] => lock'[s]) => held <= left
        /\ ~ lock[s] /\ lock'[s] => held = 0 /\ left = 1
    OBVIOUS
  <2>4. /\ n \in Nat /\ m \in Nat
        /\ Rebuilding(s)' \subseteq Rebuilding(s) => m <= n
        /\ Leaves(s) => m <= n - 1
        /\ Enters(s) => m <= n + 1
        /\ Expires(s) => m = 0
    BY RebuildersCounted
  <2>5. n \in Nat /\ m \in Nat /\ n <= slow[s] + held
    BY <1>3, <2>4
  <2> HIDE DEF n, m, held, left
  <2>6. \/ m <= n /\ held <= left
        \/ m <= n /\ slow'[s] = slow[s] + 1
        \/ m <= n - 1
        \/ m <= n + 1 /\ held = 0 /\ left = 1
        \/ m = 0
    <3>1. CASE Stays(s)
      BY <2>0, <2>4, <3>1 DEF Stays
    <3>2. CASE Slips(s)
      BY <2>4, <3>2 DEF Slips
    <3>3. CASE Leaves(s)
      BY <2>4, <3>3, Zenon
    <3>4. CASE Enters(s)
      <4>1. held = 0 /\ left = 1
        BY <2>0, <3>4 DEF Enters
      <4>2. m <= n + 1
        BY <2>4, <3>4, Zenon
      <4> QED  BY <4>1, <4>2
    <3>5. CASE Expires(s)
      BY <2>4, <3>5, Zenon
    <3> QED  BY <2>2, <3>1, <3>2, <3>3, <3>4, <3>5
  <2>7. m <= slow'[s] + left
    <3>1. n \in Nat /\ m \in Nat /\ n <= slow[s] + held
      BY <2>5
    <3>2. slow[s] \in Nat /\ slow'[s] \in Nat
      BY <1>2
    <3>3. held \in 0..1 /\ left \in 0..1
      BY <2>0
    <3>4. \A f, g \in Nat : \A h, l \in 0..1 :
            /\ n <= f + h /\ (g = f \/ g = f + 1)
            /\ \/ m <= n /\ h <= l
               \/ m <= n /\ g = f + 1
               \/ m <= n - 1
               \/ m <= n + 1 /\ h = 0 /\ l = 1
               \/ m = 0
            => m <= g + l
      BY <3>1
    <3> QED  BY <3>1, <3>2, <3>3, <3>4, <2>3, <2>6
  <2> QED  BY <2>7 DEF m, left
<1>5. CASE UNCHANGED vars
  BY <1>3, <1>5 DEF vars, stores, Rebuilding, Subject
<1> QED  BY <1>4, <1>5

\* At the start nobody rebuilds anything.
LEMMA RebuildInvInit == Init => RebuildInv
<1> SUFFICES ASSUME Init PROVE RebuildInv
  OBVIOUS
<1>1. \A s \in Shops : Rebuilding(s) = {} /\ ~ lock[s]
  BY DEF Init, Rebuilding, Idle
<1>2. \A s \in Shops : Cardinality(Rebuilding(s)) = 0
  BY <1>1, FS_EmptySet
<1> QED  BY <1>1, <1>2 DEF Init, RebuildInv

\* However slow rebuilds, expiring locks, failures and crashes interleave, the
\* rebuilds of a shop that run at once are at most one more than those of this
\* shop that outlived their lock: each of them lets one more in, nothing else.
THEOREM RebuildsNeverPileUp == Spec => []FewRebuilds
<1>1. TypeInv /\ RebuildInv => FewRebuilds
  <2> SUFFICES ASSUME TypeInv, RebuildInv, NEW s \in Shops
               PROVE  Cardinality(Rebuilding(s)) <= 1 + slow[s]
    BY DEF FewRebuilds
  <2>1. /\ slow[s] \in Nat /\ Cardinality(Rebuilding(s)) \in Nat
        /\ Cardinality(Rebuilding(s)) <= slow[s] + (IF lock[s] THEN 1 ELSE 0)
    BY RebuildersCounted DEF TypeInv, TypeOK, RebuildInv
  <2> QED  BY <2>1
<1> QED  BY <1>1, TypeInvariant, RebuildInvInit, RebuildInvStep, PTL DEF Spec

-----------------------------------------------------------------------------
(* The caches.  As long as nothing fails and no writer of a shop meets     *)
(* another call, each step of a save or an update knows where the row, the *)
(* cache entry and the index of the shop are.                              *)

\* What a call holds about shop s is still so: the row it read, the row it
\* wrote, and the positions it is about to list.
Knows(c, s) ==
    LET r == call[c]
    IN  /\ r.pc \in {"refill", "fill"} /\ r.shop = s => r.has = row[s]
        /\ r.pc = "null" /\ r.shop = s => row[s] = Blank
        /\ r.pc = "store" /\ r.shop = s => r.old = Blank /\ r.new = row[s]
        /\ r.pc = "update" /\ r.shop = s => r.old = row[s] /\ row[s] \in Row
        /\ r.pc \in {"evict", "unlist"} /\ r.shop = s => r.old \in Row
        /\ r.pc \in {"evict", "unlist", "list"} /\ r.shop = s =>
              row[s] = Merge(r.old, r.new) /\ row[s] \in Row
        /\ r.pc = "backfill" =>
              \A x \in r.todo : x[1] = s => row[s] = [type |-> r.type, place |-> x[2]]

\* The types that may still place s while a writer is between its row and the
\* index: none, the old one, the one it is going to list.
Indexed(c, s) ==
    LET r == call[c]
    IN  /\ r.pc = "store" /\ r.shop = s => \A t \in Types : geo[t][s] = Absent
        /\ r.pc \in {"evict", "unlist"} /\ r.shop = s =>
              \A t \in Types \ {r.old.type} : geo[t][s] = Absent
        /\ r.pc = "unlist" /\ r.shop = s => Moves(c)
        /\ r.pc = "list" /\ r.shop = s => \A t \in Types \ {row[s].type} : geo[t][s] = Absent

\* The index and the row of a shop.
Indexes(s) ==
    \A t \in Types :
        \/ t = row[s].type /\ geo[t][s] = row[s].place
        \/ geo[t][s] = Absent /\ (t = row[s].type => s \in Imported)

\* A call has still to bring the cache, or the index, up to the row of s.
Writes(c, s, pcs) == call[c].pc \in pcs /\ call[c].shop = s
CachePcs == {"store", "evict"}
IndexPcs == {"store", "evict", "unlist", "list"}

Current(s) ==
    /\ \A c \in Calls : Knows(c, s) /\ Indexed(c, s)
    /\ Agrees(s) \/ \E c \in Calls : Writes(c, s, CachePcs)
    /\ Indexes(s) \/ \E c \in Calls : Writes(c, s, IndexPcs)

CleanInv ==
    \A s \in Shops :
        /\ s \notin overlapped => ~ Entangled(s)
        /\ faults = 0 /\ s \notin overlapped => Current(s)

\* A set with no more than one element has no two.
LEMMA NoTwo ==
    ASSUME NEW S, IsFiniteSet(S), ~ (Cardinality(S) > 1), NEW c \in S, NEW d \in S
    PROVE  c = d
<1> SUFFICES ASSUME c # d PROVE FALSE
  OBVIOUS
<1>1. /\ IsFiniteSet(S \ {c}) /\ Cardinality(S \ {c}) = Cardinality(S) - 1
      /\ Cardinality(S) \in Nat /\ Cardinality(S \ {c}) \in Nat
  BY FS_RemoveElement, FS_CardinalityType
<1>2. Cardinality(S \ {c}) = 0
  BY <1>1
<1> QED  BY <1>1, <1>2, FS_EmptySet

\* A writer of a shop is alone with it.
LEMMA WriterAlone ==
    ASSUME NEW s \in Shops, NEW c \in Calls, NEW d \in Calls
    PROVE  /\ ~ Entangled(s) /\ c \in Writers(s) /\ d \in Touching(s) => d = c
           /\ ~ Entangled(s)' /\ c \in Writers(s)' /\ d \in Touching(s)' => d = c
<1>1. IsFiniteSet(Touching(s)) /\ IsFiniteSet(Touching(s)')
  BY CallsAssumption, FS_Subset DEF Touching
<1>2. Writers(s) \subseteq Touching(s) /\ Writers(s)' \subseteq Touching(s)'
  BY DEF Writers
<1>3. ASSUME ~ Entangled(s), c \in Writers(s), d \in Touching(s) PROVE d = c
  <2>1. ~ (Cardinality(Touching(s)) > 1) /\ c \in Touching(s)
    BY <1>2, <1>3 DEF Entangled
  <2> QED  BY <1>1, <1>3, <2>1, NoTwo
<1>4. ASSUME ~ Entangled(s)', c \in Writers(s)', d \in Touching(s)' PROVE d = c
  <2>1. ~ (Cardinality(Touching(s)') > 1) /\ c \in Touching(s)'
    BY <1>2, <1>4 DEF Entangled
  <2> QED  BY <1>1, <1>4, <2>1, NoTwo
<1> QED  BY <1>3, <1>4

\* The label and the shop of a call that writes about a shop.
LEMMA WritesTouch ==
    ASSUME NEW s \in Shops, NEW c \in Calls
    PROVE  /\ Writes(c, s, WritingPcs) => c \in Writers(s) /\ c \in Touching(s)
           /\ Writes(c, s, WritingPcs)' => c \in Writers(s)' /\ c \in Touching(s)'
           /\ Writes(c, s, CachePcs) => Writes(c, s, IndexPcs)
           /\ Writes(c, s, IndexPcs) => Writes(c, s, WritingPcs)
BY DEF Writes, WritingPcs, IndexPcs, CachePcs, Writers, Touching, Subject

-----------------------------------------------------------------------------
\* Shop s as a step of call c leaves it.
SameRow(s)   == row'[s] = row[s]
SameEntry(s) == cache'[s] = cache[s]
SameIndex(s) == \A t \in Types : geo'[t][s] = geo[t][s]
Alone(c, s)  == \A d \in Calls \ {c} : d \notin Touching(s)
OneMoves(c)  == \A d \in Calls \ {c} : call'[d] = call[d]

\* What the other calls hold about a shop is still so, if the step leaves it
\* alone or none of them has to do with it.
LEMMA OthersKeep ==
    ASSUME NEW s \in Shops, NEW c \in Calls, Current(s), OneMoves(c),
           Alone(c, s) \/ (SameRow(s) /\ SameIndex(s))
    PROVE  \A d \in Calls \ {c} : Knows(d, s)' /\ Indexed(d, s)'
<1> SUFFICES ASSUME NEW d \in Calls \ {c} PROVE Knows(d, s)' /\ Indexed(d, s)'
  OBVIOUS
<1>1. call'[d] = call[d] /\ Knows(d, s) /\ Indexed(d, s)
  BY DEF OneMoves, Current
<1>2. CASE SameRow(s) /\ SameIndex(s)
  BY <1>1, <1>2 DEF Knows, Indexed, Moves, SameRow, SameIndex
<1>3. CASE d \notin Touching(s)
  BY <1>1, <1>3 DEF Knows, Indexed, Touching, Subject
<1> QED  BY <1>2, <1>3 DEF Alone

\* A step that leaves the stores of a shop alone, by a call that was not
\* between its row and the index.
LEMMA LeavesShop ==
    ASSUME NEW s \in Shops, NEW c \in Calls, Current(s), OneMoves(c),
           SameRow(s), SameEntry(s), SameIndex(s), ~ Writes(c, s, IndexPcs),
           Knows(c, s)', Indexed(c, s)'
    PROVE  Current(s)'
<1>1. \A d \in Calls : Knows(d, s)' /\ Indexed(d, s)'
  BY OthersKeep
<1>2. \A d \in Calls \ {c} : /\ Writes(d, s, CachePcs) => Writes(d, s, CachePcs)'
                             /\ Writes(d, s, IndexPcs) => Writes(d, s, IndexPcs)'
  BY DEF OneMoves, Writes
<1>3. Agrees(s)' \/ \E d \in Calls : Writes(d, s, CachePcs)'
  BY <1>2, WritesTouch DEF Current, Agrees, SameEntry, SameRow
<1>4. Indexes(s)' \/ \E d \in Calls : Writes(d, s, IndexPcs)'
  BY <1>2 DEF Current, Indexes, SameIndex, SameRow
<1> QED  BY <1>1, <1>3, <1>4 DEF Current

\* A writer with its shop to itself.
LEMMA WriterKnows ==
    ASSUME NEW s \in Shops, NEW c \in Calls, Current(s), ~ Entangled(s), c \in Writers(s)
    PROVE  /\ Alone(c, s)
           /\ ~ Writes(c, s, CachePcs) => Agrees(s)
           /\ ~ Writes(c, s, IndexPcs) => Indexes(s)
<1>1. \A d \in Calls : d \in Touching(s) => d = c
  BY WriterAlone
<1>2. \A d \in Calls : Writes(d, s, CachePcs) \/ Writes(d, s, IndexPcs) => d = c
  BY <1>1, WritesTouch
<1> QED  BY <1>1, <1>2 DEF Alone, Current

\* Where a call goes, what it remembers on the way, and that it goes alone.
LEMMA CallReplaced ==
    ASSUME TypeInv, NEW c \in Calls, NEW r, call' = [call EXCEPT ![c] = r]
    PROVE  OneMoves(c) /\ call'[c] = r
BY DEF TypeInv, TypeOK, OneMoves

LEMMA CallBegins ==
    ASSUME TypeInv, NEW c \in Calls, NEW r, Begin(c, r)
    PROVE  OneMoves(c) /\ call'[c] = r /\ call[c] = Idle
BY CallReplaced DEF Begin

LEMMA CallEnds ==
    ASSUME TypeInv, NEW c \in Calls, Done(c)
    PROVE  OneMoves(c) /\ call'[c] = Idle /\ call'[c].pc = "idle"
<1>1. OneMoves(c) /\ call'[c] = Idle
  BY CallReplaced DEF Done
<1> QED  BY <1>1 DEF Idle

LEMMA CallGoes ==
    ASSUME TypeInv, NEW c \in Calls, NEW pc, Goto(c, pc), call[c] \in Reading \cup Writing
    PROVE  /\ OneMoves(c)
           /\ call'[c].pc = pc /\ call'[c].shop = call[c].shop
           /\ call[c] \in Writing => call'[c].old = call[c].old /\ call'[c].new = call[c].new
<1> DEFINE moved == [call[c] EXCEPT !.pc = pc]
<1>1. call' = [call EXCEPT ![c] = moved]
  BY DEF Goto
<1>2. moved.pc = pc /\ moved.shop = call[c].shop
  BY DEF Reading, Writing
<1>3. call[c] \in Writing => moved.old = call[c].old /\ moved.new = call[c].new
  BY DEF Writing
<1> HIDE DEF moved
<1> QED  BY <1>1, <1>2, <1>3, CallReplaced

\* A call that ends or has to do with another shop holds nothing about this.
LEMMA HoldsNothing ==
    ASSUME NEW s \in Shops, NEW c \in Calls,
           \/ call'[c].pc \in {"idle", "scan", "lock", "rebuild", "unlock", "load"}
           \/ call'[c].pc \in ReadingPcs \cup WritingPcs /\ call'[c].shop # s
    PROVE  Knows(c, s)' /\ Indexed(c, s)'
BY DEF Knows, Indexed, ReadingPcs, WritingPcs

\* Without a failure every Redis write has its effect.
LEMMA NothingFails ==
    ASSUME TypeInv, faults' = 0
    PROVE  ~ Fault /\ ~ Spend
BY DEF TypeInv, TypeOK, Fault, Spend


\* What the steps below assume about shop s: nothing fails, no writer of it
\* meets another call before or after the step, and its calls know its stores.
Sound(s) == /\ Current(s) /\ faults' = 0
            /\ ~ Entangled(s) /\ ~ Entangled(s)'

\* A read leaves the row and the index alone, and stores what the row is.
LEMMA DetailKeeps ==
    ASSUME TypeInv, NEW s \in Shops, Sound(s), NEW c \in Calls,
           Detail(c) \/ \E u \in Shops : GetDetail(c, u)
    PROVE  Current(s)'
<1>0. ~ Fault /\ SameRow(s) /\ SameIndex(s)
  BY NothingFails
     DEF Sound, Detail, LockShop, Reload, Refill, Unlock, Load, Fill, MarkMissing, GetDetail,
         stores, SameRow, SameIndex
<1>1. CASE \E u \in Shops : GetDetail(c, u)
  <2>1. PICK u \in Shops : GetDetail(c, u)
    BY <1>1
  <2>2. /\ OneMoves(c) /\ call'[c].pc \in {"lock", "load"} /\ call[c] = Idle
        /\ SameEntry(s)
    BY <2>1, CallBegins DEF GetDetail, Read, stores, SameEntry
  <2>3. Knows(c, s)' /\ Indexed(c, s)' /\ ~ Writes(c, s, IndexPcs)
    BY <2>2, HoldsNothing DEF Writes, IndexPcs, Idle
  <2> QED  BY <1>0, <2>2, <2>3, LeavesShop DEF Sound
<1>2. CASE Detail(c)
  <2>1. call[c] \in Reading /\ Subject(c) \in Shops /\ call[c].pc \in ReadingPcs
    <3>1. call[c].pc \in ReadingPcs
      BY <1>2 DEF Detail, LockShop, Reload, Refill, Unlock, Load, Fill, MarkMissing, At, ReadingPcs
    <3> QED  BY <3>1, LabelTellsKind DEF Reading, Subject
  <2>2. ~ Writes(c, s, IndexPcs)
    BY <2>1 DEF Writes, IndexPcs, ReadingPcs
  <2>3. CASE LockShop(c) \/ Unlock(c)
    <3>1. SameEntry(s) /\ (Done(c) \/ Goto(c, "rebuild"))
      BY <2>3 DEF LockShop, Unlock, SameEntry
    <3>2. OneMoves(c) /\ call'[c].pc \in {"idle", "rebuild"}
      BY <2>1, <3>1, CallGoes, CallEnds
    <3> QED  BY <1>0, <2>2, <3>1, <3>2, HoldsNothing, LeavesShop DEF Sound
  <2>4. CASE Reload(c) \/ Load(c)
    <3> DEFINE has == row[Subject(c)]
    <3>1. \/ \E pc \in {"refill", "fill"} : call' = [call EXCEPT ![c].pc = pc, ![c].has = has]
          \/ has = Blank /\ Goto(c, "null")
      BY <1>0, <2>4 DEF Reload, Load
    <3>2. OneMoves(c) /\ Knows(c, s)' /\ Indexed(c, s)'
      <4>1. ASSUME NEW pc \in {"refill", "fill"}, call' = [call EXCEPT ![c].pc = pc, ![c].has = has]
            PROVE  OneMoves(c) /\ Knows(c, s)' /\ Indexed(c, s)'
        <5> DEFINE moved == [call[c] EXCEPT !.pc = pc, !.has = has]
        <5>1. call' = [call EXCEPT ![c] = moved]
          BY <4>1 DEF TypeInv, TypeOK
        <5>2. moved.pc = pc /\ moved.has = has /\ moved.shop = Subject(c)
          BY <2>1 DEF Reading, Subject
        <5> HIDE DEF moved
        <5>3. OneMoves(c) /\ call'[c] = moved
          BY <5>1, CallReplaced
        <5> QED  BY <1>0, <5>2, <5>3 DEF Knows, Indexed, SameRow
      <4>2. ASSUME has = Blank, Goto(c, "null")
            PROVE  OneMoves(c) /\ Knows(c, s)' /\ Indexed(c, s)'
        <5>1. OneMoves(c) /\ call'[c].pc = "null" /\ call'[c].shop = Subject(c)
          BY <2>1, <4>2, CallGoes DEF Subject
        <5> QED  BY <1>0, <4>2, <5>1 DEF Knows, Indexed, SameRow
      <4> QED  BY <3>1, <4>1, <4>2
    <3>3. SameEntry(s)
      BY <2>4 DEF Reload, Load, stores, SameEntry
    <3> QED  BY <1>0, <2>2, <3>2, <3>3, LeavesShop DEF Sound
  <2>5. CASE Refill(c) \/ Fill(c) \/ MarkMissing(c)
    <3>1. /\ OneMoves(c) /\ call'[c].pc \in {"idle", "unlock"}
      BY <2>1, <2>5, CallGoes, CallEnds DEF Refill, Fill, MarkMissing
    <3>2. Knows(c, s)' /\ Indexed(c, s)'
      BY <3>1, HoldsNothing
    <3>3. CASE Subject(c) # s
      <4>1. SameEntry(s)
        BY <2>1, <2>5, <3>3 DEF Refill, Fill, MarkMissing, Try, SetCache, SameEntry, TypeInv, TypeOK
      <4> QED  BY <1>0, <2>2, <3>1, <3>2, <4>1, LeavesShop DEF Sound
    <3>4. CASE Subject(c) = s
      <4>1. Knows(c, s)
        BY DEF Sound, Current
      <4>2. Agrees(s)'
        <5>1. CASE Refill(c) \/ Fill(c)
          <6>1. cache'[s] = Entry("fresh", call[c].has) /\ call[c].has = row[s]
            BY <1>0, <2>1, <3>4, <4>1, <5>1
               DEF Refill, Fill, At, Try, SetCache, Knows, Subject, TypeInv, TypeOK
          <6> QED  BY <1>0, <6>1 DEF Agrees, Entry, SameRow
        <5>2. CASE MarkMissing(c)
          <6>1. cache'[s] = Entry("null", Blank) /\ row[s] = Blank
            BY <1>0, <2>1, <3>4, <4>1, <5>2
               DEF MarkMissing, At, Try, SetCache, Knows, Subject, TypeInv, TypeOK
          <6> QED  BY <1>0, <6>1 DEF Agrees, Entry, SameRow
        <5> QED  BY <2>5, <5>1, <5>2
      <4>3. Indexes(s)' \/ \E d \in Calls : Writes(d, s, IndexPcs)'
        BY <1>0, <2>2, <3>1 DEF Sound, Current, Indexes, SameRow, SameIndex, Writes, OneMoves
      <4>4. \A d \in Calls : Knows(d, s)' /\ Indexed(d, s)'
        BY <1>0, <3>1, <3>2, OthersKeep DEF Sound
      <4> QED  BY <4>2, <4>3, <4>4 DEF Current
    <3> QED  BY <3>3, <3>4
  <2> QED  BY <1>2, <2>3, <2>4, <2>5 DEF Detail
<1> QED  BY <1>1, <1>2

\* Time ages entries, and forgets null markers and locks.
LEMMA TimeKeeps ==
    ASSUME TypeInv, NEW s \in Shops, Sound(s), NEW u \in Shops,
           Expire(u) \/ NullExpires(u) \/ LockExpires(u) \/ LockExpiresEarly(u)
    PROVE  Current(s)'
<1>1. row' = row /\ geo' = geo /\ call' = call /\ ~ Fault
  BY NothingFails DEF Expire, NullExpires, LockExpires, LockExpiresEarly, Sound
<1>2. Agrees(s) => Agrees(s)'
  <2>1. \/ cache'[s] = cache[s]
        \/ cache[s].state = "fresh" /\ cache'[s] = Entry("expired", cache[s].shop)
        \/ cache'[s] = Missing
    BY <1>1
       DEF Expire, NullExpires, LockExpires, LockExpiresEarly, SetCache, TypeInv, TypeOK
  <2> QED  BY <1>1, <2>1 DEF Agrees, Entry, Missing
<1>3. \A c \in Calls : Knows(c, s)' /\ Indexed(c, s)'
  BY <1>1 DEF Sound, Current, Knows, Indexed, Moves
<1> QED  BY <1>1, <1>2, <1>3 DEF Sound, Current, Indexes, Writes

\* A search leaves rows and entries alone, and lists where the rows are.
LEMMA FillingKeeps ==
    ASSUME TypeInv, NEW s \in Shops, Sound(s), NEW c \in Calls,
           Scan(c) \/ Backfill(c) \/ \E t \in Types : Nearby(c, t)
    PROVE  Current(s)'
<1>0. ~ Fault /\ SameRow(s) /\ SameEntry(s)
  BY NothingFails
     DEF Sound, Scan, Backfill, Nearby, stores, SameRow, SameEntry
<1>1. CASE \E t \in Types : Nearby(c, t)
  <2>1. /\ OneMoves(c) /\ call'[c].pc = "scan" /\ call[c] = Idle /\ SameIndex(s)
    BY <1>1, CallBegins DEF Nearby, stores, SameIndex
  <2>2. Knows(c, s)' /\ Indexed(c, s)' /\ ~ Writes(c, s, IndexPcs)
    BY <2>1, HoldsNothing DEF Writes, IndexPcs, Idle
  <2> QED  BY <1>0, <2>1, <2>2, LeavesShop DEF Sound
<1>2. ASSUME Scan(c) \/ Backfill(c)
      PROVE  call[c] \in Filling /\ call[c].pc \in FillingPcs /\ ~ Writes(c, s, IndexPcs)
  BY <1>2, LabelTellsKind DEF Scan, Backfill, At, FillingPcs, Writes, IndexPcs
<1>3. CASE Scan(c)
  <2> DEFINE found == {u \in Shops : row[u].type = call[c].type}
             todo == {<<u, row[u].place>> : u \in found}
             moved == [call[c] EXCEPT !.pc = "backfill", !.todo = todo]
  <2>1. Done(c) \/ call' = [call EXCEPT ![c] = moved]
    BY <1>3 DEF Scan, TypeInv, TypeOK
  <2>2. moved.pc = "backfill" /\ moved.todo = todo /\ moved.type = call[c].type
    BY <1>2, <1>3 DEF Filling
  <2>3. row[s].type = call[c].type =>
            row[s] = [type |-> call[c].type, place |-> row[s].place]
    BY <1>2, <1>3, AbsentAssumption DEF TypeInv, TypeOK, Filling, Row, Blank
  <2>4. \A x \in todo : x[1] = s =>
            row[s] = [type |-> call[c].type, place |-> x[2]]
    BY <2>3
  <2> HIDE DEF todo, moved
  <2>5. OneMoves(c) /\ (call'[c] = Idle \/ call'[c] = moved)
    BY <2>1, CallReplaced, CallEnds
  <2>6. Knows(c, s)' /\ Indexed(c, s)'
    <3>1. CASE call'[c] = Idle
      BY <3>1, HoldsNothing DEF Idle
    <3>2. CASE call'[c] = moved
      BY <1>0, <2>2, <2>4, <3>2 DEF Knows, Indexed, SameRow
    <3> QED  BY <2>5, <3>1, <3>2
  <2>7. SameIndex(s)
    BY <1>3 DEF Scan, stores, SameIndex
  <2> QED  BY <1>0, <1>2, <1>3, <2>5, <2>6, <2>7, LeavesShop DEF Sound
<1>4. CASE Backfill(c)
  <2>0. call[c].pc = "backfill" /\ call[c].todo \in SUBSET (Shops \X Places) /\ call[c].type \in Types
    BY <1>2, <1>4 DEF Backfill, At, Filling
  <2>1. PICK x \in call[c].todo :
          /\ GeoAdd(x[1], [type |-> call[c].type, place |-> x[2]])
          /\ Done(c) \/ call' = [call EXCEPT ![c].todo = @ \ {x}]
    BY <1>0, <1>4 DEF Backfill, Try
  <2>2. OneMoves(c) /\ Knows(c, s)' /\ Indexed(c, s)'
    <3>1. CASE Done(c)
      BY <3>1, CallEnds, HoldsNothing
    <3>2. CASE call' = [call EXCEPT ![c].todo = @ \ {x}]
      <4> DEFINE moved == [call[c] EXCEPT !.todo = call[c].todo \ {x}]
      <4>1. call' = [call EXCEPT ![c] = moved]
        BY <3>2 DEF TypeInv, TypeOK
      <4>2. moved.pc = "backfill" /\ moved.todo \subseteq call[c].todo /\ moved.type = call[c].type
        BY <1>2, <1>4, <2>0 DEF Filling
      <4> HIDE DEF moved
      <4>3. OneMoves(c) /\ call'[c] = moved
        BY <4>1, CallReplaced
      <4>4. Knows(c, s)
        BY DEF Sound, Current
      <4> QED  BY <1>0, <2>0, <4>2, <4>3, <4>4 DEF Knows, Indexed, SameRow
    <3> QED  BY <2>1, <3>1, <3>2
  <2>3. x \in Shops \X Places
    BY <2>0
  <2>4. geo' = [geo EXCEPT ![call[c].type][x[1]] = x[2]]
    BY <2>0, <2>1, <2>3, AbsentAssumption DEF GeoAdd
  <2>5. CASE x[1] # s
    <3>1. SameIndex(s)
      BY <2>0, <2>3, <2>4, <2>5 DEF SameIndex, TypeInv, TypeOK
    <3> QED  BY <1>0, <1>2, <1>4, <2>2, <3>1, LeavesShop DEF Sound
  <2>6. CASE x[1] = s
    <3>1. row[s] = [type |-> call[c].type, place |-> x[2]]
      BY <2>0, <2>6 DEF Sound, Current, Knows
    <3>2. c \in Writers(s)
      BY <2>0, <2>6 DEF Writers, Touching
    <3>3. /\ ~ Writes(c, s, CachePcs) /\ ~ Writes(c, s, IndexPcs)
      BY <2>0 DEF Writes, CachePcs, IndexPcs
    <3>4. Alone(c, s) /\ Agrees(s) /\ Indexes(s)
      BY <3>2, <3>3, WriterKnows DEF Sound
    <3>5. Agrees(s)'
      BY <1>0, <3>4 DEF Agrees, SameRow, SameEntry
    <3>6. \A t \in Types : geo'[t][s] = IF t = call[c].type THEN x[2] ELSE geo[t][s]
      BY <2>0, <2>4, <2>6 DEF TypeInv, TypeOK
    <3>7. Indexes(s)'
      BY <1>0, <3>1, <3>4, <3>6 DEF Indexes, SameRow
    <3>8. \A d \in Calls : Knows(d, s)' /\ Indexed(d, s)'
      BY <2>2, <3>4, OthersKeep DEF Sound
    <3> QED  BY <3>5, <3>7, <3>8 DEF Current
  <2> QED  BY <2>5, <2>6
<1> QED  BY <1>1, <1>3, <1>4


\* The row of a shop with nothing missing.
LEMMA WholeRow ==
    ASSUME NEW new \in Row
    PROVE  /\ Merge(Blank, new) = new
           /\ Absent \notin {new.type, new.place} /\ new # Blank
BY AbsentAssumption DEF Merge, Blank, Row

\* A save begins on a shop nobody else has to do with and leaves the cache and
\* the index to the steps that follow; an update begins with the row it sees.
LEMMA BeginsKeep ==
    ASSUME TypeInv, NEW s \in Shops, Sound(s), NEW c \in Calls, NEW u \in Shops,
           (\E r \in Row : SaveShop(c, u, r)) \/ \E new \in Fields : ReadOld(c, u, new)
    PROVE  Current(s)'
<1>0. ~ Fault
  BY NothingFails DEF Sound
<1>1. CASE \E r \in Row : SaveShop(c, u, r)
  <2>1. PICK r \in Row : SaveShop(c, u, r)
    BY <1>1
  <2>2. /\ row' = [row EXCEPT ![u] = r] /\ row[u] = Blank
        /\ cache' = cache /\ geo' = geo
        /\ OneMoves(c) /\ call'[c] = WriteOf(u, "store", Blank, r) /\ call[c] = Idle
    BY <1>0, <2>1, CallBegins DEF SaveShop
  <2>3. /\ call'[c].pc = "store" /\ call'[c].shop = u
        /\ call'[c].old = Blank /\ call'[c].new = r
    BY <2>2 DEF WriteOf
  <2>4. SameEntry(s) /\ SameIndex(s) /\ ~ Writes(c, s, IndexPcs)
    BY <2>2 DEF SameEntry, SameIndex, Writes, IndexPcs, Idle
  <2>5. CASE u # s
    <3>1. SameRow(s)
      BY <2>2, <2>5 DEF SameRow, TypeInv, TypeOK
    <3>2. Knows(c, s)' /\ Indexed(c, s)'
      BY <2>3, <2>5, HoldsNothing DEF WritingPcs
    <3> QED  BY <2>2, <2>4, <3>1, <3>2, LeavesShop DEF Sound
  <2>6. CASE u = s
    <3>1. Writes(c, s, CachePcs)' /\ Writes(c, s, IndexPcs)' /\ Writes(c, s, WritingPcs)'
      BY <2>3, <2>6 DEF Writes, CachePcs, IndexPcs, WritingPcs
    <3>2. \A d \in Calls : d \in Touching(s)' => d = c
      BY <3>1, WritesTouch, WriterAlone DEF Sound
    <3>3. Alone(c, s)
      BY <2>2, <3>2 DEF Alone, Touching, OneMoves, Subject
    <3>4. \A d \in Calls : ~ Writes(d, s, IndexPcs)
      BY <2>4, <3>3, WritesTouch DEF Alone
    <3>5. Indexes(s)
      BY <3>4 DEF Sound, Current
    <3>6. \A t \in Types : geo[t][s] = Absent
      BY <2>2, <2>6, <3>5, AbsentAssumption DEF Indexes, Blank
    <3>7. row'[s] = r
      BY <2>2, <2>6 DEF TypeInv, TypeOK
    <3>8. Knows(c, s)' /\ Indexed(c, s)'
      BY <2>2, <2>3, <3>6, <3>7 DEF Knows, Indexed
    <3>9. \A d \in Calls : Knows(d, s)' /\ Indexed(d, s)'
      BY <2>2, <3>3, <3>8, OthersKeep DEF Sound
    <3> QED  BY <3>1, <3>9 DEF Current
  <2> QED  BY <2>5, <2>6
<1>2. CASE \E new \in Fields : ReadOld(c, u, new)
  <2>1. PICK new \in Fields : ReadOld(c, u, new)
    BY <1>2
  <2>2. /\ OneMoves(c) /\ call'[c] = WriteOf(u, "update", row[u], new) /\ call[c] = Idle
        /\ row' = row /\ SameRow(s) /\ SameEntry(s) /\ SameIndex(s)
    BY <1>0, <2>1, CallBegins DEF ReadOld, stores, SameRow, SameEntry, SameIndex
  <2>3. /\ call'[c].pc = "update" /\ call'[c].shop = u
        /\ call'[c].old = row[u] /\ call'[c].new = new
    BY <2>2 DEF WriteOf
  <2>4. u = s => row[s] \in Row
    <3>1. SUFFICES ASSUME u = s, row[s] = Blank PROVE FALSE
      BY DEF TypeInv, TypeOK
    <3>2. c \in Writers(s)'
      BY <2>3, <3>1 DEF Writers, Touching, Subject
    <3> QED  BY <2>3, <3>1, <3>2 DEF Sound, Entangled
  <2>5. Knows(c, s)' /\ Indexed(c, s)'
    BY <2>2, <2>3, <2>4 DEF Knows, Indexed
  <2>6. ~ Writes(c, s, IndexPcs)
    BY <2>2 DEF Writes, IndexPcs, Idle
  <2> QED  BY <2>2, <2>5, <2>6, LeavesShop DEF Sound
<1> QED  BY <1>1, <1>2

\* What follows on a save or an update brings the cache, then the index, up to
\* the row.
LEMMA ChangeKeeps ==
    ASSUME TypeInv, NEW s \in Shops, Sound(s), NEW c \in Calls, Change(c)
    PROVE  Current(s)'
<1>0. /\ call[c] \in Writing /\ call[c].pc \in WritingPcs
      /\ Subject(c) \in Shops /\ call[c].shop = Subject(c)
      /\ call[c].old \in Fields /\ call[c].new \in Fields
  <2>1. call[c].pc \in WritingPcs
    BY DEF Change, StoreDetail, UpdateRow, Evict, Unlist, List, At, WritingPcs
  <2> QED  BY <2>1, LabelTellsKind DEF Writing, Subject
<1>1. ~ Fault
  BY NothingFails DEF Sound
<1>2. OneMoves(c) /\ call'[c].pc \in {"idle", "evict", "unlist", "list"}
  BY <1>0, <1>1, CallGoes, CallEnds DEF Change, StoreDetail, UpdateRow, Evict, Unlist, List
<1>3. call'[c].pc # "idle" =>
          /\ call'[c].shop = Subject(c)
          /\ call'[c].old = call[c].old /\ call'[c].new = call[c].new
  BY <1>0, <1>1, CallGoes, CallEnds DEF Change, StoreDetail, UpdateRow, Evict, Unlist, List
<1>4. CASE Subject(c) # s
  <2>1. SameRow(s)
    BY <1>0, <1>4
       DEF Change, StoreDetail, UpdateRow, Evict, Unlist, List, SameRow, TypeInv, TypeOK
  <2>2. SameEntry(s)
    BY <1>0, <1>4
       DEF Change, StoreDetail, UpdateRow, Evict, Unlist, List, Try, SetCache, SameEntry,
           TypeInv, TypeOK
  <2>3. SameIndex(s)
    <3>1. CASE Unlist(c)
      BY <1>0, <1>4, <3>1 DEF Unlist, Try, SameIndex, TypeInv, TypeOK
    <3>2. CASE List(c)
      BY <1>0, <1>4, <3>2 DEF List, Try, GeoAdd, SameIndex, TypeInv, TypeOK
    <3>3. CASE StoreDetail(c) \/ UpdateRow(c) \/ Evict(c)
      BY <3>3 DEF StoreDetail, UpdateRow, Evict, SameIndex
    <3> QED  BY <3>1, <3>2, <3>3 DEF Change
  <2>4. Knows(c, s)' /\ Indexed(c, s)'
    BY <1>2, <1>3, <1>4, HoldsNothing DEF WritingPcs
  <2>5. ~ Writes(c, s, IndexPcs)
    BY <1>0, <1>4 DEF Writes
  <2> QED  BY <1>2, <2>1, <2>2, <2>3, <2>4, <2>5, LeavesShop DEF Sound
<1>5. CASE Subject(c) = s
  <2>1. c \in Writers(s)
    BY <1>0, <1>5, WritesTouch DEF Writes
  <2>2. /\ Alone(c, s)
        /\ call[c].pc \notin CachePcs => Agrees(s)
        /\ call[c].pc \notin IndexPcs => Indexes(s)
    BY <2>1, WriterKnows DEF Sound, Writes
  <2>3. Knows(c, s) /\ Indexed(c, s) /\ row[s] \in Row \cup {Blank}
    BY DEF Sound, Current, TypeInv, TypeOK
  <2>4. ASSUME Knows(c, s)', Indexed(c, s)' PROVE \A d \in Calls : Knows(d, s)' /\ Indexed(d, s)'
    BY <1>2, <2>2, <2>4, OthersKeep DEF Sound
  <2>5. /\ call'[c].pc \in CachePcs => Writes(c, s, CachePcs)'
        /\ call'[c].pc \in IndexPcs => Writes(c, s, IndexPcs)'
    BY <1>3, <1>5 DEF Writes, CachePcs, IndexPcs
  <2>6. CASE StoreDetail(c)
    <3>1. /\ call[c].pc = "store" /\ row' = row /\ geo' = geo
          /\ cache'[s] = Entry("fresh", call[c].new) /\ call'[c].pc = "list"
      BY <1>0, <1>1, <1>5, <2>6, CallGoes
         DEF StoreDetail, At, Try, SetCache, TypeInv, TypeOK
    <3>2. call[c].old = Blank /\ call[c].new = row[s] /\ call[c].new \in Row
      BY <1>0, <1>5, <2>3, <3>1, LabelTellsKind DEF Knows, AnyCall, Carries
    <3>3. Knows(c, s)' /\ Indexed(c, s)'
      BY <1>3, <2>3, <3>1, <3>2, <1>0, <1>5, WholeRow DEF Knows, Indexed
    <3>4. Agrees(s)'
      BY <3>1, <3>2 DEF Agrees, Entry
    <3> QED  BY <2>4, <2>5, <3>1, <3>3, <3>4 DEF Current, IndexPcs
  <2>7. CASE UpdateRow(c)
    <3>1. call[c].pc = "update" /\ geo' = geo /\ call'[c].pc = "evict"
      BY <1>0, <1>1, <2>7, CallGoes DEF UpdateRow, At
    <3>2. call[c].old = row[s] /\ row[s] \in Row
      BY <1>0, <1>5, <2>3, <3>1 DEF Knows
    <3>3. row'[s] = Merge(row[s], call[c].new)
      BY <1>0, <1>1, <1>5, <2>7, <3>2, WholeRow DEF UpdateRow, TypeInv, TypeOK
    <3>4. row'[s] \in Row
      BY <1>0, <3>2, <3>3, MergeTyped
    <3>5. Indexes(s)
      BY <2>2, <3>1 DEF IndexPcs
    <3>6. \A t \in Types \ {call[c].old.type} : geo[t][s] = Absent
      BY <3>2, <3>5 DEF Indexes
    <3>7. Knows(c, s)' /\ Indexed(c, s)'
      BY <1>3, <3>1, <3>2, <3>3, <3>4, <3>6 DEF Knows, Indexed
    <3> QED  BY <2>4, <2>5, <3>1, <3>7 DEF Current, IndexPcs, CachePcs
  <2>8. CASE Evict(c)
    <3>1. /\ call[c].pc = "evict" /\ row' = row /\ geo' = geo /\ cache'[s] = Missing
          /\ call'[c].pc = IF Moves(c) THEN "unlist" ELSE "list"
      BY <1>0, <1>1, <1>5, <2>8, CallGoes
         DEF Evict, At, Try, SetCache, TypeInv, TypeOK
    <3>2. /\ call[c].old \in Row /\ row[s] = Merge(call[c].old, call[c].new) /\ row[s] \in Row
          /\ \A t \in Types \ {call[c].old.type} : geo[t][s] = Absent
      BY <1>0, <1>5, <2>3, <3>1 DEF Knows, Indexed
    <3>3. Knows(c, s)'
      BY <1>3, <3>1, <3>2 DEF Knows
    <3>4. Indexed(c, s)'
      <4>1. Moves(c) <=> Moves(c)'
        BY <1>3, <3>1 DEF Moves
      <4>2. ~ Moves(c) => row[s].type = call[c].old.type
        BY <3>2, WholeRow DEF Moves, Merge
      <4> QED  BY <1>3, <3>1, <3>2, <4>1, <4>2 DEF Indexed
    <3>5. Agrees(s)'
      BY <3>1 DEF Agrees, Missing, Entry
    <3> QED  BY <2>4, <2>5, <3>1, <3>3, <3>4, <3>5 DEF Current, IndexPcs
  <2>9. CASE Unlist(c)
    <3>1. /\ call[c].pc = "unlist" /\ row' = row /\ cache' = cache /\ call'[c].pc = "list"
          /\ geo' = [geo EXCEPT ![call[c].old.type][s] = Absent]
      BY <1>0, <1>1, <1>5, <2>9, CallGoes DEF Unlist, At, Try
    <3>2. /\ call[c].old \in Row /\ row[s] = Merge(call[c].old, call[c].new) /\ row[s] \in Row
          /\ \A t \in Types \ {call[c].old.type} : geo[t][s] = Absent
      BY <1>0, <1>5, <2>3, <3>1 DEF Knows, Indexed
    <3>3. call[c].old.type \in Types
      BY <3>2 DEF Row
    <3>4. \A t \in Types : geo'[t][s] = Absent
      BY <3>1, <3>2, <3>3 DEF TypeInv, TypeOK
    <3>5. Knows(c, s)' /\ Indexed(c, s)'
      BY <1>3, <3>1, <3>2, <3>4 DEF Knows, Indexed
    <3>6. Agrees(s)'
      BY <2>2, <3>1 DEF Agrees, CachePcs
    <3> QED  BY <2>4, <2>5, <3>1, <3>5, <3>6 DEF Current, IndexPcs
  <2>10. CASE List(c)
    <3>1. /\ call[c].pc = "list" /\ row' = row /\ cache' = cache /\ call'[c].pc = "idle"
          /\ GeoAdd(s, Merge(call[c].old, call[c].new))
      BY <1>1, <1>5, <2>10, CallEnds DEF List, At, Try
    <3>2. /\ row[s] = Merge(call[c].old, call[c].new) /\ row[s] \in Row
          /\ \A t \in Types \ {row[s].type} : geo[t][s] = Absent
      BY <1>0, <1>5, <2>3, <3>1 DEF Knows, Indexed
    <3>3. geo' = [geo EXCEPT ![row[s].type][s] = row[s].place] /\ row[s].type \in Types
      BY <3>1, <3>2, WholeRow DEF GeoAdd, Row
    <3>4. \A t \in Types : geo'[t][s] = IF t = row[s].type THEN row[s].place ELSE geo[t][s]
      BY <3>3 DEF TypeInv, TypeOK
    <3>5. Indexes(s)'
      BY <3>1, <3>2, <3>4 DEF Indexes
    <3>6. Agrees(s)'
      BY <2>2, <3>1 DEF Agrees, CachePcs
    <3>7. Knows(c, s)' /\ Indexed(c, s)'
      BY <3>1, HoldsNothing
    <3> QED  BY <2>4, <3>5, <3>6, <3>7 DEF Current
  <2> QED  BY <2>6, <2>7, <2>8, <2>9, <2>10 DEF Change
<1> QED  BY <1>4, <1>5

\* Every step keeps what the calls know, as long as nothing has failed.
LEMMA CleanInvStep == TypeInv /\ CleanInv /\ [Next]_vars => CleanInv'
<1> SUFFICES ASSUME TypeInv, CleanInv, [Next]_vars, NEW s \in Shops
             PROVE  /\ s \notin overlapped' => ~ Entangled(s)'
                    /\ faults' = 0 /\ s \notin overlapped' => Current(s)'
  BY DEF CleanInv
<1>1. CASE UNCHANGED vars
  <2>1. /\ row' = row /\ cache' = cache /\ geo' = geo /\ call' = call
        /\ overlapped' = overlapped /\ faults' = faults
    BY <1>1 DEF vars, stores
  <2>2. Touching(s)' = Touching(s)
    BY <2>1 DEF Touching, Subject
  <2>3. Writers(s)' = Writers(s)
    BY <2>1, <2>2 DEF Writers
  <2>4. Entangled(s)' <=> Entangled(s)
    BY <2>1, <2>2, <2>3 DEF Entangled
  <2>5. Current(s) => Current(s)'
    BY <2>1 DEF Current, Knows, Indexed, Indexes, Agrees, Writes, Moves
  <2> QED  BY <2>1, <2>4, <2>5 DEF CleanInv
<1>2. CASE Next
  <2>1. Step /\ overlapped' = overlapped \cup {u \in Shops : Entangled(u)'}
    BY <1>2 DEF Next
  <2>2. s \notin overlapped' => ~ Entangled(s)'
    BY <2>1
  <2>3. ASSUME faults' = 0, s \notin overlapped' PROVE Current(s)'
    <3>1. faults = 0
      <4>1. ~ Fault /\ ~ Spend /\ faults \in Nat
        BY <2>3, NothingFails DEF TypeInv, TypeOK
      <4>2. faults' = faults
        BY <2>1, <4>1
           DEF Step, Continue, Detail, Change, LockShop, Reload, Refill, Unlock, Load, Fill,
               MarkMissing, StoreDetail, UpdateRow, Evict, Unlist, List, Scan, Backfill, GetDetail,
               SaveShop, ReadOld, Nearby, Expire, NullExpires, LockExpires, LockExpiresEarly,
               Crash, Try, NoFault
      <4> QED  BY <2>3, <4>2
    <3>2. Sound(s)
      BY <2>1, <2>2, <2>3, <3>1 DEF CleanInv, Sound
    <3>3. ASSUME NEW c \in Calls, Continue(c) PROVE Current(s)'
      BY <3>2, <3>3, DetailKeeps, ChangeKeeps, FillingKeeps DEF Continue
    <3>4. ASSUME NEW c \in Calls, NEW u \in Shops,
                 \/ GetDetail(c, u)
                 \/ \E r \in Row : SaveShop(c, u, r)
                 \/ \E new \in Fields : ReadOld(c, u, new)
          PROVE  Current(s)'
      <4>1. CASE GetDetail(c, u)
        BY <3>2, <4>1, DetailKeeps
      <4>2. CASE (\E r \in Row : SaveShop(c, u, r)) \/ \E new \in Fields : ReadOld(c, u, new)
        BY <3>2, <4>2, BeginsKeep
      <4> QED  BY <3>4, <4>1, <4>2
    <3>5. ASSUME NEW c \in Calls, NEW t \in Types, Nearby(c, t) PROVE Current(s)'
      BY <3>2, <3>5, FillingKeeps
    <3>6. ASSUME NEW u \in Shops,
                 Expire(u) \/ NullExpires(u) \/ LockExpires(u) \/ LockExpiresEarly(u)
          PROVE  Current(s)'
      BY <3>2, <3>6, TimeKeeps
    <3>7. \A dead \in SUBSET Calls : ~ Crash(dead)
      BY <2>3, NothingFails DEF Crash
    <3> QED  BY <2>1, <3>3, <3>4, <3>5, <3>6, <3>7 DEF Step
  <2> QED  BY <2>2, <2>3
<1> QED  BY <1>1, <1>2

\* At the start nothing is cached or listed and no call runs.
LEMMA CleanInvInit == Init => CleanInv
<1> SUFFICES ASSUME Init, NEW s \in Shops PROVE ~ Entangled(s) /\ Current(s)
  BY DEF CleanInv
<1>1. \A c \in Calls : call[c].pc = "idle"
  BY DEF Init, Idle
<1>2. \A c : c \notin Writers(s)
  BY <1>1 DEF Writers, Touching
<1>3. ~ Entangled(s)
  BY <1>2 DEF Entangled
<1>4. row \in [Shops -> Row \cup {Blank}] /\ (row[s] # Blank <=> s \in Imported)
  BY DEF Init
<1>5. \A t \in Types : geo[t][s] = Absent /\ (t = row[s].type => s \in Imported)
  BY <1>4, AbsentAssumption DEF Init, Blank
<1>6. Agrees(s)
  BY DEF Init, Agrees, Missing, Entry
<1> QED  BY <1>1, <1>3, <1>5, <1>6 DEF Current, Knows, Indexed, Indexes

\* What the calls know holds throughout.
LEMMA CleanSafe == Spec => []CleanInv
BY TypeInvariant, CleanInvInit, CleanInvStep, PTL DEF Spec

\* Whatever searches, reads and expiries interleave with it, an update or a
\* save that does not meet another call about its shop leaves no entry behind
\* that differs from the row.
THEOREM CachedIsStored == Spec => []CacheAgrees
<1>1. CleanInv => CacheAgrees
  BY WritesTouch DEF CleanInv, CacheAgrees, Current
<1> QED  BY <1>1, CleanSafe, PTL

\* Under the same conditions the index places every shop where its row does,
\* under no other type, and misses only what was imported before it.
THEOREM ListedIsStored == Spec => []GeoAgrees
<1>1. CleanInv => GeoAgrees
  BY WritesTouch DEF CleanInv, GeoAgrees, Current, Indexes
<1> QED  BY <1>1, CleanSafe, PTL

=============================================================================
