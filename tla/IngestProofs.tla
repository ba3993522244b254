---------------------------- MODULE IngestProofs ----------------------------
(***************************************************************************)
(* Theorems about Ingest, for every finite set of documents of any size,   *)
(* and every number of bases, pods, slots and failures.                    *)
(***************************************************************************)
EXTENDS Ingest, FiniteSetTheorems, TLAPS

-----------------------------------------------------------------------------
(* Type correctness.                                                       *)

\* Each document has a worker and a delete handler of its own, and no more.
LEMMA ActorFacts ==
    /\ \A d \in Docs : Worker(d) \in Actors /\ Deleter(d) \in Actors
    /\ \A d, e \in Docs : /\ Worker(d) # Deleter(e)
                          /\ Worker(d) = Worker(e) => d = e
                          /\ Deleter(d) = Deleter(e) => d = e
    /\ \A a \in Actors : a[2] \in Docs /\ (a = Worker(a[2]) \/ a = Deleter(a[2]))
BY DEF Actors, Worker, Deleter

\* Chunk rows of different documents are different rows.
LEMMA RowsApart ==
    ASSUME NEW d \in Docs, NEW e \in Docs, d # e
    PROVE  Rows(d) \cap Rows(e) = {}
BY DEF Rows

\* Every set of chunk rows is finite, so its size is a number.
LEMMA ChunksFinite ==
    ASSUME chunks \subseteq UNION {Rows(d) : d \in Docs}, NEW k
    PROVE  Cardinality(ChunksOf(k)) \in Nat
<1> DEFINE all == {Rows(d) : d \in Docs}
<1>1. IsFiniteSet(all)
  <2> DEFINE rowsOf == [d \in Docs |-> Rows(d)]
  <2>1. rowsOf \in Surjection(Docs, all)
    BY DEF Surjection
  <2> QED  BY <2>1, FS_Surjection, DocsAssumption
<1>2. ASSUME NEW T \in all PROVE IsFiniteSet(T)
  <2>1. PICK d \in Docs : T = Rows(d)
    OBVIOUS
  <2>2. IsFiniteSet({d}) /\ IsFiniteSet(1..Size[d])
    <3>1. Size[d] \in Int /\ 1 \in Int
      BY SizeAssumption
    <3> QED  BY <3>1, FS_Singleton, FS_Interval
  <2> QED  BY <2>1, <2>2, FS_Product DEF Rows
<1>3. IsFiniteSet(UNION all)
  BY <1>1, <1>2, FS_UNION
<1>4. ChunksOf(k) \subseteq UNION all
  BY DEF ChunksOf
<1> QED  BY <1>3, <1>4, FS_Subset, FS_CardinalityType

\* The initial values have their types.
LEMMA TypeInit == Init => TypeOK
BY FaultsAssumption DEF Init, TypeOK, Actors

\* What an actor may be.
Actor == [pc : {"idle", "create", "queued", "delete", "ended"} \cup Working \cup Counting,
          seen : Nat, tracked : BOOLEAN]

\* An actor moves to another label or leaves for good.
LEMMA MoveTyped ==
    ASSUME TypeOK, NEW a \in Actors, NEW pc, [proc[a] EXCEPT !.pc = pc] \in Actor,
           Goto(a, pc) \/ Leave(a)
    PROVE  proc' \in [Actors -> Actor]
<1>1. Over \in Actor
  BY DEF Over, Actor
<1>2. proc \in [Actors -> Actor]
  BY DEF TypeOK, Actor
<1>3. CASE Goto(a, pc)
  <2>1. proc' = [proc EXCEPT ![a] = [proc[a] EXCEPT !.pc = pc]]
    BY <1>3 DEF Goto
  <2> QED  BY <1>2, <2>1
<1>4. CASE Leave(a)
  BY <1>1, <1>2, <1>4 DEF Leave
<1> QED  BY <1>3, <1>4

\* A record with another of the known labels is still an actor's.
LEMMA PcTyped ==
    ASSUME TypeOK, NEW a \in Actors,
           NEW pc \in {"create", "queued", "delete"} \cup Working \cup Counting
    PROVE  [proc[a] EXCEPT !.pc = pc] \in Actor
BY DEF TypeOK, Actor

\* The statuses of rows after the closure update.
LEMMA MarkTyped ==
    ASSUME TypeOK, NEW d \in Docs, NEW st \in Statuses, Mark(d, st)
    PROVE  /\ status' \in [Docs -> Statuses \cup {"none"}]
           /\ task' \in [Docs -> Statuses \cup {"none"}]
           /\ faults' \in 0..MaxFaults
BY FaultsAssumption DEF TypeOK, Mark, Fault, NoFault

\* Removing documents keeps statuses and chunks what they are.
LEMMA RemoveTyped ==
    ASSUME TypeOK, NEW ds, RemoveDocs(ds)
    PROVE  /\ status' \in [Docs -> Statuses \cup {"none"}]
           /\ task' \in [Docs -> Statuses \cup {"none"}]
           /\ chunks' \subseteq UNION {Rows(d) : d \in Docs}
BY DEF TypeOK, RemoveDocs

\* The part of the type that a step of the program changes.
RowsTyped ==
    /\ bases' \subseteq Bases
    /\ counted' \in [Bases -> Nat]
    /\ status' \in [Docs -> Statuses \cup {"none"}]
    /\ task' \in [Docs -> Statuses \cup {"none"}]
    /\ chunks' \subseteq UNION {Rows(d) : d \in Docs}
    /\ proc' \in [Actors -> Actor]
    /\ faults' \in 0..MaxFaults

\* The fault budget is never overdrawn.
LEMMA FaultTyped ==
    ASSUME TypeOK, Fault \/ NoFault
    PROVE  faults' \in 0..MaxFaults
BY FaultsAssumption DEF TypeOK, Fault, NoFault

\* Upload and semaphore keep the types.
LEMMA UploadTyped ==
    ASSUME TypeOK, NEW d \in Docs, CheckBase(d) \/ CreateDoc(d) \/ Acquire(d)
    PROVE  RowsTyped
<1>1. faults' \in 0..MaxFaults
  BY FaultTyped DEF CheckBase, CreateDoc, Acquire
<1>2. proc' \in [Actors -> Actor]
  BY MoveTyped, PcTyped, ActorFacts DEF CheckBase, CreateDoc, Acquire, Working
<1>3. status' \in [Docs -> Statuses \cup {"none"}]
  BY DEF TypeOK, CheckBase, CreateDoc, Acquire, rows, Statuses
<1> QED  BY <1>1, <1>2, <1>3 DEF RowsTyped, TypeOK, CheckBase, CreateDoc, Acquire, rows

\* The stages of Process keep the types.
LEMMA ProcessTyped ==
    ASSUME TypeOK, NEW d \in Docs,
           \/ CreateTask(d) \/ Parse(d) \/ Split(d) \/ Clear(d) \/ Encode(d)
           \/ Insert(d) \/ Fail(d) \/ Finish(d)
    PROVE  RowsTyped
<1> USE ActorFacts
<1>1. CASE CreateTask(d)
  <2>1. faults' \in 0..MaxFaults
    BY <1>1, FaultTyped DEF CreateTask
  <2>2. task' \in [Docs -> Statuses \cup {"none"}]
    BY <1>1 DEF TypeOK, CreateTask, Statuses
  <2>3. proc' \in [Actors -> Actor]
    <3>1. CASE Goto(Worker(d), "parse")
      BY <3>1, MoveTyped, PcTyped DEF Working
    <3>2. CASE proc' = [proc EXCEPT ![Worker(d)].pc = "parse", ![Worker(d)].tracked = TRUE]
      <4> DEFINE moved == [proc[Worker(d)] EXCEPT !.pc = "parse"]
      <4>0. moved \in Actor
        BY PcTyped DEF Working
      <4>1. [moved EXCEPT !.tracked = TRUE] \in Actor
        BY <4>0, Zenon DEF Actor
      <4>2. proc' = [proc EXCEPT ![Worker(d)] = [moved EXCEPT !.tracked = TRUE]]
        BY <3>2 DEF TypeOK
      <4> QED  BY <4>1, <4>2 DEF TypeOK, Actor
    <3> QED  BY <1>1, <3>1, <3>2 DEF CreateTask
  <2> QED  BY <1>1, <2>1, <2>2, <2>3 DEF RowsTyped, TypeOK, CreateTask
<1>2. CASE Parse(d) \/ Split(d) \/ Clear(d) \/ Fail(d) \/ Finish(d)
  <2>1. PICK st \in Statuses : Mark(d, st)
    BY <1>2 DEF Parse, Split, Stage, Clear, Fail, Finish, Statuses
  <2>2. proc' \in [Actors -> Actor]
    BY <1>2, MoveTyped, PcTyped
       DEF Parse, Split, Stage, Clear, Fail, Finish, Working, Counting
  <2>3. chunks' \subseteq chunks
    BY <1>2 DEF Parse, Split, Stage, Clear, Fail, Finish
  <2>4. UNCHANGED <<bases, counted>>
    BY <1>2 DEF Parse, Split, Stage, Clear, Fail, Finish
  <2> QED  BY <2>1, <2>2, <2>3, <2>4, MarkTyped DEF RowsTyped, TypeOK
<1>3. CASE Encode(d) \/ Insert(d)
  <2>1. proc' \in [Actors -> Actor]
    BY <1>3, MoveTyped, PcTyped DEF Encode, Insert, Working
  <2>2. faults' \in 0..MaxFaults
    BY <1>3, FaultTyped DEF Encode, Insert
  <2>3. chunks' \subseteq chunks \cup Rows(d)
    BY <1>3 DEF Encode, Insert, rows
  <2>4. UNCHANGED <<bases, counted, status, task>>
    BY <1>3 DEF Encode, Insert, rows
  <2> QED  BY <2>1, <2>2, <2>3, <2>4 DEF RowsTyped, TypeOK
<1> QED  BY <1>1, <1>2, <1>3

\* Counting the chunks of a base stores a natural number.
LEMMA CountTyped ==
    ASSUME TypeOK, NEW a \in Actors, CountChunks(a) \/ StoreCount(a)
    PROVE  RowsTyped
<1>1. faults' \in 0..MaxFaults
  BY FaultTyped DEF CountChunks, StoreCount
<1>2. CASE CountChunks(a)
  <2> DEFINE n == Cardinality(ChunksOf(home[a[2]]))
  <2>1. n \in Nat
    BY ChunksFinite DEF TypeOK
  <2> HIDE DEF n
  <2>2. proc' \in [Actors -> Actor]
    <3>1. CASE Leave(a)
      BY <3>1, MoveTyped, PcTyped DEF Counting
    <3>2. CASE proc' = [proc EXCEPT ![a].pc = "store", ![a].seen = n]
      <4>1. [proc[a] EXCEPT !.pc = "store", !.seen = n] \in Actor
        BY <2>1 DEF TypeOK, Actor, Counting
      <4>2. proc' = [proc EXCEPT ![a] = [proc[a] EXCEPT !.pc = "store", !.seen = n]]
        BY <3>2 DEF TypeOK
      <4> QED  BY <4>1, <4>2 DEF TypeOK, Actor
    <3> QED  BY <1>2, <3>1, <3>2 DEF CountChunks, n
  <2> QED  BY <1>1, <1>2, <2>2 DEF RowsTyped, TypeOK, CountChunks, rows
<1>3. CASE StoreCount(a)
  <2>1. proc' \in [Actors -> Actor]
    BY <1>3, MoveTyped, PcTyped DEF StoreCount, Counting
  <2>2. counted' \in [Bases -> Nat]
    BY <1>3 DEF TypeOK, StoreCount
  <2> QED  BY <1>1, <1>3, <2>1, <2>2 DEF RowsTyped, TypeOK, StoreCount
<1> QED  BY <1>2, <1>3

\* Deletes and deaths keep the types.
LEMMA DeleteTyped ==
    ASSUME TypeOK, 
           \/ \E d \in Docs : GetDoc(d) \/ DeleteDoc(d) \/ Cut(Deleter(d))
           \/ \E k \in Bases : DeleteKB(k)
           \/ \E p \in Pods : Crash(p)
    PROVE  RowsTyped
<1>1. faults' \in 0..MaxFaults
  BY FaultTyped DEF GetDoc, DeleteDoc, Cut, DeleteKB, Crash
<1>2. CASE \E d \in Docs : GetDoc(d) \/ DeleteDoc(d) \/ Cut(Deleter(d))
  <2>1. PICK d \in Docs : GetDoc(d) \/ DeleteDoc(d) \/ Cut(Deleter(d))
    BY <1>2
  <2>2. proc' \in [Actors -> Actor]
    BY <2>1, MoveTyped, PcTyped, ActorFacts DEF GetDoc, DeleteDoc, Cut, Counting
  <2>3. UNCHANGED <<bases, counted>>
    BY <2>1 DEF GetDoc, DeleteDoc, Cut, rows
  <2>4. UNCHANGED <<status, task, chunks>> \/ RemoveDocs({d})
    BY <2>1 DEF GetDoc, DeleteDoc, Cut, rows
  <2> QED  BY <1>1, <2>2, <2>3, <2>4, RemoveTyped DEF RowsTyped, TypeOK
<1>3. CASE \E k \in Bases : DeleteKB(k)
  BY <1>1, <1>3, RemoveTyped DEF RowsTyped, TypeOK, DeleteKB, Actor
<1>4. CASE \E p \in Pods : Crash(p)
  <2>1. Over \in Actor
    BY DEF Over, Actor
  <2>2. proc' \in [Actors -> Actor]
    BY <1>4, <2>1 DEF Crash, TypeOK, Actor
  <2> QED  BY <1>1, <1>4, <2>2 DEF RowsTyped, TypeOK, Crash, rows
<1> QED  BY <1>2, <1>3, <1>4

\* Every step keeps the types.
LEMMA TypeStep == TypeOK /\ [Next]_vars => TypeOK'
<1> SUFFICES ASSUME TypeOK, [Next]_vars PROVE TypeOK'
  OBVIOUS
<1>1. CASE Next
  <2>1. RowsTyped
    BY <1>1, UploadTyped, ProcessTyped, CountTyped, DeleteTyped, ActorFacts
       DEF Next, Step, Process, Remove
  <2>2. /\ home' = home /\ pod' = pod
        /\ raced' \subseteq Docs
        /\ met' \subseteq Bases
    BY <1>1 DEF Next, Observe, TypeOK
  <2> QED  BY <2>1, <2>2 DEF TypeOK, RowsTyped, Actor, Rows
<1>2. CASE UNCHANGED vars
  BY <1>2 DEF TypeOK, vars, rows, Rows
<1> QED  BY <1>1, <1>2

\* The variables of the pipeline always have the values their comments name;
\* in particular a stored count never goes below zero.
THEOREM TypeCorrect == Spec => []TypeOK
BY TypeInit, TypeStep, PTL DEF Spec

-----------------------------------------------------------------------------
(* Chunks and their documents.                                             *)

\* Where a worker is that has not stored its chunks.
Before == {"idle", "create", "queued", "task", "parse", "split", "clear",
           "encode", "insert", "fail"}

\* As long as nobody deleted document d on its way through the pipeline, the
\* row and the base its chunks belong to are there.
Owned(d) ==
    /\ proc[Worker(d)].pc = "create" => home[d] \in bases
    /\ proc[Worker(d)].pc \in Working \cup {"queued"} => ~ Deleted(d)
    /\ Rows(d) \cap chunks # {} => ~ Deleted(d)

\* From the insert on the chunks are there as long as the document is; only
\* a worker that is through shows it as done or failed, and one that has not
\* come to the insert has left nothing behind.
Told(d) ==
    LET pc == proc[Worker(d)].pc IN
    /\ pc = "done" => status[d] = "none" \/ Rows(d) \subseteq chunks
    /\ status[d] = "done" => Rows(d) \subseteq chunks /\ pc \in Counting \cup {"ended"}
    /\ status[d] = "failed" => pc = "ended"
    /\ faults = 0 /\ (pc \in Before \/ status[d] = "failed") => Rows(d) \cap chunks = {}

OwnerInv  == \A d \in Docs \ raced : Owned(d)
StatusInv == \A d \in Docs : Told(d)

PipelineInv == TypeOK /\ OwnerInv /\ StatusInv

\* What a step leaves alone that has nothing to do with document d.
Untouched(d) ==
    /\ proc'[Worker(d)] = proc[Worker(d)]
    /\ status'[d] = status[d]
    /\ Rows(d) \cap chunks' = Rows(d) \cap chunks
    /\ bases' = bases

\* Failures are never taken back.
LEMMA FaultsGrow ==
    ASSUME TypeOK, TypeOK', Fault \/ NoFault
    PROVE  faults' = 0 => faults = 0
BY FaultsAssumption DEF TypeOK, Fault, NoFault

\* Every step says whether it is a failure.
LEMMA EveryStepCountsFaults ==
    ASSUME Step
    PROVE  Fault \/ NoFault
BY DEF Step, CheckBase, CreateDoc, Acquire, Process, CreateTask, Parse, Split, Stage,
       Clear, Encode, Insert, Fail, Finish, Mark, CountChunks, StoreCount, Remove,
       GetDoc, DeleteDoc, DeleteKB, Crash, Cut, Fault, NoFault

\* What a step leaves alone keeps its part of the invariant.
LEMMA UntouchedKeeps ==
    ASSUME TypeOK, TypeOK', NEW d \in Docs, Untouched(d), home' = home,
           faults' = 0 => faults = 0
    PROVE  /\ Told(d) => Told(d)'
           /\ Owned(d) => Owned(d)'
<1>1. /\ (Rows(d) \subseteq chunks) = (Rows(d) \subseteq chunks')
      /\ (Rows(d) \cap chunks = {}) = (Rows(d) \cap chunks' = {})
      /\ Rows(d)' = Rows(d)
  BY DEF Untouched, Rows
<1>2. Deleted(d)' = Deleted(d)
  BY DEF Untouched, Deleted
<1> QED  BY <1>1, <1>2 DEF Untouched, Told, Owned, Worker

\* The steps taken for one document do not touch another one.
LEMMA OthersUntouched ==
    ASSUME TypeOK, NEW d \in Docs, NEW e \in Docs, e # d,
           \/ CheckBase(d) \/ CreateDoc(d) \/ Acquire(d)
           \/ Process(d) \/ Remove(d) \/ Cut(Deleter(d))
    PROVE  Untouched(e)
<1>1. /\ Worker(d) \in Actors /\ Deleter(d) \in Actors /\ Worker(e) \in Actors
      /\ Worker(d) # Worker(e) /\ Deleter(d) # Worker(e)
  BY ActorFacts
<1>2. proc'[Worker(e)] = proc[Worker(e)]
  BY <1>1 DEF TypeOK, CheckBase, CreateDoc, Acquire, Process, CreateTask, Parse, Split,
              Stage, Clear, Encode, Insert, Fail, Finish, CountChunks, StoreCount,
              Remove, GetDoc, DeleteDoc, Cut, Goto, Leave
<1>3. bases' = bases
  BY DEF rows, CheckBase, CreateDoc, Acquire, Process, CreateTask, Parse, Split,
         Stage, Clear, Encode, Insert, Fail, Finish, CountChunks, StoreCount,
         Remove, GetDoc, DeleteDoc, Cut
<1>4. status'[e] = status[e]
  BY DEF TypeOK, rows, CheckBase, CreateDoc, Acquire, Process, CreateTask, Parse, Split,
         Stage, Clear, Encode, Insert, Fail, Finish, Mark, CountChunks, StoreCount,
         Remove, GetDoc, DeleteDoc, RemoveDocs, Cut
<1>5. \/ chunks' = chunks \/ chunks' = chunks \cup Rows(d) \/ chunks' = chunks \ Rows(d)
      \/ chunks' = {c \in chunks : c[1] \notin {d}}
  BY DEF rows, CheckBase, CreateDoc, Acquire, Process, CreateTask, Parse, Split,
         Stage, Clear, Encode, Insert, Fail, Finish, CountChunks, StoreCount,
         Remove, GetDoc, DeleteDoc, RemoveDocs, Cut
<1>6. \A c \in Rows(e) : c[1] = e /\ c \notin Rows(d)
  BY RowsApart DEF Rows
<1>7. Rows(e) \cap chunks' = Rows(e) \cap chunks
  BY <1>5, <1>6
<1> QED  BY <1>2, <1>3, <1>4, <1>7 DEF Untouched

\* A worker on its way or an upload does not make its own document vanish.
LEMMA WorkerKeeps ==
    ASSUME PipelineInv, TypeOK', NEW d \in Docs, home' = home, Fault \/ NoFault,
           CheckBase(d) \/ CreateDoc(d) \/ Acquire(d) \/ Process(d)
    PROVE  /\ Told(d)'
           /\ d \notin raced => Owned(d)'
<1>1. Worker(d) \in Actors
  BY ActorFacts
<1>2. Told(d) /\ (d \notin raced => Owned(d)) /\ (faults' = 0 => faults = 0)
  BY FaultsGrow DEF PipelineInv, OwnerInv, StatusInv
<1> DEFINE pc == proc[Worker(d)].pc
<1>3. /\ proc \in [Actors -> Actor] /\ status \in [Docs -> Statuses \cup {"none"}]
  BY DEF PipelineInv, TypeOK, Actor
<1>4. Rows(d)' = Rows(d)
  BY DEF Rows
<1>5. CASE CheckBase(d)
  <2>1. pc = "idle" /\ proc'[Worker(d)].pc = "create" /\ home[d] \in bases
    BY <1>1, <1>3, <1>5 DEF CheckBase, At, Goto
  <2> QED  BY <1>2, <1>4, <1>5, <2>1
           DEF CheckBase, rows, Told, Owned, Deleted, Working, Counting, Before, Worker
<1>6. CASE CreateDoc(d)
  <2>1. /\ pc = "create" /\ chunks' = chunks /\ bases' = bases
        /\ status'[d] \in {status[d], "pending"}
        /\ \/ proc'[Worker(d)].pc = "queued" /\ status'[d] = "pending"
           \/ proc'[Worker(d)].pc = "ended" /\ faults' # 0
    BY <1>1, <1>3, <1>6, FaultsAssumption
       DEF CreateDoc, At, Goto, Leave, Over, Fault, PipelineInv, TypeOK
  <2> QED  BY <1>2, <1>4, <2>1
           DEF Told, Owned, Deleted, Working, Counting, Before, Worker
<1>7. CASE Acquire(d)
  <2>1. pc = "queued" /\ proc'[Worker(d)].pc = "task"
    BY <1>1, <1>3, <1>7 DEF Acquire, At, Goto
  <2> QED  BY <1>2, <1>4, <1>7, <2>1
           DEF Acquire, rows, Told, Owned, Deleted, Working, Counting, Before, Worker
<1>8. CASE CreateTask(d) \/ Parse(d) \/ Split(d) \/ Clear(d) \/ Encode(d)
  <2>1. /\ pc \in {"task", "parse", "split", "clear", "encode"}
        /\ proc'[Worker(d)].pc \in {"parse", "split", "clear", "encode", "insert", "fail"}
    <3>1. \A to : Goto(Worker(d), to) => proc'[Worker(d)].pc = to
      BY <1>1, <1>3 DEF Goto, Actor
    <3>2. CASE CreateTask(d)
      <4>1. proc' = [proc EXCEPT ![Worker(d)].pc = "parse", ![Worker(d)].tracked = TRUE]
            => proc'[Worker(d)].pc = "parse"
        BY <1>1, <1>3, Zenon DEF Actor
      <4> QED  BY <3>1, <3>2, <4>1 DEF CreateTask, At
    <3>3. CASE Parse(d) \/ Split(d)
      BY <3>1, <3>3 DEF Parse, Split, Stage, At
    <3>4. CASE Clear(d) \/ Encode(d)
      BY <3>1, <3>4 DEF Clear, Encode, At
    <3> QED  BY <1>8, <3>2, <3>3, <3>4
  <2>2. /\ bases' = bases /\ chunks' \subseteq chunks
        /\ status'[d] \in {status[d], "running"} /\ (status[d] = "none" => status'[d] = "none")
    BY <1>3, <1>8 DEF CreateTask, Parse, Split, Stage, Clear, Encode, Mark, rows
  <2>3. status[d] # "done" /\ status[d] # "failed"
    BY <1>2, <2>1 DEF Told, Counting
  <2>4. status'[d] # "none" \/ status'[d] = status[d]
    BY <2>2
  <2> QED  BY <1>2, <1>4, <2>1, <2>2, <2>3, <2>4
           DEF Told, Owned, Deleted, Working, Counting, Before, Worker
<1>9. CASE Insert(d)
  <2>1. /\ pc = "insert" /\ bases' = bases /\ status' = status
        /\ \/ proc'[Worker(d)].pc = "done" /\ chunks' = chunks \cup Rows(d)
           \/ proc'[Worker(d)].pc = "fail" /\ faults' # 0
    BY <1>1, <1>3, <1>9, FaultsAssumption
       DEF Insert, At, Goto, Fault, PipelineInv, TypeOK
  <2> QED  BY <1>2, <1>4, <2>1
           DEF Told, Owned, Deleted, Working, Counting, Before, Worker
<1>10. CASE Fail(d)
  <2>1. /\ pc = "fail" /\ proc'[Worker(d)].pc = "ended"
        /\ bases' = bases /\ chunks' = chunks
        /\ status'[d] \in {status[d], "failed"} /\ (status[d] = "none" => status'[d] = "none")
    BY <1>1, <1>3, <1>10 DEF Fail, Mark, At, Leave, Over
  <2> QED  BY <1>2, <1>4, <2>1
           DEF Told, Owned, Deleted, Working, Counting, Before, Worker
<1>11. CASE Finish(d)
  <2>1. /\ pc = "done" /\ proc'[Worker(d)].pc = "count"
        /\ bases' = bases /\ chunks' = chunks
        /\ status'[d] \in {status[d], "done"} /\ (status[d] = "none" => status'[d] = "none")
    BY <1>1, <1>3, <1>11 DEF Finish, Mark, At, Goto
  <2> QED  BY <1>2, <1>4, <2>1
           DEF Told, Owned, Deleted, Working, Counting, Before, Worker
<1>12. CASE CountChunks(Worker(d)) \/ StoreCount(Worker(d))
  <2>1. /\ pc \in Counting /\ proc'[Worker(d)].pc \in {"store", "ended"}
        /\ bases' = bases /\ chunks' = chunks /\ status' = status
    <3> DEFINE n == Cardinality(ChunksOf(home[Worker(d)[2]]))
    <3>1. proc' = [proc EXCEPT ![Worker(d)].pc = "store", ![Worker(d)].seen = n]
          => proc'[Worker(d)].pc = "store"
      BY <1>1, <1>3, Zenon DEF Actor
    <3>2. Leave(Worker(d)) => proc'[Worker(d)].pc = "ended"
      BY <1>1, <1>3 DEF Leave, Over
    <3> QED  BY <1>12, <3>1, <3>2 DEF CountChunks, StoreCount, At, Counting, rows
  <2> QED  BY <1>2, <1>4, <2>1
           DEF Told, Owned, Deleted, Working, Counting, Before, Worker
<1> QED  BY <1>5, <1>6, <1>7, <1>8, <1>9, <1>10, <1>11, <1>12 DEF Process

\* Deletes take rows and chunks of a document together, and are seen by the
\* observation when they meet its worker.
LEMMA RemovalKeeps ==
    ASSUME PipelineInv, TypeOK', NEW d \in Docs, NEW ds, d \in ds, RemoveDocs(ds),
           proc'[Worker(d)] = proc[Worker(d)], bases' \subseteq bases,
           home' = home, Observe
    PROVE  /\ Told(d)'
           /\ d \notin raced' => Owned(d)'
<1>1. /\ status'[d] = "none" /\ Rows(d)' = Rows(d) /\ Rows(d) \cap chunks' = {}
  BY DEF RemoveDocs, Rows
<1>2. Told(d) /\ (d \notin raced => Owned(d))
  BY DEF PipelineInv, OwnerInv, StatusInv
<1>3. Told(d)'
  BY <1>1, <1>2 DEF Told, Worker
<1>4. ASSUME d \notin raced' PROVE Owned(d)'
  <2>1. d \notin raced
    BY <1>4 DEF Observe
  <2>2. \/ proc[Worker(d)].pc \notin Working \cup {"create", "queued"}
        \/ (status[d] = "none" \/ status'[d] # "none") /\ ~ (home[d] \in bases \ bases')
    BY <1>4 DEF Observe
  <2>3. proc[Worker(d)].pc \notin Working \cup {"queued"}
    BY <1>1, <1>2, <2>1, <2>2 DEF Owned, Deleted
  <2>4. proc[Worker(d)].pc = "create" => home[d] \in bases'
    BY <1>2, <2>1, <2>2 DEF Owned
  <2> QED  BY <1>1, <2>3, <2>4 DEF Owned, Worker, Working
<1> QED  BY <1>3, <1>4

\* A base that goes leaves the documents of other bases alone.
LEMMA DeleteKBKeeps ==
    ASSUME PipelineInv, TypeOK', NEW d \in Docs, NEW k \in Bases, DeleteKB(k),
           home' = home, Observe
    PROVE  /\ Told(d)'
           /\ d \notin raced' => Owned(d)'
<1>1. CASE home[d] = k
  BY <1>1, RemovalKeeps DEF DeleteKB, InBase
<1>2. CASE home[d] # k
  <2>1. /\ status'[d] = status[d] /\ proc' = proc /\ Rows(d)' = Rows(d)
        /\ faults' = faults
        /\ home[d] \in bases' <=> home[d] \in bases
    BY <1>2 DEF DeleteKB, RemoveDocs, InBase, Rows, NoFault
  <2>2. Rows(d) \cap chunks' = Rows(d) \cap chunks
    BY <1>2 DEF DeleteKB, RemoveDocs, InBase, Rows
  <2>3. /\ (Rows(d) \subseteq chunks) = (Rows(d) \subseteq chunks')
        /\ (Rows(d) \cap chunks = {}) = (Rows(d) \cap chunks' = {})
    BY <2>2
  <2>4. Told(d) /\ (d \notin raced' => Owned(d))
    BY DEF PipelineInv, OwnerInv, StatusInv, Observe
  <2> QED  BY <2>1, <2>3, <2>4 DEF Told, Owned, Deleted, Worker
<1> QED  BY <1>1, <1>2

\* A pod that dies only ends workers, at the cost of a failure.
LEMMA CrashKeeps ==
    ASSUME PipelineInv, TypeOK', NEW d \in Docs, NEW p \in Pods, Crash(p), home' = home
    PROVE  /\ Told(d)'
           /\ d \notin raced => Owned(d)'
<1>1. /\ UNCHANGED <<bases, status, chunks>> /\ Rows(d)' = Rows(d) /\ faults' # 0
      /\ \/ proc'[Worker(d)] = proc[Worker(d)]
         \/ /\ proc'[Worker(d)].pc = "ended"
            /\ proc[Worker(d)].pc \in Working \cup Counting \cup {"queued"}
  BY ActorFacts, FaultsAssumption
     DEF Crash, rows, Rows, Fault, PipelineInv, TypeOK, Over, Active, At
<1>2. Told(d) /\ (d \notin raced => Owned(d))
  BY DEF PipelineInv, OwnerInv, StatusInv
<1> QED  BY <1>1, <1>2 DEF Told, Owned, Deleted, Working, Counting, Before, Worker

\* Nothing is uploaded and nothing stored at the start.
LEMMA PipelineInit == Init => PipelineInv
BY TypeInit, ActorFacts
   DEF Init, PipelineInv, OwnerInv, StatusInv, Owned, Told, Deleted, Working, Counting, Before

\* Every step keeps the invariant.
LEMMA PipelineStep == PipelineInv /\ [Next]_vars => PipelineInv'
<1> SUFFICES ASSUME PipelineInv, [Next]_vars PROVE PipelineInv'
  OBVIOUS
<1>1. TypeOK /\ TypeOK'
  BY TypeStep DEF PipelineInv
<1>2. CASE Next
  <2>1. home' = home /\ Observe /\ Step /\ raced \subseteq raced'
    BY <1>2 DEF Next, Observe
  <2>2. (Fault \/ NoFault) /\ (faults' = 0 => faults = 0)
    BY <1>1, <2>1, EveryStepCountsFaults, FaultsGrow
  <2>3. SUFFICES ASSUME NEW d \in Docs
                 PROVE  Told(d)' /\ (d \notin raced' => Owned(d)')
    BY <1>1 DEF PipelineInv, OwnerInv, StatusInv
  <2>4. Told(d) /\ (d \notin raced' => Owned(d))
    BY <2>1 DEF PipelineInv, OwnerInv, StatusInv
  <2>5. CASE \E e \in Docs : \/ CheckBase(e) \/ CreateDoc(e) \/ Acquire(e)
                             \/ Process(e) \/ Remove(e) \/ Cut(Deleter(e))
    <3>1. PICK e \in Docs : \/ CheckBase(e) \/ CreateDoc(e) \/ Acquire(e)
                            \/ Process(e) \/ Remove(e) \/ Cut(Deleter(e))
      BY <2>5
    <3>2. CASE e # d
      BY <1>1, <2>1, <2>2, <2>4, <3>1, <3>2, OthersUntouched, UntouchedKeeps
    <3>3. CASE e = d /\ (CheckBase(d) \/ CreateDoc(d) \/ Acquire(d) \/ Process(d))
      BY <1>1, <2>1, <2>2, <3>3, WorkerKeeps
    <3>4. CASE e = d /\ (Remove(d) \/ Cut(Deleter(d)))
      <4>1. /\ proc'[Worker(d)] = proc[Worker(d)] /\ bases' = bases
            /\ UNCHANGED <<status, chunks>> \/ RemoveDocs({d})
        BY <1>1, <3>4, ActorFacts
           DEF TypeOK, Remove, Cut, GetDoc, DeleteDoc, CountChunks, StoreCount,
               Goto, Leave, rows
      <4>2. CASE UNCHANGED <<status, chunks>>
        BY <1>1, <2>1, <2>2, <2>4, <4>1, <4>2, UntouchedKeeps DEF Untouched
      <4>3. CASE RemoveDocs({d})
        BY <1>1, <2>1, <4>1, <4>3, RemovalKeeps
      <4> QED  BY <4>1, <4>2, <4>3
    <3> QED  BY <3>1, <3>2, <3>3, <3>4
  <2>6. CASE \E k \in Bases : DeleteKB(k)
    BY <1>1, <2>1, <2>6, DeleteKBKeeps
  <2>7. CASE \E p \in Pods : Crash(p)
    BY <1>1, <2>1, <2>7, CrashKeeps
  <2> QED  BY <2>1, <2>5, <2>6, <2>7 DEF Step
<1>3. CASE UNCHANGED vars
  <2>1. \A d \in Docs : Rows(d)' = Rows(d)
    BY DEF Rows
  <2> QED  BY <1>1, <1>3, <2>1
           DEF vars, rows, PipelineInv, OwnerInv, StatusInv, Owned, Told, Deleted, Worker
<1> QED  BY <1>2, <1>3

\* The invariant holds throughout.
LEMMA PipelineInvariant == Spec => []PipelineInv
BY PipelineInit, PipelineStep, PTL DEF Spec

\* A document is shown as done only with all of its chunks stored, whatever
\* failed or crashed, and as failed, where nothing went wrong, only without.
THEOREM StatusIsTrue == Spec => []StatusTellsChunks
<1>1. PipelineInv => StatusTellsChunks
  BY DEF PipelineInv, StatusInv, Told, StatusTellsChunks
<1> QED  BY <1>1, PipelineInvariant, PTL

\* Only a delete that met the worker of a document leaves chunks behind that
\* belong to nothing.
THEOREM OrphansOnlyByRace == Spec => []OrphansNeedRace
<1>1. PipelineInv => OrphansNeedRace
  BY DEF PipelineInv, OwnerInv, Owned, OrphansNeedRace
<1> QED  BY <1>1, PipelineInvariant, PTL

-----------------------------------------------------------------------------
(* Counts.  Whoever changes the chunks of a base counts them afterwards, and *)
(* whoever is about to store a count still has the right one.                *)

\* Actors that have yet to bring the count of their base up to date.
Owing == {"done", "count", "store"}
ActsOn(a, k) == home[a[2]] = k

\* Counts read are right, and the stored one is or is about to be.
Tallied(k) ==
    /\ \A a \in Actors : ActsOn(a, k) /\ At(a, "store") =>
           proc[a].seen = Cardinality(ChunksOf(k))
    /\ \/ counted[k] = Cardinality(ChunksOf(k))
       \/ \E a \in Actors : ActsOn(a, k) /\ proc[a].pc \in Owing

CountInv == \A k \in bases : faults = 0 /\ k \notin met => Tallied(k)

\* What a step does about the actors that are to store a count of base k, and
\* about its stored count: a chunk that comes or goes during a store is met.
SeenStays(k) ==
    \A a \in Actors : ActsOn(a, k) /\ proc'[a].pc = "store" =>
        \/ proc'[a] = proc[a]
        \/ ChunksOf(k)' = ChunksOf(k) /\ proc'[a].seen = Cardinality(ChunksOf(k))
StillOwing(k) == \E a \in Actors : ActsOn(a, k) /\ proc'[a].pc \in Owing
SameBooks(k) ==
    /\ counted'[k] = counted[k] /\ ChunksOf(k)' = ChunksOf(k)
    /\ \A a \in Actors : ActsOn(a, k) /\ proc[a].pc \in Owing => proc'[a].pc \in Owing

\* A step of these kinds keeps the tally.
LEMMA TallyKept ==
    ASSUME TypeOK, NEW k \in bases, Tallied(k), k \notin met', Observe, home' = home,
           SeenStays(k),
           \/ StillOwing(k) \/ SameBooks(k) \/ counted'[k] = Cardinality(ChunksOf(k)')
    PROVE  Tallied(k)'
<1>0. k \in Bases
  BY DEF TypeOK
<1>1. ASSUME NEW a \in Actors, ActsOn(a, k), proc'[a].pc = "store"
      PROVE  proc'[a].seen = Cardinality(ChunksOf(k)')
  <2>1. CASE proc'[a] = proc[a]
    <3>1. At(a, "store") /\ At(a, "store")'
      BY <1>1, <2>1 DEF At
    <3>2. ChunksOf(k)' = ChunksOf(k)
      BY <1>0, <1>1, <3>1 DEF Observe, ActsOn
    <3>3. proc[a].seen = Cardinality(ChunksOf(k))
      BY <1>1, <3>1 DEF Tallied
    <3> QED  BY <2>1, <3>2, <3>3
  <2> QED  BY <1>1, <2>1 DEF SeenStays
<1>2. \/ counted'[k] = Cardinality(ChunksOf(k)')
      \/ \E a \in Actors : ActsOn(a, k) /\ proc'[a].pc \in Owing
  BY DEF Tallied, StillOwing, SameBooks
<1> QED  BY <1>1, <1>2 DEF Tallied, ActsOn, At

\* Where an actor goes, and that it goes alone.
OthersWait(a) == \A b \in Actors \ {a} : proc'[b] = proc[b]

LEMMA ActorMoves ==
    ASSUME TypeOK, NEW a \in Actors
    PROVE  /\ \A pc : Goto(a, pc) => OthersWait(a) /\ proc'[a].pc = pc
           /\ Leave(a) => OthersWait(a) /\ proc'[a].pc = "ended"
<1>1. proc \in [Actors -> Actor]
  BY DEF TypeOK, Actor
<1>2. ASSUME NEW pc, Goto(a, pc) PROVE OthersWait(a) /\ proc'[a].pc = pc
  BY <1>1, <1>2 DEF Goto, OthersWait, Actor
<1>3. ASSUME Leave(a) PROVE OthersWait(a) /\ proc'[a].pc = "ended"
  BY <1>1, <1>3 DEF Leave, OthersWait, Over
<1> QED  BY <1>2, <1>3

\* A step that changes neither chunks nor counts, by an actor that owes no
\* count and is not about to store one.
LEMMA QuietStep ==
    ASSUME NEW a \in Actors, NEW k, OthersWait(a), counted' = counted, ChunksOf(k)' = ChunksOf(k),
           proc[a].pc \notin Owing, proc'[a].pc # "store"
    PROVE  SeenStays(k) /\ SameBooks(k)
BY DEF OthersWait, SeenStays, SameBooks

\* A step by an actor that owes a count afterwards, or that has to do with
\* another base.
LEMMA OwingStep ==
    ASSUME NEW a \in Actors, NEW k, OthersWait(a), counted' = counted,
           proc'[a].pc \in Owing \ {"store"},
           ~ ActsOn(a, k) => ChunksOf(k)' = ChunksOf(k)
    PROVE  SeenStays(k) /\ (StillOwing(k) \/ SameBooks(k))
BY DEF OthersWait, SeenStays, StillOwing, SameBooks

\* Uploads and the stages before the insert change no chunks, as there are
\* none to clear; neither does a worker that gives up.
LEMMA StagesTally ==
    ASSUME PipelineInv, NEW k \in bases, NEW d \in Docs, faults' = 0, NoFault, home' = home,
           \/ CheckBase(d) \/ CreateDoc(d) \/ Acquire(d) \/ CreateTask(d) \/ Parse(d)
           \/ Split(d) \/ Clear(d) \/ Encode(d) \/ Fail(d) \/ GetDoc(d)
    PROVE  SeenStays(k) /\ SameBooks(k)
<1>0. TypeOK /\ Worker(d) \in Actors /\ Deleter(d) \in Actors /\ ~ Fault
  BY ActorFacts DEF PipelineInv, NoFault, Fault, TypeOK
<1>1. counted' = counted
  BY DEF CheckBase, CreateDoc, Acquire, CreateTask, Parse, Split, Stage, Clear, Encode, Fail,
         GetDoc, rows
<1>2. chunks' = chunks
  <2>1. CASE Clear(d)
    <3>1. proc[Worker(d)].pc \in Before /\ faults = 0
      BY <2>1 DEF Clear, At, Before, NoFault
    <3>2. Rows(d) \cap chunks = {}
      BY <3>1 DEF PipelineInv, StatusInv, Told
    <3> QED  BY <2>1, <3>2 DEF Clear
  <2> QED  BY <2>1 DEF CheckBase, CreateDoc, Acquire, CreateTask, Parse, Split, Stage, Encode,
                      Fail, GetDoc, rows
<1>3. ChunksOf(k)' = ChunksOf(k)
  BY <1>2 DEF ChunksOf
<1>4. CASE GetDoc(d)
  <2>1. /\ proc[Deleter(d)].pc = "idle" /\ proc'[Deleter(d)].pc = "delete"
        /\ OthersWait(Deleter(d))
    BY <1>0, <1>4, ActorMoves DEF GetDoc, At
  <2> QED  BY <1>0, <1>1, <1>3, <2>1, QuietStep DEF Owing
<1>5. CASE CreateTask(d)
  <2>1. /\ OthersWait(Worker(d))
        /\ proc[Worker(d)].pc = "task" /\ proc'[Worker(d)].pc = "parse"
    <3>1. /\ proc' = [proc EXCEPT ![Worker(d)].pc = "parse", ![Worker(d)].tracked = TRUE]
          /\ proc[Worker(d)].pc = "task" /\ proc \in [Actors -> Actor]
      BY <1>0, <1>5 DEF CreateTask, At, TypeOK, Actor
    <3> QED  BY <1>0, <3>1, Zenon DEF Actor, OthersWait
  <2> QED  BY <1>0, <1>1, <1>3, <2>1, QuietStep DEF Owing
<1>6. CASE \/ CheckBase(d) \/ CreateDoc(d) \/ Acquire(d) \/ Parse(d) \/ Split(d)
           \/ Clear(d) \/ Encode(d) \/ Fail(d)
  <2>1. /\ OthersWait(Worker(d))
        /\ proc[Worker(d)].pc \in Before
        /\ proc'[Worker(d)].pc \in Before \cup {"ended"}
    BY <1>0, <1>6, ActorMoves
       DEF CheckBase, CreateDoc, Acquire, Parse, Split, Stage, Clear, Encode, Fail, At, Before
  <2> QED  BY <1>0, <1>1, <1>3, <2>1, QuietStep DEF Owing, Before
<1> QED  BY <1>4, <1>5, <1>6

\* An insert or a delete changes the chunks of its own base only, and is to
\* count them.
LEMMA ChangesTally ==
    ASSUME TypeOK, NEW k \in bases, NEW d \in Docs, faults' = 0, NoFault, home' = home,
           Insert(d) \/ Finish(d) \/ DeleteDoc(d)
    PROVE  SeenStays(k) /\ (StillOwing(k) \/ SameBooks(k))
<1>0. Worker(d) \in Actors /\ Deleter(d) \in Actors /\ ~ Fault
  BY ActorFacts DEF NoFault, Fault, TypeOK
<1>1. PICK a \in {Worker(d), Deleter(d)} :
         OthersWait(a) /\ proc'[a].pc \in Owing \ {"store"}
  BY <1>0, ActorMoves DEF Insert, Finish, DeleteDoc, Owing
<1>2. counted' = counted
  BY DEF Insert, Finish, DeleteDoc
<1>3. \A c : (c \in chunks' <=> c \in chunks) \/ c[1] = d
  BY <1>0 DEF Insert, Finish, DeleteDoc, RemoveDocs, Rows
<1>4. ~ ActsOn(a, k) => ChunksOf(k)' = ChunksOf(k)
  <2>1. ActsOn(a, k) <=> home[d] = k
    BY <1>1 DEF ActsOn, Worker, Deleter
  <2> QED  BY <1>3, <2>1 DEF ChunksOf
<1> QED  BY <1>0, <1>1, <1>2, <1>4, OwingStep

\* A count is of the chunks there are, and what is stored is what was counted.
LEMMA CountTally ==
    ASSUME TypeOK, NEW k \in bases, NEW a \in Actors, NoFault, home' = home, Tallied(k),
           CountChunks(a) \/ StoreCount(a)
    PROVE  SeenStays(k) /\ \/ StillOwing(k) \/ SameBooks(k)
                           \/ counted'[k] = Cardinality(ChunksOf(k)')
<1>0. chunks' = chunks /\ ChunksOf(k)' = ChunksOf(k) /\ k \in Bases /\ ~ Fault
  BY DEF CountChunks, StoreCount, rows, ChunksOf, TypeOK, NoFault, Fault
<1>1. CASE CountChunks(a)
  <2> DEFINE n == Cardinality(ChunksOf(home[a[2]]))
  <2>1. /\ proc' = [proc EXCEPT ![a].pc = "store", ![a].seen = n]
        /\ proc \in [Actors -> Actor] /\ counted' = counted
    BY <1>0, <1>1 DEF CountChunks, TypeOK, Actor, rows
  <2>2. OthersWait(a) /\ proc'[a].pc = "store" /\ proc'[a].seen = n
    <3> HIDE DEF n
    <3> QED  BY <2>1, Zenon DEF OthersWait, Actor
  <2> QED  BY <1>0, <2>1, <2>2
           DEF SeenStays, StillOwing, SameBooks, OthersWait, Owing, ActsOn
<1>2. CASE StoreCount(a)
  <2>1. OthersWait(a) /\ proc'[a].pc = "ended" /\ At(a, "store")
    BY <1>2, ActorMoves DEF StoreCount
  <2>2. SeenStays(k)
    BY <2>1 DEF SeenStays, OthersWait
  <2>3. CASE ActsOn(a, k)
    <3>1. counted'[k] = proc[a].seen
      BY <1>0, <1>2, <2>3 DEF StoreCount, ActsOn, TypeOK
    <3>2. proc[a].seen = Cardinality(ChunksOf(k))
      BY <2>1, <2>3 DEF Tallied
    <3> QED  BY <1>0, <2>2, <3>1, <3>2
  <2>4. CASE ~ ActsOn(a, k)
    <3>1. counted'[k] = counted[k]
      BY <1>0, <1>2, <2>4 DEF StoreCount, ActsOn, TypeOK
    <3> QED  BY <1>0, <2>1, <2>2, <2>4, <3>1 DEF SameBooks, OthersWait
  <2> QED  BY <2>3, <2>4
<1> QED  BY <1>1, <1>2

\* A base that goes takes no chunks of another one with it.
LEMMA DeleteKBTally ==
    ASSUME TypeOK, NEW k \in bases', NEW j \in Bases, DeleteKB(j), home' = home
    PROVE  SeenStays(k) /\ SameBooks(k)
<1>1. k # j /\ counted' = counted /\ proc' = proc
  BY DEF DeleteKB
<1>2. \A c \in chunks : c[1] \in Docs
  BY DEF TypeOK, Rows
<1>3. ChunksOf(k)' = ChunksOf(k)
  BY <1>1, <1>2 DEF DeleteKB, RemoveDocs, InBase, ChunksOf
<1> QED  BY <1>1, <1>3 DEF SeenStays, SameBooks

\* Every step keeps the tallies of the bases that are left.
LEMMA CountInvStep == PipelineInv /\ CountInv /\ [Next]_vars => CountInv'
<1> SUFFICES ASSUME PipelineInv, CountInv, [Next]_vars,
                    NEW k \in bases', faults' = 0, k \notin met'
             PROVE  Tallied(k)'
  BY DEF CountInv
<1>0. TypeOK /\ TypeOK'
  BY TypeStep DEF PipelineInv
<1>1. CASE UNCHANGED vars
  BY <1>1 DEF vars, rows, CountInv, Tallied, ActsOn, At, ChunksOf
<1>2. CASE Next
  <2>1. home' = home /\ Observe /\ Step /\ met \subseteq met'
    BY <1>2 DEF Next, Observe
  <2>2. NoFault /\ faults = 0
    BY <1>0, <2>1, EveryStepCountsFaults DEF TypeOK, Fault, NoFault
  <2>3. bases' \subseteq bases
    BY <2>1
       DEF Step, CheckBase, CreateDoc, Acquire, Process, CreateTask, Parse, Split, Stage,
           Clear, Encode, Insert, Fail, Finish, CountChunks, StoreCount, Remove,
           GetDoc, DeleteDoc, DeleteKB, Crash, Cut, rows
  <2>4. k \in bases /\ Tallied(k)
    BY <2>1, <2>2, <2>3 DEF CountInv
  <2>5. SeenStays(k) /\ \/ StillOwing(k) \/ SameBooks(k)
                        \/ counted'[k] = Cardinality(ChunksOf(k)')
    <3>1. ASSUME NEW d \in Docs, CheckBase(d) \/ CreateDoc(d) \/ Acquire(d)
          PROVE  SeenStays(k) /\ SameBooks(k)
      BY <2>1, <2>2, <2>4, <3>1, StagesTally
    <3>2. ASSUME NEW d \in Docs, Process(d) \/ Remove(d)
          PROVE  SeenStays(k) /\ \/ StillOwing(k) \/ SameBooks(k)
                                 \/ counted'[k] = Cardinality(ChunksOf(k)')
      <4>1. CASE \/ CreateTask(d) \/ Parse(d) \/ Split(d) \/ Clear(d) \/ Encode(d)
                 \/ Fail(d) \/ GetDoc(d)
        BY <2>1, <2>2, <2>4, <4>1, StagesTally
      <4>2. CASE Insert(d) \/ Finish(d) \/ DeleteDoc(d)
        BY <1>0, <2>1, <2>2, <2>4, <4>2, ChangesTally
      <4>3. CASE \E a \in Actors : CountChunks(a) \/ StoreCount(a)
        BY <1>0, <2>1, <2>2, <2>4, <4>3, CountTally
      <4> QED  BY <3>2, <4>1, <4>2, <4>3, ActorFacts DEF Process, Remove
    <3>3. ASSUME NEW j \in Bases, DeleteKB(j) PROVE SeenStays(k) /\ SameBooks(k)
      BY <1>0, <2>1, <3>3, DeleteKBTally
    <3>4. ~ Fault
      BY <1>0, <2>2 DEF NoFault, Fault, TypeOK
    <3> QED  BY <2>1, <3>1, <3>2, <3>3, <3>4 DEF Step, Crash, Cut
  <2> QED  BY <1>0, <2>1, <2>4, <2>5, TallyKept
<1> QED  BY <1>1, <1>2

\* At the start there is nothing to count.
LEMMA CountInvInit == Init => CountInv
<1> SUFFICES ASSUME Init, NEW k \in bases PROVE Tallied(k)
  BY DEF CountInv
<1>1. ChunksOf(k) = {}
  BY DEF Init, ChunksOf
<1>2. Cardinality(ChunksOf(k)) = 0
  BY <1>1, FS_EmptySet
<1>3. \A a \in Actors : ~ At(a, "store")
  BY DEF Init, At
<1> QED  BY <1>2, <1>3 DEF Init, Tallied

\* Once workers and deletes of a base have come to rest, its stored count is
\* the number of its chunks, unless a change fell between a count and its
\* storing: the count is taken anew, so no other order of uploads, failures of
\* stages and deletes can put it out of step.
THEOREM CountIsTrue == Spec => []CountsAgree
<1>1. CountInv => CountsAgree
  <2> SUFFICES ASSUME CountInv, NEW k \in bases, faults = 0, k \notin met, Rested(k)
               PROVE  counted[k] = Cardinality(ChunksOf(k))
    BY DEF CountsAgree
  <2> QED  BY DEF CountInv, Tallied, Rested, ActsOn, Owing
<1>2. Spec => []CountInv
  BY PipelineInvariant, CountInvInit, CountInvStep, PTL DEF Spec
<1> QED  BY <1>1, <1>2, PTL

=============================================================================
