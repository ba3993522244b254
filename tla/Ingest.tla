------------------------------- MODULE Ingest -------------------------------
(***************************************************************************)
(* The document pipeline of the knowledge bases: uploads, the background   *)
(* workers that parse, split, embed and store, and the deletes that may    *)
(* come at any moment.                                                     *)
(*                                                                         *)
(* internal/rag/ingest/ingest.go, internal/rag/store/store.go,             *)
(* internal/httpapi/rag.go                                                 *)
(*                                                                         *)
(* Each step is one database call or one transaction, but for the updates  *)
(* of the document row and the task row, which are made one after the      *)
(* other and taken together here.  What a parser, the splitter or the      *)
(* embedding service answers is any outcome.  A database call that fails,  *)
(* with or without effect, and a pod that dies spend one unit of the fault *)
(* budget MaxFaults.  A document is uploaded once and deleted at most once *)
(* by its own handler, and never renamed or moved.                         *)
(***************************************************************************)
EXTENDS Integers, FiniteSets

CONSTANTS
    Bases,      \* knowledge bases, created before
    Docs,       \* uploads, each a document of its own
    Pods,       \* backend processes, each with its own semaphore
    Slots,      \* capacity of the semaphore
    Size,       \* number of chunks a document splits into
    MaxFaults   \* bound: failures in one behaviour

ASSUME DocsAssumption == IsFiniteSet(Docs)
ASSUME SlotsAssumption == Slots \in Nat \ {0}
ASSUME SizeAssumption == Size \in [Docs -> Nat \ {0}]
ASSUME FaultsAssumption == MaxFaults \in Nat

VARIABLES
    bases,      \* knowledge bases that exist
    counted,    \* [Bases -> chunk_count]
    status,     \* [Docs -> status of the document row, "none" without one]
    task,       \* [Docs -> status of its task row, "none" without one]
    chunks,     \* chunk rows: document and index
    proc,       \* [Actors -> where the worker or the delete of a document is]
    home,       \* [Docs -> knowledge base it was uploaded to]
    pod,        \* [Docs -> pod that took the upload]
    raced,      \* observation: documents deleted under their worker
    met,        \* observation: bases whose counts were taken during a change
    faults      \* observation: failures so far

rows == <<bases, counted, status, task, chunks>>
vars == <<rows, proc, home, pod, raced, met, faults>>

Actors == {"ingest", "delete"} \X Docs
Worker(d)  == <<"ingest", d>>
Deleter(d) == <<"delete", d>>
Rows(d) == {d} \X (1..Size[d])
InBase(k) == {d \in Docs : home[d] = k}
ChunksOf(k) == {c \in chunks : home[c[1]] = k}

Statuses == {"pending", "running", "failed", "done"}
Working  == {"task", "parse", "split", "clear", "encode", "insert", "fail", "done"}
Counting == {"count", "store"}

TypeOK ==
    /\ bases \subseteq Bases
    /\ counted \in [Bases -> Nat]
    /\ status \in [Docs -> Statuses \cup {"none"}]
    /\ task \in [Docs -> Statuses \cup {"none"}]
    /\ chunks \subseteq UNION {Rows(d) : d \in Docs}
    /\ proc \in [Actors -> [pc : {"idle", "create", "queued", "delete", "ended"}
                                   \cup Working \cup Counting,
                            seen : Nat, tracked : BOOLEAN]]
    /\ home \in [Docs -> Bases]
    /\ pod \in [Docs -> Pods]
    /\ raced \subseteq Docs
    /\ met \subseteq Bases
    /\ faults \in 0..MaxFaults

Init ==
    /\ bases = Bases
    /\ counted = [k \in Bases |-> 0]
    /\ status = [d \in Docs |-> "none"]
    /\ task = [d \in Docs |-> "none"]
    /\ chunks = {}
    /\ proc = [a \in Actors |-> [pc |-> "idle", seen |-> 0, tracked |-> FALSE]]
    /\ home \in [Docs -> Bases]
    /\ pod \in [Docs -> Pods]
    /\ raced = {}
    /\ met = {}
    /\ faults = 0

Fault   == faults < MaxFaults /\ faults' = faults + 1
NoFault == UNCHANGED faults

At(a, pc)   == proc[a].pc = pc
Goto(a, pc) == proc' = [proc EXCEPT ![a].pc = pc]
Over     == [pc |-> "ended", seen |-> 0, tracked |-> FALSE]
Leave(a) == proc' = [proc EXCEPT ![a] = Over]
Active(a)   == proc[a].pc \in Working \cup Counting
Busy(p)     == {d \in Docs : pod[d] = p /\ Active(Worker(d))}

-----------------------------------------------------------------------------
(* UploadDoc and Submit.                                                   *)

\* GetKB has found the base.
CheckBase(d) ==
    /\ At(Worker(d), "idle")
    /\ home[d] \in bases
    /\ Goto(Worker(d), "create")
    /\ NoFault
    /\ UNCHANGED rows

\* CreateDoc; when it reports an error nothing is submitted.
CreateDoc(d) ==
    /\ At(Worker(d), "create")
    /\ \/ NoFault /\ status' = [status EXCEPT ![d] = "pending"] /\ Goto(Worker(d), "queued")
       \/ Fault /\ status' \in {status, [status EXCEPT ![d] = "pending"]}
                /\ Leave(Worker(d))
    /\ UNCHANGED <<bases, counted, task, chunks>>

Acquire(d) ==
    /\ At(Worker(d), "queued")
    /\ Cardinality(Busy(pod[d])) < Slots
    /\ Goto(Worker(d), "task")
    /\ NoFault
    /\ UNCHANGED rows

-----------------------------------------------------------------------------
(* Process.                                                                *)

\* CreateTask; its error is thrown away and leaves the worker without task id.
CreateTask(d) ==
    /\ At(Worker(d), "task")
    /\ \/ /\ NoFault
          /\ task' = [task EXCEPT ![d] = "running"]
          /\ proc' = [proc EXCEPT ![Worker(d)].pc = "parse", ![Worker(d)].tracked = TRUE]
       \/ /\ Fault
          /\ task' \in {task, [task EXCEPT ![d] = "running"]}
          /\ Goto(Worker(d), "parse")
    /\ UNCHANGED <<bases, counted, status, chunks>>

\* The closure update: two UPDATEs, of rows that may be gone; either may fail.
Mark(d, st) ==
    LET marked == [status EXCEPT ![d] = IF @ = "none" THEN @ ELSE st]
        follow == IF proc[Worker(d)].tracked
                  THEN [task EXCEPT ![d] = IF @ = "none" THEN @ ELSE st]
                  ELSE task
    IN  \/ NoFault /\ status' = marked /\ task' = follow
        \/ Fault /\ status' \in {status, marked} /\ task' \in {task, follow}

\* A stage marks the document running and then succeeds or not.
Stage(d, pc, next) ==
    /\ At(Worker(d), pc)
    /\ Mark(d, "running")
    /\ Goto(Worker(d), next) \/ Goto(Worker(d), "fail")
    /\ UNCHANGED <<bases, counted, chunks>>

Parse(d) == Stage(d, "parse", "split")
Split(d) == Stage(d, "split", "clear")

\* DeleteChunksByDoc, its error thrown away: a second run would start clean.
Clear(d) ==
    /\ At(Worker(d), "clear")
    /\ Mark(d, "running")
    /\ \/ chunks' = chunks \ Rows(d)
       \/ faults' # faults /\ UNCHANGED chunks
    /\ Goto(Worker(d), "encode")
    /\ UNCHANGED <<bases, counted>>

Encode(d) ==
    /\ At(Worker(d), "encode")
    /\ Goto(Worker(d), "insert") \/ Goto(Worker(d), "fail")
    /\ NoFault
    /\ UNCHANGED rows

\* Mutant: the error of InsertChunks is thrown away too.
InsertBlindly(d) ==
    /\ At(Worker(d), "insert")
    /\ \/ NoFault /\ chunks' = chunks \cup Rows(d)
       \/ Fault /\ UNCHANGED chunks
    /\ Goto(Worker(d), "done")
    /\ UNCHANGED <<bases, counted, status, task>>

\* InsertChunks, one transaction that does not ask for the document or base.
Insert(d) ==
    /\ At(Worker(d), "insert")
    /\ \/ NoFault /\ chunks' = chunks \cup Rows(d) /\ Goto(Worker(d), "done")
       \/ Fault /\ chunks' \in {chunks, chunks \cup Rows(d)} /\ Goto(Worker(d), "fail")
    /\ UNCHANGED <<bases, counted, status, task>>

\* Mutant: the slot is given back only at the end of the good path.
FailLeaks(d) ==
    /\ At(Worker(d), "fail")
    /\ Mark(d, "failed")
    /\ UNCHANGED <<bases, counted, chunks, proc>>

Fail(d) ==
    /\ At(Worker(d), "fail")
    /\ Mark(d, "failed")
    /\ Leave(Worker(d))
    /\ UNCHANGED <<bases, counted, chunks>>

Finish(d) ==
    /\ At(Worker(d), "done")
    /\ Mark(d, "done")
    /\ Goto(Worker(d), "count")
    /\ UNCHANGED <<bases, counted, chunks>>

-----------------------------------------------------------------------------
(* UpdateKBCounts, after a worker has finished or a document is deleted.   *)
(* The number of documents goes the same way and is left out.              *)

CountChunks(a) ==
    /\ At(a, "count")
    /\ \/ NoFault /\ proc' = [proc EXCEPT ![a].pc = "store",
                                 ![a].seen = Cardinality(ChunksOf(home[a[2]]))]
       \/ Fault /\ Leave(a)
    /\ UNCHANGED rows

\* Mutant: the count is adjusted by the size of the document.
StoreDelta(a) ==
    LET k == home[a[2]]
        delta == IF a[1] = "ingest" THEN Size[a[2]] ELSE -Size[a[2]]
    IN  /\ At(a, "store")
        /\ NoFault
        /\ counted' = IF k \in bases THEN [counted EXCEPT ![k] = @ + delta] ELSE counted
        /\ Leave(a)
        /\ UNCHANGED <<bases, status, task, chunks>>

StoreCount(a) ==
    LET k == home[a[2]]
        stored == IF k \in bases THEN [counted EXCEPT ![k] = proc[a].seen] ELSE counted
    IN  /\ At(a, "store")
        /\ \/ NoFault /\ counted' = stored
           \/ Fault /\ counted' \in {counted, stored}
        /\ Leave(a)
        /\ UNCHANGED <<bases, status, task, chunks>>

-----------------------------------------------------------------------------
(* DeleteDoc and DeleteKB, one transaction each.                           *)

GetDoc(d) ==
    /\ At(Deleter(d), "idle")
    /\ status[d] # "none"
    /\ Goto(Deleter(d), "delete")
    /\ NoFault
    /\ UNCHANGED rows

\* Rows leave the tables of chunks, tasks and documents together.
RemoveDocs(ds) ==
    /\ status' = [d \in Docs |-> IF d \in ds THEN "none" ELSE status[d]]
    /\ task' = [d \in Docs |-> IF d \in ds THEN "none" ELSE task[d]]
    /\ chunks' = {c \in chunks : c[1] \notin ds}

\* Mutant: the chunks are kept.
DeleteDocRow(d) ==
    /\ At(Deleter(d), "delete")
    /\ NoFault
    /\ status' = [status EXCEPT ![d] = "none"]
    /\ Goto(Deleter(d), "count")
    /\ UNCHANGED <<bases, counted, task, chunks>>

\* Mutant: the counts are not brought up to date.
DeleteUncounted(d) ==
    /\ At(Deleter(d), "delete")
    /\ NoFault /\ RemoveDocs({d}) /\ Leave(Deleter(d))
    /\ UNCHANGED <<bases, counted>>

DeleteDoc(d) ==
    /\ At(Deleter(d), "delete")
    /\ \/ NoFault /\ RemoveDocs({d}) /\ Goto(Deleter(d), "count")
       \/ Fault /\ Leave(Deleter(d))
                /\ (RemoveDocs({d}) \/ UNCHANGED <<status, task, chunks>>)
    /\ UNCHANGED <<bases, counted>>

DeleteKB(k) ==
    /\ k \in bases
    /\ bases' = bases \ {k}
    /\ RemoveDocs(InBase(k))
    /\ NoFault
    /\ UNCHANGED <<counted, proc>>

\* A pod dies with its workers and queue; a handler is cut off.  Nothing
\* takes a document up again.
Crash(p) ==
    /\ \E d \in Docs : pod[d] = p /\ (Active(Worker(d)) \/ At(Worker(d), "queued"))
    /\ Fault
    /\ proc' = [a \in Actors |->
           IF /\ a[1] = "ingest" /\ pod[a[2]] = p
              /\ (Active(a) \/ At(a, "queued"))
           THEN Over ELSE proc[a]]
    /\ UNCHANGED rows

Cut(a) ==
    /\ a[1] = "delete" /\ (Active(a) \/ At(a, "delete"))
    /\ Fault
    /\ Leave(a)
    /\ UNCHANGED rows

-----------------------------------------------------------------------------
Process(d) ==
    \/ CreateTask(d) \/ Parse(d) \/ Split(d) \/ Clear(d) \/ Encode(d)
    \/ Insert(d) \/ Fail(d) \/ Finish(d)
    \/ CountChunks(Worker(d)) \/ StoreCount(Worker(d))

Remove(d) ==
    GetDoc(d) \/ DeleteDoc(d) \/ CountChunks(Deleter(d)) \/ StoreCount(Deleter(d))

Step ==
    \/ \E d \in Docs : \/ CheckBase(d) \/ CreateDoc(d) \/ Acquire(d)
                       \/ Process(d) \/ Remove(d) \/ Cut(Deleter(d))
    \/ \E k \in Bases : DeleteKB(k)
    \/ \E p \in Pods : Crash(p)

\* Observations: a document or its base vanishes under an upload on its way; a
\* base whose chunks or counts change between a count and its storing.
Observe ==
    /\ raced' = raced \cup {d \in Docs :
           /\ \/ status[d] # "none" /\ status'[d] = "none"
              \/ home[d] \in bases \ bases'
           /\ proc[Worker(d)].pc \in Working \cup {"create", "queued"}}
    /\ met' = met \cup {k \in Bases :
           /\ ChunksOf(k) # ChunksOf(k)' \/ counted[k] # counted'[k]
           /\ \E a \in Actors : home[a[2]] = k /\ At(a, "store") /\ At(a, "store")'}

Next == UNCHANGED <<home, pod>> /\ Step /\ Observe

Spec == Init /\ [][Next]_vars

\* A goroutine goes on; the channel that serves as semaphore lets those in
\* that wait.  Nothing has to fail.
Fairness ==
    \A d \in Docs : WF_vars(/\ UNCHANGED <<home, pod, faults>>
                            /\ CreateDoc(d) \/ Acquire(d) \/ Process(d)
                            /\ Observe)

FairSpec == Spec /\ Fairness

-----------------------------------------------------------------------------
(* What the pipeline promises.                                             *)

Rested(k) == \A a \in Actors : home[a[2]] = k =>
                proc[a].pc \in {"idle", "create", "queued", "ended"}

\* A document shown as done has all its chunks, whatever failed or crashed;
\* one shown as failed has none, unless a call took effect in spite of its
\* error.
StatusTellsChunks ==
    \A d \in Docs :
        /\ status[d] = "done" => Rows(d) \subseteq chunks
        /\ status[d] = "failed" /\ faults = 0 => Rows(d) \cap chunks = {}

Deleted(d) == status[d] = "none" \/ home[d] \notin bases

\* Chunks without a document or base are left behind only by a delete that
\* came while the document was on its way through the pipeline.
OrphansNeedRace ==
    \A d \in Docs \ raced : Deleted(d) => Rows(d) \cap chunks = {}

\* At rest the stored count of a base is the number of its chunks, if no
\* change fell between a count and its storing.
CountsAgree ==
    \A k \in bases : faults = 0 /\ k \notin met /\ Rested(k) =>
        counted[k] = Cardinality(ChunksOf(k))

\* Without failures an upload that was accepted ends as done or failed, or is
\* deleted, however many wait for a slot.
UploadsSettle ==
    \A d \in Docs :
        [](faults = 0) =>
            (status[d] = "pending" ~> status[d] \in {"done", "failed", "none"})

\* Deleting a document or a base deletes its chunks.
DeletedChunksStayDeleted ==
    \A d \in Docs : Rested(home[d]) /\ Deleted(d) => Rows(d) \cap chunks = {}

=============================================================================
