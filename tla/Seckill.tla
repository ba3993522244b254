------------------------------- MODULE Seckill -------------------------------
(***************************************************************************)
(* The flash sale: publishing a voucher, the purchase request that decides *)
(* in one Redis script and hands the order to Kafka, and the consumers     *)
(* that write it to MySQL with retries and a dead-letter topic.            *)
(*                                                                         *)
(* internal/service/seckill.go, internal/mq/mq.go, scripts/lua/seckill.lua *)
(*                                                                         *)
(* MySQL, Redis and the Kafka logs keep what they acknowledged.  Calls to  *)
(* them fail with or without effect, pods stop and crash, partitions move. *)
(* Every such disturbance spends one unit of the fault budget MaxFaults.   *)
(***************************************************************************)
EXTENDS Integers, FiniteSets, Sequences

CONSTANTS
    Users,       \* user ids
    Vouchers,    \* flash-sale vouchers an administrator may publish
    Requests,    \* calls of POST /voucher-order/seckill/{id}
    Pods,        \* backend processes, each with one main and one DLT consumer
    Stock,       \* the stock a voucher is published with
    MaxRetries,  \* len(retryBackoffs): tries after the first one
    MaxFaults    \* bound: disturbances in one behaviour

ASSUME StockAssumption == Stock \in [Vouchers -> Nat]
ASSUME PodsAssumption == Pods # {}
ASSUME BoundsAssumption == MaxRetries \in Nat /\ MaxFaults \in Nat

VARIABLES
    published,   \* [Vouchers -> state of the publishing call]
    dbStock,     \* tb_seckill_voucher.stock
    orders,      \* rows of tb_voucher_order
    redisStock,  \* seckill:stock:{voucherId}, NoKey while absent
    buyers,      \* seckill:order:{voucherId}, a Redis set
    counter,     \* icr:order:{day}
    req,         \* [Requests -> where the call is and what it carries]
    log,         \* [Topics -> [Vouchers -> messages of the partition]]
    committed,   \* [Topics -> [Vouchers -> offset the group has committed]]
    position,    \* [Topics -> [Vouchers -> offset its owner fetches from]]
    owner,       \* [Topics -> [Vouchers -> pod the group assigned it to]]
    cons,        \* [Pods -> [Topics -> state of that consumer loop]]
    stopping,    \* pods whose root context is cancelled
    abandoned,   \* observation: messages a consumer logged and gave up
    faults       \* observation: disturbances so far

sale     == <<published, dbStock, orders>>
redis    == <<redisStock, buyers, counter>>
broker   == <<log, committed, position, owner>>
vars     == <<sale, redis, req, broker, cons, stopping, abandoned, faults>>

\* The Hash balancer sends all messages of a voucher to one partition; each
\* voucher has its own here.  Offsets count messages, from 0.
Topics  == {"main", "dlt"}
Message == [id : Nat, user : Users, voucher : Vouchers]
NoKey   == -1

Running  == {"new", "script", "publish"}
Answered == {"ordered", "noStock", "repeat", "failed", "cut"}
Request  == [pc : Running \cup Answered, id : Nat, user : Users, voucher : Vouchers]

Idle     == [pc |-> "idle"]
Working  == [pc : {"insert", "deduct", "dead", "commit"}, voucher : Vouchers,
             at : Nat \ {0}, tries : 0..MaxRetries]

TypeOK ==
    /\ published \in [Vouchers -> {"none", "saved", "done", "failed"}]
    /\ dbStock \in [Vouchers -> Nat]
    /\ orders \subseteq Message
    /\ redisStock \in [Vouchers -> Nat \cup {NoKey}]
    /\ buyers \in [Vouchers -> SUBSET Users]
    /\ counter \in Nat
    /\ req \in [Requests -> Request]
    /\ log \in [Topics -> [Vouchers -> Seq(Message)]]
    /\ committed \in [Topics -> [Vouchers -> Nat]]
    /\ position \in [Topics -> [Vouchers -> Nat]]
    /\ owner \in [Topics -> [Vouchers -> Pods]]
    /\ cons \in [Pods -> [Topics -> {Idle} \cup Working]]
    /\ stopping \subseteq Pods
    /\ abandoned \subseteq Message
    /\ faults \in 0..MaxFaults

Init ==
    /\ published = [v \in Vouchers |-> "none"]
    /\ dbStock = [v \in Vouchers |-> 0]
    /\ orders = {}
    /\ redisStock = [v \in Vouchers |-> NoKey]
    /\ buyers = [v \in Vouchers |-> {}]
    /\ counter = 0
    /\ req \in [Requests -> [pc : {"new"}, id : {0}, user : Users, voucher : Vouchers]]
    /\ log = [t \in Topics |-> [v \in Vouchers |-> <<>>]]
    /\ committed = [t \in Topics |-> [v \in Vouchers |-> 0]]
    /\ position = [t \in Topics |-> [v \in Vouchers |-> 0]]
    /\ owner \in [Topics -> [Vouchers -> Pods]]
    /\ cons = [p \in Pods |-> [t \in Topics |-> Idle]]
    /\ stopping = {}
    /\ abandoned = {}
    /\ faults = 0

Fault   == faults < MaxFaults /\ faults' = faults + 1
NoFault == UNCHANGED faults

-----------------------------------------------------------------------------
(* AddSeckillVoucher: one transaction, then the Redis preload.             *)

SaveVoucher(v) ==
    /\ published[v] = "none"
    /\ published' = [published EXCEPT ![v] = "saved"]
    /\ dbStock' = [dbStock EXCEPT ![v] = Stock[v]]
    /\ NoFault
    /\ UNCHANGED <<orders, redis, req, broker, cons, stopping, abandoned>>

PreloadStock(v) ==
    /\ published[v] = "saved"
    /\ published' = [published EXCEPT ![v] = "done"]
    /\ redisStock' = [redisStock EXCEPT ![v] = Stock[v]]
    /\ NoFault
    /\ UNCHANGED <<dbStock, orders, buyers, counter, req, broker, cons, stopping, abandoned>>

\* The SET returns an error, with or without effect; the rows stay committed.
PreloadFails(v) ==
    /\ published[v] = "saved"
    /\ Fault
    /\ published' = [published EXCEPT ![v] = "failed"]
    /\ redisStock' \in {redisStock, [redisStock EXCEPT ![v] = Stock[v]]}
    /\ UNCHANGED <<dbStock, orders, buyers, counter, req, broker, cons, stopping, abandoned>>

-----------------------------------------------------------------------------
(* SeckillVoucher, one call.                                               *)

Goto(r, pc) == req' = [req EXCEPT ![r].pc = pc]

\* NextOrderId.  The order number is the INCR result; module OrderId models
\* the clock half of it.
TakeNumber(r) ==
    /\ req[r].pc = "new"
    /\ counter' = counter + 1
    /\ req' = [req EXCEPT ![r].pc = "script", ![r].id = counter + 1]
    /\ NoFault
    /\ UNCHANGED <<sale, redisStock, buyers, broker, cons, stopping, abandoned>>

TakeNumberFails(r) ==
    /\ req[r].pc = "new"
    /\ Fault
    /\ Goto(r, "failed")
    /\ counter' \in {counter, counter + 1}
    /\ UNCHANGED <<sale, redisStock, buyers, broker, cons, stopping, abandoned>>

\* Mutants: the script without the membership test; with a stock test off by one.
ScriptAnswerAnyone(u, v) ==
    IF redisStock[v] <= 0 THEN "noStock" ELSE "publish"
ScriptAnswerLastUnit(u, v) ==
    IF redisStock[v] < 0 THEN "noStock"
    ELSE IF u \in buyers[v] THEN "repeat" ELSE "publish"

\* What seckill.lua answers user u for voucher v, and its effect.
ScriptAnswer(u, v) ==
    IF redisStock[v] <= 0 THEN "noStock"
    ELSE IF u \in buyers[v] THEN "repeat" ELSE "publish"

Reserve(u, v) ==
    /\ redisStock' = [redisStock EXCEPT ![v] = @ - 1]
    /\ buyers' = [buyers EXCEPT ![v] = @ \cup {u}]

ScriptEffect(u, v) ==
    IF ScriptAnswer(u, v) = "publish"
    THEN Reserve(u, v)
    ELSE UNCHANGED <<redisStock, buyers>>

RunScript(r) ==
    /\ req[r].pc = "script"
    /\ Goto(r, ScriptAnswer(req[r].user, req[r].voucher))
    /\ ScriptEffect(req[r].user, req[r].voucher)
    /\ NoFault
    /\ UNCHANGED <<sale, counter, broker, cons, stopping, abandoned>>

ScriptFails(r) ==
    /\ req[r].pc = "script"
    /\ Fault
    /\ Goto(r, "failed")
    /\ \/ UNCHANGED <<redisStock, buyers>>
       \/ ScriptEffect(req[r].user, req[r].voucher)
    /\ UNCHANGED <<sale, counter, broker, cons, stopping, abandoned>>

\* Mutant: the number is read back from the counter when the message is built.
MessageOfCounter(r) == [id |-> counter, user |-> req[r].user, voucher |-> req[r].voucher]

MessageOf(r) == [id |-> req[r].id, user |-> req[r].user, voucher |-> req[r].voucher]

Send(t, m) == log' = [log EXCEPT ![t][m.voucher] = Append(@, m)]

Publish(r) ==
    /\ req[r].pc = "publish"
    /\ Send("main", MessageOf(r))
    /\ Goto(r, "ordered")
    /\ NoFault
    /\ UNCHANGED <<sale, redis, committed, position, owner, cons, stopping, abandoned>>

\* The writer's own retry after a lost acknowledgement stores the message twice.
PublishTwice(r) ==
    /\ req[r].pc = "publish"
    /\ Fault
    /\ log' = [log EXCEPT !["main"][req[r].voucher] =
                   Append(Append(@, MessageOf(r)), MessageOf(r))]
    /\ Goto(r, "ordered")
    /\ UNCHANGED <<sale, redis, committed, position, owner, cons, stopping, abandoned>>

\* WriteMessages returns an error, with or without effect.  Nothing undoes
\* the reservation.
PublishFails(r) ==
    /\ req[r].pc = "publish"
    /\ Fault
    /\ Goto(r, "failed")
    /\ UNCHANGED log \/ Send("main", MessageOf(r))
    /\ UNCHANGED <<sale, redis, committed, position, owner, cons, stopping, abandoned>>

\* The pod that serves the call dies.
RequestCut(r) ==
    /\ req[r].pc \in Running
    /\ Fault
    /\ Goto(r, "cut")
    /\ UNCHANGED <<sale, redis, broker, cons, stopping, abandoned>>

-----------------------------------------------------------------------------
(* Consumer.Run of pod p on topic t, with processWithRetry and             *)
(* CreateOrderIdempotent.  The two statements are separate autocommits.    *)

At(p, t, pc) == cons[p][t].pc = pc
Move(p, t, pc) == cons' = [cons EXCEPT ![p][t].pc = pc]
Current(p, t) == log[t][cons[p][t].voucher][cons[p][t].at]
OrderExists(m) == \E o \in orders : o.id = m.id

\* Mutant: the offset is committed when the message is fetched (auto-ack).
FetchAutoAck(p, t, v) ==
    /\ At(p, t, "idle")
    /\ p \notin stopping
    /\ owner[t][v] = p
    /\ position[t][v] < Len(log[t][v])
    /\ position' = [position EXCEPT ![t][v] = @ + 1]
    /\ committed' = [committed EXCEPT ![t][v] = position[t][v] + 1]
    /\ cons' = [cons EXCEPT ![p][t] =
           [pc |-> "insert", voucher |-> v, at |-> position[t][v] + 1, tries |-> 0]]
    /\ NoFault
    /\ UNCHANGED <<sale, redis, req, log, owner, stopping, abandoned>>

Fetch(p, t, v) ==
    /\ At(p, t, "idle")
    /\ p \notin stopping
    /\ owner[t][v] = p
    /\ position[t][v] < Len(log[t][v])
    /\ position' = [position EXCEPT ![t][v] = @ + 1]
    /\ cons' = [cons EXCEPT ![p][t] =
           [pc |-> "insert", voucher |-> v, at |-> position[t][v] + 1, tries |-> 0]]
    /\ NoFault
    /\ UNCHANGED <<sale, redis, req, log, committed, owner, stopping, abandoned>>

\* INSERT ... ON DUPLICATE KEY UPDATE id = id: RowsAffected is 1 only for a
\* row that was not there, and only then the stock is deducted.
InsertOrder(p, t) ==
    /\ At(p, t, "insert")
    /\ p \notin stopping
    /\ ~ OrderExists(Current(p, t))
    /\ orders' = orders \cup {Current(p, t)}
    /\ Move(p, t, "deduct")
    /\ NoFault
    /\ UNCHANGED <<published, dbStock, redis, req, broker, stopping, abandoned>>

\* Mutant: RowsAffected is not looked at.
DuplicateOrderDeducts(p, t) ==
    /\ At(p, t, "insert")
    /\ p \notin stopping
    /\ OrderExists(Current(p, t))
    /\ Move(p, t, "deduct")
    /\ NoFault
    /\ UNCHANGED <<sale, redis, req, broker, stopping, abandoned>>

DuplicateOrder(p, t) ==
    /\ At(p, t, "insert")
    /\ p \notin stopping
    /\ OrderExists(Current(p, t))
    /\ Move(p, t, "commit")
    /\ NoFault
    /\ UNCHANGED <<sale, redis, req, broker, stopping, abandoned>>

\* Mutants: one try too many; a message out of tries skips the dead letters.
RetryOnceMore(p, t) ==
    IF cons[p][t].tries <= MaxRetries
    THEN cons' = [cons EXCEPT ![p][t].pc = "insert", ![p][t].tries = @ + 1]
    ELSE Move(p, t, "dead")
RetryThenSkip(p, t) ==
    IF cons[p][t].tries < MaxRetries
    THEN cons' = [cons EXCEPT ![p][t].pc = "insert", ![p][t].tries = @ + 1]
    ELSE Move(p, t, "commit")

\* processWithRetry after an error: the next try starts over with the INSERT.
Retry(p, t) ==
    IF cons[p][t].tries < MaxRetries
    THEN cons' = [cons EXCEPT ![p][t].pc = "insert", ![p][t].tries = @ + 1]
    ELSE Move(p, t, "dead")

\* A call fails: for free and without effect once the root context is
\* cancelled, and as a fault that may have taken effect at any time.
Fails(p, unchanged, effect) ==
    \/ p \in stopping /\ NoFault /\ unchanged
    \/ Fault /\ (unchanged \/ effect)

InsertFails(p, t) ==
    /\ At(p, t, "insert")
    /\ Fails(p, UNCHANGED orders,
             ~ OrderExists(Current(p, t)) /\ orders' = orders \cup {Current(p, t)})
    /\ Retry(p, t)
    /\ UNCHANGED <<published, dbStock, redis, req, broker, stopping, abandoned>>

\* Mutant: the last unit is never taken.
DeductButLast(v) == dbStock' = [dbStock EXCEPT ![v] = IF @ > 1 THEN @ - 1 ELSE @]

\* UPDATE ... SET stock = stock - 1 WHERE voucher_id = ? AND stock > 0.
Deduct(v) == dbStock' = [dbStock EXCEPT ![v] = IF @ > 0 THEN @ - 1 ELSE @]

DeductStock(p, t) ==
    /\ At(p, t, "deduct")
    /\ p \notin stopping
    /\ Deduct(cons[p][t].voucher)
    /\ Move(p, t, "commit")
    /\ NoFault
    /\ UNCHANGED <<published, orders, redis, req, broker, stopping, abandoned>>

DeductFails(p, t) ==
    /\ At(p, t, "deduct")
    /\ Fails(p, UNCHANGED dbStock, Deduct(cons[p][t].voucher))
    /\ Retry(p, t)
    /\ UNCHANGED <<published, orders, redis, req, broker, stopping, abandoned>>

\* The DLT write uses context.Background(): it works while the pod stops.
DeadLetter(p) ==
    /\ At(p, "main", "dead")
    /\ Send("dlt", Current(p, "main"))
    /\ Move(p, "main", "commit")
    /\ NoFault
    /\ UNCHANGED <<sale, redis, req, committed, position, owner, stopping, abandoned>>

\* The failed write is only logged; the message is committed all the same.
DeadLetterFails(p) ==
    /\ At(p, "main", "dead")
    /\ Fault
    /\ \/ abandoned' = abandoned \cup {Current(p, "main")} /\ UNCHANGED log
       \/ Send("dlt", Current(p, "main")) /\ UNCHANGED abandoned
    /\ Move(p, "main", "commit")
    /\ UNCHANGED <<sale, redis, req, committed, position, owner, stopping>>

\* The DLT consumer has no writer: it logs the failure and commits.
GiveUp(p) ==
    /\ At(p, "dlt", "dead")
    /\ abandoned' = abandoned \cup {Current(p, "dlt")}
    /\ Move(p, "dlt", "commit")
    /\ NoFault
    /\ UNCHANGED <<sale, redis, req, broker, stopping>>

\* The coordinator stores the offset whichever pod owns the partition by now.
StoreOffset(p, t) ==
    committed' = [committed EXCEPT ![t][cons[p][t].voucher] = cons[p][t].at]

Commit(p, t) ==
    /\ At(p, t, "commit")
    /\ p \notin stopping
    /\ StoreOffset(p, t)
    /\ cons' = [cons EXCEPT ![p][t] = Idle]
    /\ NoFault
    /\ UNCHANGED <<sale, redis, req, log, position, owner, stopping, abandoned>>

CommitFails(p, t) ==
    /\ At(p, t, "commit")
    /\ Fails(p, UNCHANGED committed, StoreOffset(p, t))
    /\ cons' = [cons EXCEPT ![p][t] = Idle]
    /\ UNCHANGED <<sale, redis, req, log, position, owner, stopping, abandoned>>

-----------------------------------------------------------------------------
(* Pods and the consumer group.                                            *)

\* The group hands partitions of topic set ts out anew; each owner resumes
\* from the committed offset.  A loop that holds a message keeps working on it.
Reassign(ts) ==
    /\ owner' \in [Topics -> [Vouchers -> Pods]]
    /\ \A t \in Topics \ ts : owner'[t] = owner[t]
    /\ position' = [t \in Topics |-> IF t \in ts THEN committed[t] ELSE position[t]]
    /\ UNCHANGED <<log, committed>>

Rebalance(t) ==
    /\ Fault
    /\ Reassign({t})
    /\ UNCHANGED <<sale, redis, req, cons, stopping, abandoned>>

\* SIGTERM: the root context is cancelled, the loops are not waited for.
Stop(p) ==
    /\ p \notin stopping
    /\ Fault
    /\ stopping' = stopping \cup {p}
    /\ UNCHANGED <<sale, redis, req, broker, cons, abandoned>>

\* The process is gone and replaced; what its loops were doing is forgotten.
Replace(p) ==
    /\ cons' = [cons EXCEPT ![p] = [t \in Topics |-> Idle]]
    /\ stopping' = stopping \ {p}
    /\ Reassign(Topics)
    /\ UNCHANGED <<sale, redis, req, abandoned>>

Exit(p)  == p \in stopping /\ NoFault /\ Replace(p)
Crash(p) == p \notin stopping /\ Fault /\ Replace(p)

-----------------------------------------------------------------------------
PublishVoucher(v) == SaveVoucher(v) \/ PreloadStock(v) \/ PreloadFails(v)

SeckillVoucher(r) ==
    \/ TakeNumber(r) \/ TakeNumberFails(r)
    \/ RunScript(r) \/ ScriptFails(r)
    \/ Publish(r) \/ PublishTwice(r) \/ PublishFails(r)
    \/ RequestCut(r)

Run(p, t) ==
    \/ \E v \in Vouchers : Fetch(p, t, v)
    \/ InsertOrder(p, t) \/ DuplicateOrder(p, t) \/ InsertFails(p, t)
    \/ DeductStock(p, t) \/ DeductFails(p, t)
    \/ t = "main" /\ (DeadLetter(p) \/ DeadLetterFails(p))
    \/ t = "dlt" /\ GiveUp(p)
    \/ Commit(p, t) \/ CommitFails(p, t)

Next ==
    \/ \E v \in Vouchers : PublishVoucher(v)
    \/ \E r \in Requests : SeckillVoucher(r)
    \/ \E p \in Pods, t \in Topics : Run(p, t)
    \/ \E t \in Topics : Rebalance(t)
    \/ \E p \in Pods : Stop(p) \/ Exit(p) \/ Crash(p)

Spec == Init /\ [][Next]_vars

\* A consumer goroutine keeps running, and a pod told to stop goes away.
Fairness ==
    /\ \A p \in Pods, t \in Topics : WF_vars(Run(p, t))
    /\ \A p \in Pods : WF_vars(Exit(p))

FairSpec == Spec /\ Fairness

-----------------------------------------------------------------------------
(* What the sale promises.                                                 *)

Orders(v)    == {o \in orders : o.voucher = v}
Deducting(v) == {c \in Pods \X Topics :
                    /\ cons[c[1]][c[2]].pc = "deduct"
                    /\ cons[c[1]][c[2]].voucher = v}
Logged(t, m) == \E i \in DOMAIN log[t][m.voucher] : log[t][m.voucher][i] = m

\* A user owns at most one order row of a voucher.  The table has no unique
\* index on (user_id, voucher_id): the guarantee rests on the Redis set, for
\* every interleaving of calls, redelivered messages and the dead letters.
OneOrderPerUser ==
    \A o1, o2 \in orders : o1.user = o2.user /\ o1.voucher = o2.voucher => o1 = o2

\* There are never more order rows of a voucher than it had stock, although
\* the INSERT of CreateOrderIdempotent never looks at the stock column.
NoOversell ==
    \A v \in Vouchers : Cardinality(Orders(v)) <= Stock[v]

\* A redelivered or dead-lettered message, processed by two pods at once or
\* after a crash, never takes stock out of MySQL a second time.
StockNeverDeductedTwice ==
    \A v \in Vouchers : published[v] # "none" =>
        dbStock[v] + Cardinality(Orders(v)) >= Stock[v] + Cardinality(Deducting(v))

\* While nothing has failed, MySQL stock and order rows add up.
BooksBalanceWithoutFaults ==
    faults = 0 =>
        \A v \in Vouchers : published[v] # "none" =>
            dbStock[v] + Cardinality(Orders(v)) = Stock[v] + Cardinality(Deducting(v))

\* The order number a successful call returned is the number of the row that
\* the consumers write for that user and voucher.
OrderMatchesAnswer ==
    \A o \in orders, r \in Requests :
        /\ req[r].pc = "ordered"
        /\ req[r].user = o.user
        /\ req[r].voucher = o.voucher
        => o.id = req[r].id

\* No offset is committed past a message that is neither stored, nor handed
\* to the dead-letter topic, nor given up with a log line: crashes, moved
\* partitions and stale owners that commit late lose nothing silently.
CommittedIsSettled ==
    \A t \in Topics, v \in Vouchers : \A i \in 1..committed[t][v] :
        \/ log[t][v][i] \in orders \cup abandoned
        \/ t = "main" /\ Logged("dlt", log[t][v][i])

\* An order number a client was given becomes an order row, as long as the
\* faults do not suffice to exhaust the tries and lose the DLT write too.
AnsweredOrderIsStored ==
    \A r \in Requests : req[r].pc = "ordered" ~> MessageOf(r) \in orders

\* The sale as its customers see it.
Sale == INSTANCE FlashSale WITH
    open      <- {v \in Vouchers : redisStock[v] # NoKey},
    reserved  <- buyers,
    fulfilled <- [v \in Vouchers |-> {o.user : o \in Orders(v)}]

\* Requests, topics, retries, crashes and moved partitions only ever open a
\* sale, reserve for a user or fulfil a reservation.
ImplementsFlashSale == Sale!Spec

-----------------------------------------------------------------------------
(* What the documents say and the code does not keep.                      *)

\* Once every message of a voucher is committed and the loops rest, each of
\* its orders has taken one unit of MySQL stock.
BooksBalance ==
    \A v \in Vouchers :
        /\ published[v] # "none"
        /\ \A t \in Topics : committed[t][v] = Len(log[t][v])
        /\ \A p \in Pods, t \in Topics : cons[p][t] = Idle
        => dbStock[v] + Cardinality(Orders(v)) = Stock[v]

\* A message the main consumer is done with is stored or in the DLT.
FailedReachesDLT ==
    \A v \in Vouchers : \A i \in 1..committed["main"][v] :
        \/ log["main"][v][i] \in orders
        \/ Logged("dlt", log["main"][v][i])

=============================================================================
