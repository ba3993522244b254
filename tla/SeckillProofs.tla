---------------------------- MODULE SeckillProofs ----------------------------
(***************************************************************************)
(* Theorems about Seckill, for every set of users, vouchers, requests and  *)
(* pods, every stock and every bound on retries and faults.                *)
(***************************************************************************)
EXTENDS Seckill, FiniteSetTheorems, TLAPS

\* A loop that is not idle holds a message its partition contains.
InFlight ==
    \A p \in Pods, t \in Topics :
        cons[p][t] # Idle => cons[p][t].at <= Len(log[t][cons[p][t].voucher])

TypeInv == TypeOK /\ InFlight

\* A log that only grows keeps every earlier message in its place.
LogGrows ==
    /\ log' \in [Topics -> [Vouchers -> Seq(Message)]]
    /\ \A t \in Topics, v \in Vouchers :
          /\ Len(log[t][v]) <= Len(log'[t][v])
          /\ \A i \in 1..Len(log[t][v]) : log'[t][v][i] = log[t][v][i]

\* Whatever a step adds to a log is message m, in the partition of its voucher.
OnlyAdds(m) ==
    \A t \in Topics, v \in Vouchers : \A i \in 1..Len(log'[t][v]) :
        \/ i <= Len(log[t][v])
        \/ v = m.voucher /\ log'[t][v][i] = m

\* The message a loop works on is a message of the log it fetched it from.
LEMMA CurrentTyped ==
    ASSUME TypeInv, NEW p \in Pods, NEW t \in Topics, cons[p][t] # Idle
    PROVE  /\ cons[p][t] \in Working
           /\ cons[p][t].at \in 1..Len(log[t][cons[p][t].voucher])
           /\ Current(p, t) \in Message
BY DEF TypeInv, TypeOK, InFlight, Working, Current

\* Moving a busy loop to another label leaves it on its message.
LEMMA LoopMoves ==
    ASSUME TypeInv, NEW p \in Pods, NEW t \in Topics, cons[p][t] # Idle,
           NEW pc \in {"insert", "deduct", "dead", "commit"},
           Move(p, t, pc) \/ Retry(p, t)
    PROVE  \E c \in Working :
              /\ c.voucher = cons[p][t].voucher
              /\ c.at = cons[p][t].at
              /\ c.pc = pc \/ (Retry(p, t) /\ c.pc \in {"insert", "dead"})
              /\ cons' = [cons EXCEPT ![p][t] = c]
<1> DEFINE moved(l) == [cons[p][t] EXCEPT !.pc = l]
           again    == [cons[p][t] EXCEPT !.pc = "insert", !.tries = @ + 1]
<1>1. cons[p][t] \in Working
  BY CurrentTyped
<1>2. ASSUME NEW l \in {"insert", "deduct", "dead", "commit"}, Move(p, t, l)
      PROVE  /\ moved(l) \in Working
             /\ moved(l).voucher = cons[p][t].voucher
             /\ moved(l).at = cons[p][t].at
             /\ moved(l).pc = l
             /\ cons' = [cons EXCEPT ![p][t] = moved(l)]
  BY <1>1, <1>2 DEF Move, Working, TypeInv, TypeOK
<1>3. CASE Move(p, t, pc)
  BY <1>2, <1>3
<1>4. CASE Retry(p, t) /\ cons[p][t].tries < MaxRetries
  <2>1. again \in Working /\ again.voucher = cons[p][t].voucher
                          /\ again.at = cons[p][t].at /\ again.pc = "insert"
    <3>1. /\ cons[p][t].tries \in 0..MaxRetries
          /\ cons[p][t].tries + 1 \in 0..MaxRetries
      BY <1>1, <1>4, BoundsAssumption DEF Working
    <3> QED  BY <1>1, <3>1 DEF Working
  <2>2. cons' = [cons EXCEPT ![p][t] = again]
    <3>1. cons' = [cons EXCEPT ![p][t].pc = "insert", ![p][t].tries = @ + 1]
      BY <1>4 DEF Retry
    <3>2. cons \in [Pods -> [Topics -> {Idle} \cup Working]]
      BY DEF TypeInv, TypeOK
    <3> QED  BY <1>1, <3>1, <3>2 DEF Working
  <2> QED  BY <1>4, <2>1, <2>2
<1>5. CASE Retry(p, t) /\ ~ (cons[p][t].tries < MaxRetries)
  <2>1. Move(p, t, "dead")
    BY <1>5 DEF Retry
  <2> QED  BY <1>2, <1>5, <2>1
<1> QED  BY <1>3, <1>4, <1>5

LEMMA MoveTyped ==
    ASSUME TypeInv, NEW p \in Pods, NEW t \in Topics, cons[p][t] # Idle,
           NEW pc \in {"insert", "deduct", "dead", "commit"},
           Move(p, t, pc) \/ Retry(p, t), LogGrows
    PROVE  /\ cons' \in [Pods -> [Topics -> {Idle} \cup Working]]
           /\ InFlight'
<1>1. cons[p][t] \in Working
  BY CurrentTyped
<1>2. PICK c \in Working : 
         /\ c.voucher = cons[p][t].voucher
         /\ c.at = cons[p][t].at
         /\ cons' = [cons EXCEPT ![p][t] = c]
  BY LoopMoves
<1>3. cons' \in [Pods -> [Topics -> {Idle} \cup Working]]
  BY <1>2 DEF TypeInv, TypeOK
<1>4. InFlight'
  <2> SUFFICES ASSUME NEW q \in Pods, NEW s \in Topics, cons'[q][s] # Idle
               PROVE  cons'[q][s].at <= Len(log'[s][cons'[q][s].voucher])
    BY DEF InFlight
  <2>1. PICK d \in Working : d = cons[q][s] /\ cons'[q][s].at = d.at
                                           /\ cons'[q][s].voucher = d.voucher
    BY <1>1, <1>2 DEF TypeInv, TypeOK
  <2>2. d.voucher \in Vouchers /\ d.at \in Nat /\ d # Idle
    BY DEF Working, Idle
  <2>3. d.at <= Len(log[s][d.voucher])
    BY <2>1, <2>2 DEF InFlight, TypeInv
  <2>4. /\ Len(log[s][d.voucher]) \in Nat
        /\ Len(log[s][d.voucher]) <= Len(log'[s][d.voucher])
    BY <2>2 DEF LogGrows, TypeInv, TypeOK
  <2>5. Len(log'[s][d.voucher]) \in Nat
    BY <2>2 DEF LogGrows
  <2>6. d.at <= Len(log'[s][d.voucher])
    BY <2>2, <2>3, <2>4, <2>5
  <2> QED  BY <2>1, <2>6
<1> QED  BY <1>3, <1>4

\* What a sequence is after one Append.
LEMMA Appended ==
    ASSUME NEW S, NEW q \in Seq(S), NEW m \in S
    PROVE  /\ Append(q, m) \in Seq(S)
           /\ Len(Append(q, m)) = Len(q) + 1
           /\ Len(q) \in Nat
           /\ \A i \in 1..Len(q) : Append(q, m)[i] = q[i]
           /\ Append(q, m)[Len(q) + 1] = m
OBVIOUS

\* Appending a message once or twice to its partition.
LEMMA SendGrows ==
    ASSUME TypeInv, NEW t \in Topics, NEW m \in Message,
           \/ Send(t, m)
           \/ log' = [log EXCEPT ![t][m.voucher] = Append(Append(@, m), m)]
    PROVE  LogGrows /\ OnlyAdds(m)
<1> DEFINE v == m.voucher
           q == log[t][v]
<1>0. v \in Vouchers
  BY DEF Message
<1>1. v \in Vouchers /\ q \in Seq(Message)
  BY <1>0 DEF TypeInv, TypeOK
<1>2. PICK n \in Seq(Message) :
         /\ log' = [log EXCEPT ![t][v] = n]
         /\ Len(q) <= Len(n)
         /\ \A i \in 1..Len(q) : n[i] = q[i]
         /\ \A i \in 1..Len(n) : i <= Len(q) \/ n[i] = m
  <2> DEFINE once  == Append(q, m)
             twice == Append(once, m)
  <2>1. /\ once \in Seq(Message) /\ Len(once) = Len(q) + 1 /\ Len(q) \in Nat
        /\ \A i \in 1..Len(q) : once[i] = q[i]
        /\ once[Len(q) + 1] = m
    BY <1>1, Appended
  <2>2. /\ twice \in Seq(Message) /\ Len(twice) = Len(once) + 1
        /\ \A i \in 1..Len(once) : twice[i] = once[i]
        /\ twice[Len(once) + 1] = m
    BY <2>1, Appended
  <2>3. log' = [log EXCEPT ![t][v] = once] \/ log' = [log EXCEPT ![t][v] = twice]
    BY DEF Send
  <2> HIDE DEF once, twice, q
  <2>4. CASE log' = [log EXCEPT ![t][v] = once]
    <3>1. /\ Len(q) <= Len(once)
          /\ \A i \in 1..Len(once) : i <= Len(q) \/ once[i] = m
      BY <2>1
    <3> once \in Seq(Message)
      BY <2>1
    <3> WITNESS once \in Seq(Message)
    <3> QED  BY <3>1, <2>1, <2>4
  <2>5. CASE log' = [log EXCEPT ![t][v] = twice]
    <3>1. \A i \in 1..Len(q) : twice[i] = q[i]
      BY <2>1, <2>2
    <3>2. \A i \in 1..Len(twice) : i <= Len(q) \/ twice[i] = m
      <4> SUFFICES ASSUME NEW i \in 1..Len(twice), ~ (i <= Len(q))
                   PROVE  twice[i] = m
        OBVIOUS
      <4>1. i = Len(q) + 1 \/ i = Len(once) + 1
        BY <2>1, <2>2
      <4> QED  BY <4>1, <2>1, <2>2
    <3>3. Len(q) <= Len(twice)
      BY <2>1, <2>2
    <3> twice \in Seq(Message)
      BY <2>2
    <3> WITNESS twice \in Seq(Message)
    <3> QED  BY <3>1, <3>2, <3>3, <2>5
  <2> QED  BY <2>3, <2>4, <2>5
<1>3. \A s \in Topics, w \in Vouchers :
         log'[s][w] = IF s = t /\ w = v THEN n ELSE log[s][w]
  BY <1>1, <1>2 DEF TypeInv, TypeOK
<1>4. log' \in [Topics -> [Vouchers -> Seq(Message)]]
  BY <1>1, <1>2 DEF TypeInv, TypeOK
<1>5. \A s \in Topics, w \in Vouchers : Len(log[s][w]) \in Nat
  BY DEF TypeInv, TypeOK
<1> HIDE DEF v
<1> QED  BY <1>2, <1>3, <1>4, <1>5 DEF LogGrows, OnlyAdds, v

LEMMA SameLogGrows ==
    ASSUME TypeInv, UNCHANGED log
    PROVE  LogGrows
BY DEF LogGrows, TypeInv, TypeOK

\* While no loop moves, growing logs keep the loops' messages.
LEMMA LoopsRest ==
    ASSUME TypeInv, LogGrows, UNCHANGED cons
    PROVE  InFlight'
<1> SUFFICES ASSUME NEW p \in Pods, NEW t \in Topics, cons[p][t] # Idle
             PROVE  cons[p][t].at <= Len(log'[t][cons[p][t].voucher])
  BY DEF InFlight
<1> DEFINE c == cons[p][t]
<1>1. c.voucher \in Vouchers /\ c.at \in Nat /\ c.at <= Len(log[t][c.voucher])
  BY CurrentTyped DEF Working, InFlight, TypeInv
<1> HIDE DEF c
<1>2. /\ Len(log[t][c.voucher]) \in Nat
      /\ Len(log'[t][c.voucher]) \in Nat
      /\ Len(log[t][c.voucher]) <= Len(log'[t][c.voucher])
  BY <1>1 DEF LogGrows, TypeInv, TypeOK
<1>3. c.at <= Len(log'[t][c.voucher])
  BY <1>1, <1>2
<1> QED  BY <1>3 DEF c

-----------------------------------------------------------------------------
(* Type correctness.                                                       *)

LEMMA TypeInit == Init => TypeInv
<1> SUFFICES ASSUME Init PROVE TypeInv
  OBVIOUS
<1>1. TypeOK
  BY StockAssumption, BoundsAssumption
  DEF Init, TypeOK, Message, NoKey, Request, Running, Answered
<1>2. InFlight
  BY DEF Init, InFlight
<1> QED  BY <1>1, <1>2 DEF TypeInv

LEMMA TypePublishVoucher ==
    ASSUME TypeInv, NEW v \in Vouchers, PublishVoucher(v)
    PROVE  TypeInv'
<1>1. LogGrows /\ UNCHANGED cons
  BY SameLogGrows DEF PublishVoucher, SaveVoucher, PreloadStock, PreloadFails, broker
<1>2. InFlight'
  BY <1>1, LoopsRest
<1>3. faults' \in 0..MaxFaults
  BY BoundsAssumption
  DEF TypeInv, TypeOK, PublishVoucher, SaveVoucher, PreloadStock, PreloadFails,
      Fault, NoFault
<1>4. published' \in [Vouchers -> {"none", "saved", "done", "failed"}]
  BY DEF TypeInv, TypeOK, PublishVoucher, SaveVoucher, PreloadStock, PreloadFails
<1>5. /\ dbStock' \in [Vouchers -> Nat]
      /\ redisStock' \in [Vouchers -> Nat \cup {NoKey}]
  BY StockAssumption
  DEF TypeInv, TypeOK, PublishVoucher, SaveVoucher, PreloadStock, PreloadFails, redis
<1>6. UNCHANGED <<orders, buyers, counter, req, broker, cons, stopping, abandoned>>
  BY DEF PublishVoucher, SaveVoucher, PreloadStock, PreloadFails, redis, broker
<1>7. TypeOK'
  BY <1>3, <1>4, <1>5, <1>6 DEF TypeInv, TypeOK, broker
<1> QED  BY <1>2, <1>7 DEF TypeInv

LEMMA TypeSeckillVoucher ==
    ASSUME TypeInv, NEW r \in Requests, SeckillVoucher(r)
    PROVE  TypeInv'
<1> DEFINE m == MessageOf(r)
<1>1. /\ req[r] \in Request
      /\ m \in Message
      /\ m.voucher = req[r].voucher
  BY DEF TypeInv, TypeOK, Request, Message, MessageOf
<1>2. /\ LogGrows
      /\ UNCHANGED <<cons, published, dbStock, orders, committed, position, owner,
                     stopping, abandoned>>
  <2>1. CASE UNCHANGED log
    BY <2>1, SameLogGrows
    DEF SeckillVoucher, TakeNumber, TakeNumberFails, RunScript, ScriptFails, Publish,
        PublishTwice, PublishFails, RequestCut, broker, sale
  <2>2. CASE ~ UNCHANGED log
    BY <1>1, <2>2, SendGrows
    DEF SeckillVoucher, TakeNumber, TakeNumberFails, RunScript, ScriptFails, Publish,
        PublishTwice, PublishFails, RequestCut, broker, sale, Topics
  <2> QED  BY <2>1, <2>2
<1>3. InFlight'
  BY <1>2, LoopsRest
<1>4. faults' \in 0..MaxFaults
  <2>1. NoFault \/ Fault
    BY DEF SeckillVoucher, TakeNumber, TakeNumberFails, RunScript, ScriptFails, Publish,
           PublishTwice, PublishFails, RequestCut
  <2>2. faults \in 0..MaxFaults
    BY DEF TypeInv, TypeOK
  <2> QED  BY <2>1, <2>2, BoundsAssumption DEF Fault, NoFault
<1>5. req' \in [Requests -> Request]
  <2>1. ASSUME NEW pc \in Running \cup Answered, Goto(r, pc)
        PROVE  req' \in [Requests -> Request]
    BY <1>1, <2>1 DEF Goto, Request, TypeInv, TypeOK
  <2>2. CASE TakeNumber(r)
    <3> DEFINE taken == [req[r] EXCEPT !.pc = "script", !.id = counter + 1]
    <3>1. taken \in Request
      <4>1. counter + 1 \in Nat /\ "script" \in Running \cup Answered
        BY DEF Running, TypeInv, TypeOK
      <4> QED  BY <1>1, <4>1 DEF Request
    <3>2. req' = [req EXCEPT ![r] = taken]
      BY <1>1, <2>2 DEF TakeNumber, Request, TypeInv, TypeOK
    <3> QED  BY <3>1, <3>2 DEF TypeInv, TypeOK
  <2>3. ScriptAnswer(req[r].user, req[r].voucher) \in Running \cup Answered
    BY DEF ScriptAnswer, Running, Answered
  <2>4. /\ "failed" \in Running \cup Answered
        /\ "ordered" \in Running \cup Answered
        /\ "cut" \in Running \cup Answered
    BY DEF Running, Answered
  <2> QED  BY <2>1, <2>2, <2>3, <2>4
    DEF SeckillVoucher, TakeNumberFails, RunScript, ScriptFails, Publish,
        PublishTwice, PublishFails, RequestCut
<1>6. /\ redisStock' \in [Vouchers -> Nat \cup {NoKey}]
      /\ buyers' \in [Vouchers -> SUBSET Users]
  <2>1. CASE UNCHANGED <<redisStock, buyers>>
    BY <2>1 DEF TypeInv, TypeOK
  <2>2. CASE ScriptEffect(req[r].user, req[r].voucher)
    <3> DEFINE v == req[r].voucher
               u == req[r].user
    <3>1. v \in Vouchers /\ u \in Users /\ buyers[v] \subseteq Users
      BY <1>1 DEF Request, TypeInv, TypeOK
    <3>2. CASE ScriptAnswer(u, v) = "publish"
      <4>1. redisStock[v] \in Nat /\ redisStock[v] - 1 \in Nat
        BY <3>1, <3>2 DEF ScriptAnswer, NoKey, TypeInv, TypeOK
      <4>2. /\ redisStock' = [redisStock EXCEPT ![v] = redisStock[v] - 1]
            /\ buyers' = [buyers EXCEPT ![v] = buyers[v] \cup {u}]
        BY <2>2, <3>2 DEF ScriptEffect, Reserve
      <4>3. /\ redisStock \in [Vouchers -> Nat \cup {NoKey}]
            /\ buyers \in [Vouchers -> SUBSET Users]
        BY DEF TypeInv, TypeOK
      <4> HIDE DEF v, u
      <4>4. redisStock' \in [Vouchers -> Nat \cup {NoKey}]
        BY <3>1, <4>1, <4>2, <4>3
      <4> QED  BY <3>1, <4>2, <4>3, <4>4
    <3> QED  BY <2>1, <2>2, <3>2 DEF ScriptEffect
  <2> QED  BY <2>1, <2>2
    DEF SeckillVoucher, TakeNumber, TakeNumberFails, RunScript, ScriptFails, Publish,
        PublishTwice, PublishFails, RequestCut, redis
<1>7. counter' \in Nat
  BY DEF SeckillVoucher, TakeNumber, TakeNumberFails, RunScript, ScriptFails, Publish,
         PublishTwice, PublishFails, RequestCut, redis, TypeInv, TypeOK
<1>8. TypeOK'
  BY <1>2, <1>4, <1>5, <1>6, <1>7 DEF TypeInv, TypeOK, LogGrows
<1> QED  BY <1>3, <1>8 DEF TypeInv

\* A try that fails or succeeds moves the loop it belongs to, or lets it go.
LEMMA TypeRun ==
    ASSUME TypeInv, NEW p \in Pods, NEW t \in Topics, Run(p, t)
    PROVE  TypeInv'
<1> DEFINE m == Current(p, t)
           Busy == cons[p][t] # Idle
<1>1. CASE \E v \in Vouchers : Fetch(p, t, v)
  <2>1. PICK v \in Vouchers : Fetch(p, t, v)
    BY <1>1
  <2> DEFINE c == [pc |-> "insert", voucher |-> v, at |-> position[t][v] + 1, tries |-> 0]
  <2>2. /\ position[t][v] \in Nat
        /\ Len(log[t][v]) \in Nat
    BY DEF TypeInv, TypeOK
  <2>3. c \in Working /\ c.at <= Len(log[t][v])
    BY <2>1, <2>2, BoundsAssumption DEF Working, Fetch
  <2>4. cons' = [cons EXCEPT ![p][t] = c] /\ UNCHANGED log
    BY <2>1 DEF Fetch
  <2>5. cons' \in [Pods -> [Topics -> {Idle} \cup Working]]
    BY <2>3, <2>4 DEF TypeInv, TypeOK
  <2>6. InFlight'
    BY <2>3, <2>4 DEF InFlight, TypeInv, TypeOK
  <2>7. position' \in [Topics -> [Vouchers -> Nat]]
    BY <2>1, <2>2 DEF Fetch, TypeInv, TypeOK
  <2>8. TypeOK'
    BY <2>1, <2>5, <2>7 DEF Fetch, NoFault, sale, redis, TypeInv, TypeOK
  <2> QED  BY <2>6, <2>8 DEF TypeInv
<1>2. CASE Busy /\ cons' = [cons EXCEPT ![p][t] = Idle] /\ (Commit(p, t) \/ CommitFails(p, t))
  <2>1. InFlight'
    BY <1>2 DEF Commit, CommitFails, InFlight, TypeInv, TypeOK
  <2>2. cons' \in [Pods -> [Topics -> {Idle} \cup Working]]
    BY <1>2 DEF TypeInv, TypeOK
  <2>3. cons[p][t].voucher \in Vouchers /\ cons[p][t].at \in Nat
    BY <1>2, CurrentTyped DEF Working
  <2>4. committed' \in [Topics -> [Vouchers -> Nat]]
    <3>1. UNCHANGED committed \/ StoreOffset(p, t)
      BY <1>2 DEF Commit, CommitFails, Fails
    <3>2. ASSUME NEW v \in Vouchers, NEW n \in Nat,
                 committed' = [committed EXCEPT ![t][v] = n]
          PROVE  committed' \in [Topics -> [Vouchers -> Nat]]
      BY <3>2 DEF TypeInv, TypeOK
    <3>3. CASE UNCHANGED committed
      BY <3>3 DEF TypeInv, TypeOK
    <3> QED  BY <2>3, <3>1, <3>2, <3>3 DEF StoreOffset
  <2>5. faults' \in 0..MaxFaults
    BY <1>2, BoundsAssumption
    DEF Commit, CommitFails, Fails, Fault, NoFault, TypeInv, TypeOK
  <2>6. TypeOK'
    BY <1>2, <2>2, <2>4, <2>5 DEF Commit, CommitFails, sale, redis, TypeInv, TypeOK
  <2> QED  BY <2>1, <2>6 DEF TypeInv
<1>3. CASE /\ Busy
           /\ \/ InsertOrder(p, t) \/ DuplicateOrder(p, t) \/ InsertFails(p, t)
              \/ DeductStock(p, t) \/ DeductFails(p, t)
              \/ t = "main" /\ (DeadLetter(p) \/ DeadLetterFails(p))
              \/ t = "dlt" /\ GiveUp(p)
  <2>1. m \in Message /\ cons[p][t].voucher \in Vouchers
    BY <1>3, CurrentTyped DEF Working
  <2>2. LogGrows
    <3>1. UNCHANGED log \/ (t = "main" /\ Send("dlt", m))
      BY <1>3
      DEF InsertOrder, DuplicateOrder, InsertFails, DeductStock, DeductFails, DeadLetter,
          DeadLetterFails, GiveUp, broker
    <3> QED  BY <2>1, <3>1, SameLogGrows, SendGrows DEF Topics
  <2>3. \/ \E pc \in {"insert", "deduct", "dead", "commit"} : Move(p, t, pc)
        \/ Retry(p, t)
    BY <1>3
    DEF InsertOrder, DuplicateOrder, InsertFails, DeductStock, DeductFails, DeadLetter,
        DeadLetterFails, GiveUp
  <2>4. InFlight' /\ cons' \in [Pods -> [Topics -> {Idle} \cup Working]]
    BY <1>3, <2>2, <2>3, MoveTyped
  <2>5. /\ orders' \subseteq Message
        /\ abandoned' \subseteq Message
    BY <1>3, <2>1
    DEF InsertOrder, DuplicateOrder, InsertFails, DeductStock, DeductFails, DeadLetter,
        DeadLetterFails, GiveUp, Fails, sale, TypeInv, TypeOK
  <2>6. dbStock' \in [Vouchers -> Nat]
    <3>1. CASE Deduct(cons[p][t].voucher)
      BY <2>1, <3>1 DEF Deduct, TypeInv, TypeOK
    <3>2. CASE UNCHANGED dbStock
      BY <3>2 DEF TypeInv, TypeOK
    <3> QED  BY <1>3, <3>1, <3>2
      DEF InsertOrder, DuplicateOrder, InsertFails, DeductStock, DeductFails, DeadLetter,
          DeadLetterFails, GiveUp, Fails, sale
  <2>7. faults' \in 0..MaxFaults
    BY <1>3, BoundsAssumption
    DEF InsertOrder, DuplicateOrder, InsertFails, DeductStock, DeductFails, DeadLetter,
        DeadLetterFails, GiveUp, Fails, Fault, NoFault, TypeInv, TypeOK
  <2>8. UNCHANGED <<published, redis, req, committed, position, owner, stopping>>
    BY <1>3
    DEF InsertOrder, DuplicateOrder, InsertFails, DeductStock, DeductFails, DeadLetter,
        DeadLetterFails, GiveUp, sale, broker
  <2>9. TypeOK'
    BY <2>2, <2>4, <2>5, <2>6, <2>7, <2>8 DEF LogGrows, redis, TypeInv, TypeOK
  <2> QED  BY <2>4, <2>9 DEF TypeInv
<1>4. (\E pc \in {"insert", "deduct", "dead", "commit"} : At(p, t, pc)) => Busy
  BY DEF At, Idle
<1> QED  BY <1>1, <1>2, <1>3, <1>4
  DEF Run, InsertOrder, DuplicateOrder, InsertFails, DeductStock, DeductFails, DeadLetter,
      DeadLetterFails, GiveUp, Commit, CommitFails

LEMMA TypeGroup ==
    ASSUME TypeInv,
           \/ \E t \in Topics : Rebalance(t)
           \/ \E p \in Pods : Stop(p) \/ Exit(p) \/ Crash(p)
    PROVE  TypeInv'
<1>1. UNCHANGED <<sale, redis, req, log, committed, abandoned>>
  BY DEF Rebalance, Stop, Exit, Crash, Replace, Reassign, broker
<1>2. stopping' \subseteq Pods /\ faults' \in 0..MaxFaults
  <2>1. stopping' \subseteq Pods
    BY DEF Rebalance, Stop, Exit, Crash, Replace, TypeInv, TypeOK
  <2>2. NoFault \/ Fault
    BY DEF Rebalance, Stop, Exit, Crash
  <2> QED  BY <2>1, <2>2, BoundsAssumption DEF Fault, NoFault, TypeInv, TypeOK
<1>3. /\ owner' \in [Topics -> [Vouchers -> Pods]]
      /\ position' \in [Topics -> [Vouchers -> Nat]]
  BY DEF Rebalance, Stop, Exit, Crash, Replace, Reassign, broker, TypeInv, TypeOK
<1>4. /\ cons' \in [Pods -> [Topics -> {Idle} \cup Working]]
      /\ InFlight'
  <2>1. CASE UNCHANGED cons
    BY <1>1, <2>1, SameLogGrows, LoopsRest DEF TypeInv, TypeOK
  <2>2. CASE \E p \in Pods : cons' = [cons EXCEPT ![p] = [t \in Topics |-> Idle]]
    BY <1>1, <2>2 DEF InFlight, TypeInv, TypeOK
  <2> QED  BY <2>1, <2>2 DEF Rebalance, Stop, Exit, Crash, Replace
<1>5. TypeOK'
  BY <1>1, <1>2, <1>3, <1>4 DEF sale, redis, TypeInv, TypeOK
<1> QED  BY <1>4, <1>5 DEF TypeInv

LEMMA TypeStep == TypeInv /\ [Next]_vars => TypeInv'
<1> SUFFICES ASSUME TypeInv, [Next]_vars PROVE TypeInv'
  OBVIOUS
<1>1. CASE Next
  BY <1>1, TypePublishVoucher, TypeSeckillVoucher, TypeRun, TypeGroup DEF Next
<1>2. CASE UNCHANGED vars
  <2>1. UNCHANGED <<published, dbStock, orders, redisStock, buyers, counter, req, log,
                    committed, position, owner, cons, stopping, abandoned, faults>>
    BY <1>2 DEF vars, sale, redis, broker
  <2> QED  BY <2>1 DEF TypeInv, TypeOK, InFlight
<1> QED  BY <1>1, <1>2

\* Every variable keeps its type, and every busy consumer loop works on a
\* message that its partition really holds.
THEOREM TypeCorrect == Spec => []TypeOK
<1>1. TypeInv => TypeOK
  BY DEF TypeInv
<1> QED  BY <1>1, TypeInit, TypeStep, PTL DEF Spec

-----------------------------------------------------------------------------
(* One order per user, and never more orders than stock.                   *)
(*                                                                         *)
(* The rows alone are not inductive: what matters is every message that is *)
(* or may still become a row.                                              *)

InLog(m) ==
    \E t \in Topics, v \in Vouchers : \E i \in 1..Len(log[t][v]) : log[t][v][i] = m

Promised(m) ==
    \E r \in Requests : req[r].pc \in {"publish", "ordered"} /\ MessageOf(r) = m

Claim(m) == m \in orders \/ InLog(m) \/ Promised(m)

\* Who has a claim is in the Redis set, and has one claim only.
ClaimInv ==
    \A m \in Message : Claim(m) =>
        /\ m.user \in buyers[m.voucher]
        /\ \A n \in Message :
              Claim(n) /\ n.user = m.user /\ n.voucher = m.voucher => n = m

\* The units Redis no longer has are the users in its set.
StockInv ==
    \A v \in Vouchers :
        /\ published[v] \in {"none", "saved"} => redisStock[v] = NoKey
        /\ IsFiniteSet(buyers[v])
        /\ redisStock[v] = NoKey => buyers[v] = {}
        /\ redisStock[v] # NoKey => redisStock[v] + Cardinality(buyers[v]) = Stock[v]

SaleInv == TypeInv /\ ClaimInv /\ StockInv

\* The steps of a call are told apart by what they do to the Redis set: only
\* a script that answers 0 touches it, for a user it did not hold.
Reserves(r) ==
    /\ req[r].pc = "script"
    /\ req[r].user \notin buyers[req[r].voucher]
    /\ redisStock[req[r].voucher] \in Nat \ {0}
    /\ Reserve(req[r].user, req[r].voucher)
    /\ UNCHANGED <<published, log, orders>>

LEMMA ReserveOrNot ==
    ASSUME TypeInv, NEW r \in Requests, SeckillVoucher(r)
    PROVE  Reserves(r) \/ UNCHANGED <<redisStock, buyers>>
<1>1. req[r].user \in Users /\ req[r].voucher \in Vouchers
  BY DEF TypeInv, TypeOK, Request
<1>2. CASE RunScript(r) \/ ScriptFails(r)
  <2>1. CASE ScriptAnswer(req[r].user, req[r].voucher) = "publish"
    BY <1>1, <1>2, <2>1
    DEF RunScript, ScriptFails, ScriptEffect, ScriptAnswer, Reserves, TypeInv, TypeOK,
        NoKey, sale, broker
  <2> QED  BY <1>2, <2>1 DEF RunScript, ScriptFails, ScriptEffect
<1>3. CASE ~ (RunScript(r) \/ ScriptFails(r))
  BY <1>3 DEF SeckillVoucher, TakeNumber, TakeNumberFails, Publish, PublishTwice,
              PublishFails, RequestCut, redis
<1> QED  BY <1>2, <1>3

LEMMA GotoKeeps ==
    ASSUME TypeInv, NEW r \in Requests, NEW pc, Goto(r, pc)
    PROVE  /\ req'[r].pc = pc
           /\ MessageOf(r)' = MessageOf(r)
<1>1. req[r] \in Request /\ req'[r] = [req[r] EXCEPT !.pc = pc]
  BY DEF TypeInv, TypeOK, Goto
<1> QED  BY <1>1 DEF Request, MessageOf

\* A call makes no claim but the one its reservation backs.
LEMMA ClaimsOfCall ==
    ASSUME TypeInv, NEW r \in Requests, SeckillVoucher(r),
           NEW m \in Message, Claim(m)'
    PROVE  Claim(m) \/ (Reserves(r) /\ m = MessageOf(r))
<1>1. /\ req[r] \in Request
      /\ MessageOf(r) \in Message
  BY DEF TypeInv, TypeOK, Request, Message, MessageOf
<1>2. UNCHANGED orders
  BY DEF SeckillVoucher, TakeNumber, TakeNumberFails, RunScript, ScriptFails, Publish,
         PublishTwice, PublishFails, RequestCut, sale
<1>3. InLog(m)' => Claim(m)
  <2>1. CASE UNCHANGED log
    BY <2>1 DEF InLog, Claim
  <2>2. CASE ~ UNCHANGED log
    <3>1. OnlyAdds(MessageOf(r)) /\ LogGrows /\ req[r].pc = "publish"
      BY <1>1, <2>2, SendGrows
      DEF SeckillVoucher, TakeNumber, TakeNumberFails, RunScript, ScriptFails, Publish,
          PublishTwice, PublishFails, RequestCut, broker, Topics, MessageOf
    <3>2. Promised(MessageOf(r))
      BY <3>1 DEF Promised
    <3> SUFFICES ASSUME NEW t \in Topics, NEW v \in Vouchers,
                        NEW i \in 1..Len(log'[t][v]), log'[t][v][i] = m
                 PROVE  Claim(m)
      BY DEF InLog
    <3>3. CASE i <= Len(log[t][v])
      <4>1. i \in 1..Len(log[t][v])
        BY <3>3 DEF TypeInv, TypeOK
      <4> QED  BY <4>1, <3>1 DEF InLog, LogGrows, Claim
    <3> QED  BY <3>1, <3>2, <3>3 DEF OnlyAdds, Claim
  <2> QED  BY <2>1, <2>2
<1>4. Promised(m)' => Claim(m) \/ (Reserves(r) /\ m = MessageOf(r))
  <2> SUFFICES ASSUME NEW q \in Requests, req'[q].pc \in {"publish", "ordered"},
                      MessageOf(q)' = m
               PROVE  Claim(m) \/ (Reserves(r) /\ m = MessageOf(r))
    BY DEF Promised
  <2>1. CASE q # r
    <3>1. req'[q] = req[q]
      BY <2>1
      DEF SeckillVoucher, TakeNumber, TakeNumberFails, RunScript, ScriptFails, Publish,
          PublishTwice, PublishFails, RequestCut, Goto, TypeInv, TypeOK
    <3> QED  BY <3>1 DEF Promised, Claim, MessageOf
  <2>2. CASE q = r
    <3>1. /\ req'[r].pc # "script"
          /\ \/ RunScript(r)
             \/ req[r].pc = "publish" /\ (Publish(r) \/ PublishTwice(r))
      <4>1. CASE TakeNumber(r)
        <5>1. req'[r].pc = "script"
          BY <1>1, <4>1 DEF TakeNumber, TypeInv, TypeOK, Request
        <5> QED  BY <2>2, <5>1
      <4>2. CASE \E pc \in {"failed", "cut"} : Goto(r, pc)
        BY <2>2, <4>2, GotoKeeps
      <4>3. CASE RunScript(r)
        BY <4>3, GotoKeeps DEF RunScript, ScriptAnswer
      <4>4. CASE Publish(r) \/ PublishTwice(r)
        BY <4>4, GotoKeeps DEF Publish, PublishTwice
      <4> QED  BY <4>1, <4>2, <4>3, <4>4
        DEF SeckillVoucher, TakeNumberFails, ScriptFails, PublishFails, RequestCut
    <3>2. MessageOf(r)' = MessageOf(r)
      BY <3>1, GotoKeeps DEF RunScript, Publish, PublishTwice
    <3>3. CASE RunScript(r)
      <4>1. ScriptAnswer(req[r].user, req[r].voucher) = "publish"
        BY <1>1, <2>2, <3>3 DEF RunScript, Goto, ScriptAnswer, TypeInv, TypeOK, Request
      <4>2. Reserves(r)
        BY <1>1, <3>3, <4>1
        DEF RunScript, ScriptEffect, ScriptAnswer, Reserves, TypeInv, TypeOK, Request,
            NoKey, sale, broker
      <4> QED  BY <2>2, <3>2, <4>2
    <3>4. CASE req[r].pc = "publish"
      BY <2>2, <3>2, <3>4 DEF Promised, Claim
    <3> QED  BY <3>1, <3>3, <3>4
  <2> QED  BY <2>1, <2>2
<1> QED  BY <1>2, <1>3, <1>4 DEF Claim

\* A consumer turns claims into rows and dead letters and makes none.
LEMMA ClaimsOfRun ==
    ASSUME TypeInv, NEW p \in Pods, NEW t \in Topics, Run(p, t),
           NEW m \in Message, Claim(m)'
    PROVE  Claim(m)
<1> DEFINE c == Current(p, t)
<1>1. UNCHANGED req
  BY DEF Run, Fetch, InsertOrder, DuplicateOrder, InsertFails, DeductStock, DeductFails,
         DeadLetter, DeadLetterFails, GiveUp, Commit, CommitFails
<1>2. Promised(m)' => Claim(m)
  BY <1>1 DEF Promised, MessageOf, Claim
<1>3. UNCHANGED <<orders, log>> \/ (cons[p][t] # Idle /\ UNCHANGED <<req>>
          /\ (UNCHANGED orders \/ orders' = orders \cup {c})
          /\ (UNCHANGED log \/ (t = "main" /\ Send("dlt", c))))
  BY DEF Run, Fetch, InsertOrder, DuplicateOrder, InsertFails, DeductStock, DeductFails,
         DeadLetter, DeadLetterFails, GiveUp, Commit, CommitFails, Fails, At, Idle,
         sale, broker
<1>4. CASE UNCHANGED <<orders, log>>
  BY <1>2, <1>4 DEF Claim, InLog
<1>5. CASE /\ cons[p][t] # Idle
           /\ UNCHANGED orders \/ orders' = orders \cup {c}
           /\ UNCHANGED log \/ (t = "main" /\ Send("dlt", c))
  <2>1. c \in Message /\ InLog(c)
    BY <1>5, CurrentTyped DEF InLog, Current, Working
  <2>2. InLog(m)' => Claim(m)
    <3>1. CASE UNCHANGED log
      BY <3>1 DEF InLog, Claim
    <3>2. CASE t = "main" /\ Send("dlt", c)
      <4>1. LogGrows /\ OnlyAdds(c)
        BY <2>1, <3>2, SendGrows DEF Topics
      <4> SUFFICES ASSUME NEW s \in Topics, NEW v \in Vouchers,
                          NEW i \in 1..Len(log'[s][v]), log'[s][v][i] = m
                   PROVE  Claim(m)
        BY DEF InLog
      <4>2. CASE i <= Len(log[s][v])
        <5>1. i \in 1..Len(log[s][v])
          BY <4>2 DEF TypeInv, TypeOK
        <5> QED  BY <4>1, <5>1 DEF InLog, LogGrows, Claim
      <4> QED  BY <2>1, <4>1, <4>2 DEF OnlyAdds, Claim
    <3> QED  BY <1>5, <3>1, <3>2
  <2> QED  BY <1>2, <1>5, <2>1, <2>2 DEF Claim
<1> QED  BY <1>3, <1>4, <1>5

LEMMA ClaimsUnmoved ==
    ASSUME UNCHANGED <<orders, log, req>>, NEW m, Claim(m)'
    PROVE  Claim(m)
BY DEF Claim, InLog, Promised, MessageOf

LEMMA ClaimStep ==
    ASSUME TypeInv, ClaimInv, [Next]_vars
    PROVE  ClaimInv'
<1>1. CASE /\ buyers' = buyers
           /\ \A m \in Message : Claim(m)' => Claim(m)
  BY <1>1 DEF ClaimInv
<1>2. CASE \E r \in Requests : SeckillVoucher(r)
  <2>1. PICK r \in Requests : SeckillVoucher(r)
    BY <1>2
  <2>2. CASE ~ Reserves(r)
    BY <1>1, <2>1, <2>2, ReserveOrNot, ClaimsOfCall
  <2>3. CASE Reserves(r)
    <3> DEFINE new == MessageOf(r)
    <3>1. \A m \in Message : Claim(m)' => Claim(m) \/ m = new
      BY <2>1, ClaimsOfCall
    <3>2. /\ new.user = req[r].user /\ new.user \in Users
          /\ new.voucher = req[r].voucher /\ new.voucher \in Vouchers
      BY DEF MessageOf, TypeInv, TypeOK, Request
    <3>3. /\ new.user \notin buyers[new.voucher]
          /\ new.user \in buyers'[new.voucher]
          /\ \A v \in Vouchers : buyers[v] \subseteq buyers'[v]
      BY <2>3, <3>2 DEF Reserves, Reserve, TypeInv, TypeOK
    <3>4. \A m \in Message : m.voucher \in Vouchers
      BY DEF Message
    <3> HIDE DEF new
    <3> QED  BY <3>1, <3>3, <3>4 DEF ClaimInv
  <2> QED  BY <2>2, <2>3
<1>3. CASE \E p \in Pods, t \in Topics : Run(p, t)
  <2>1. UNCHANGED buyers
    BY <1>3
    DEF Run, Fetch, InsertOrder, DuplicateOrder, InsertFails, DeductStock, DeductFails,
        DeadLetter, DeadLetterFails, GiveUp, Commit, CommitFails, redis
  <2> QED  BY <1>1, <1>3, <2>1, ClaimsOfRun
<1>4. CASE UNCHANGED <<orders, log, req, buyers>>
  BY <1>1, <1>4, ClaimsUnmoved
<1> QED  BY <1>2, <1>3, <1>4
  DEF Next, vars, PublishVoucher, SaveVoucher, PreloadStock, PreloadFails, Rebalance,
      Stop, Exit, Crash, Replace, Reassign, sale, redis, broker

LEMMA StockStep ==
    ASSUME TypeInv, StockInv, [Next]_vars
    PROVE  StockInv'
<1>1. CASE UNCHANGED <<published, redisStock, buyers>>
  BY <1>1 DEF StockInv
<1>2. CASE \E v \in Vouchers : PublishVoucher(v)
  <2>1. PICK v \in Vouchers : PublishVoucher(v)
    BY <1>2
  <2>2. UNCHANGED buyers
    BY <2>1 DEF PublishVoucher, SaveVoucher, PreloadStock, PreloadFails, redis
  <2>3. CASE UNCHANGED redisStock
    <3>1. \A w \in Vouchers : published'[w] \in {"none", "saved"} =>
                               published[w] \in {"none", "saved"}
      BY <2>1 DEF PublishVoucher, SaveVoucher, PreloadStock, PreloadFails, TypeInv, TypeOK
    <3> QED  BY <2>2, <2>3, <3>1 DEF StockInv
  <2>4. CASE redisStock' = [redisStock EXCEPT ![v] = Stock[v]] /\ published[v] = "saved"
    <3>1. \A w \in Vouchers \ {v} : published'[w] = published[w]
      BY <2>1 DEF PublishVoucher, SaveVoucher, PreloadStock, PreloadFails, TypeInv, TypeOK
    <3>2. published'[v] \notin {"none", "saved"}
      BY <2>1, <2>4 DEF PublishVoucher, SaveVoucher, PreloadStock, PreloadFails, TypeInv, TypeOK
    <3>3. /\ \A w \in Vouchers \ {v} : redisStock'[w] = redisStock[w]
          /\ redisStock'[v] = Stock[v]
      BY <2>4 DEF TypeInv, TypeOK
    <3>4. buyers[v] = {}
      BY <2>4 DEF StockInv
    <3>5. Stock[v] \in Nat /\ Stock[v] # NoKey /\ Stock[v] + Cardinality({}) = Stock[v]
      BY StockAssumption, FS_EmptySet DEF NoKey
    <3> QED  BY <2>2, <3>1, <3>2, <3>3, <3>4, <3>5 DEF StockInv
  <2> QED  BY <2>1, <2>3, <2>4 DEF PublishVoucher, SaveVoucher, PreloadStock, PreloadFails, redis
<1>3. CASE \E r \in Requests : SeckillVoucher(r)
  <2>1. PICK r \in Requests : SeckillVoucher(r)
    BY <1>3
  <2>2. UNCHANGED published
    BY <2>1 DEF SeckillVoucher, TakeNumber, TakeNumberFails, RunScript, ScriptFails, Publish,
                PublishTwice, PublishFails, RequestCut, sale
  <2>3. CASE Reserves(r)
    <3> DEFINE v == req[r].voucher
               u == req[r].user
    <3>1. v \in Vouchers /\ u \notin buyers[v] /\ redisStock[v] \in Nat \ {0}
      BY <2>3 DEF Reserves, TypeInv, TypeOK, Request
    <3>2. /\ redisStock'[v] = redisStock[v] - 1
          /\ buyers'[v] = buyers[v] \cup {u}
          /\ \A w \in Vouchers \ {v} : redisStock'[w] = redisStock[w] /\ buyers'[w] = buyers[w]
      BY <2>3, <3>1 DEF Reserves, Reserve, TypeInv, TypeOK
    <3>3. /\ IsFiniteSet(buyers[v] \cup {u})
          /\ Cardinality(buyers[v] \cup {u}) = Cardinality(buyers[v]) + 1
          /\ Cardinality(buyers[v]) \in Nat
      BY <3>1, FS_AddElement, FS_CardinalityType DEF StockInv
    <3>4. /\ redisStock[v] # NoKey /\ redisStock[v] - 1 # NoKey
          /\ redisStock[v] + Cardinality(buyers[v]) = Stock[v]
      BY <3>1 DEF StockInv, NoKey
    <3>5. redisStock'[v] + Cardinality(buyers'[v]) = Stock[v]
      BY <3>1, <3>2, <3>3, <3>4
    <3>6. published[v] \notin {"none", "saved"}
      BY <3>1, <3>4 DEF StockInv
    <3> HIDE DEF v, u
    <3> QED  BY <2>2, <3>2, <3>3, <3>4, <3>5, <3>6 DEF StockInv
  <2> QED  BY <1>1, <2>1, <2>2, <2>3, ReserveOrNot
<1> QED  BY <1>1, <1>2, <1>3
  DEF Next, vars, Run, Fetch, InsertOrder, DuplicateOrder, InsertFails, DeductStock,
      DeductFails, DeadLetter, DeadLetterFails, GiveUp, Commit, CommitFails, Rebalance,
      Stop, Exit, Crash, Replace, Reassign, sale, redis, broker

LEMMA SaleInit == Init => SaleInv
<1> SUFFICES ASSUME Init PROVE SaleInv
  OBVIOUS
<1>1. ClaimInv
  BY DEF Init, ClaimInv, Claim, InLog, Promised
<1>2. StockInv
  BY FS_EmptySet DEF Init, StockInv
<1> QED  BY <1>1, <1>2, TypeInit DEF SaleInv

LEMMA SaleStep == SaleInv /\ [Next]_vars => SaleInv'
BY TypeStep, ClaimStep, StockStep DEF SaleInv

LEMMA SaleInvariant == Spec => []SaleInv
BY SaleInit, SaleStep, PTL DEF Spec

\* A user never owns two order rows of one voucher: a row is a claim, and who
\* has a claim cannot get through the script again.
THEOREM OneOrder == Spec => []OneOrderPerUser
<1>1. SaleInv => OneOrderPerUser
  BY DEF SaleInv, TypeInv, TypeOK, ClaimInv, Claim, OneOrderPerUser
<1> QED  BY <1>1, SaleInvariant, PTL

\* The number a call returned is the number of the row, if there is one: the
\* answer and the row are claims of the same user.
THEOREM AnswerIsOrder == Spec => []OrderMatchesAnswer
<1>1. SaleInv => OrderMatchesAnswer
  <2> SUFFICES ASSUME SaleInv, NEW o \in orders, NEW r \in Requests,
                      req[r].pc = "ordered", req[r].user = o.user,
                      req[r].voucher = o.voucher
               PROVE  o.id = req[r].id
    BY DEF OrderMatchesAnswer
  <2>1. MessageOf(r) \in Message /\ o \in Message
    BY DEF SaleInv, TypeInv, TypeOK, Request, Message, MessageOf
  <2>2. Claim(MessageOf(r)) /\ Claim(o)
    BY DEF Claim, Promised
  <2>3. MessageOf(r).user = o.user /\ MessageOf(r).voucher = o.voucher
    BY DEF MessageOf
  <2>4. MessageOf(r) = o
    BY <2>1, <2>2, <2>3 DEF SaleInv, ClaimInv
  <2> QED  BY <2>4 DEF MessageOf
<1> QED  BY <1>1, SaleInvariant, PTL

\* The rows of a voucher map one to one into the Redis set, which has as many
\* members as Redis gave units.
LEMMA OrdersBounded ==
    ASSUME SaleInv, NEW v \in Vouchers
    PROVE  /\ IsFiniteSet(Orders(v))
           /\ Cardinality(Orders(v)) \in Nat
           /\ Cardinality(Orders(v)) <= Stock[v]
           /\ redisStock[v] = NoKey => Orders(v) = {}
<1> DEFINE f == [o \in Orders(v) |-> o.user]
<1>1. \A o \in Orders(v) : o \in orders /\ o \in Message /\ o.voucher = v /\ Claim(o)
  BY DEF SaleInv, TypeInv, TypeOK, Orders, Claim
<1>2. \A o \in Orders(v) : o.user \in buyers[v]
  BY <1>1 DEF SaleInv, ClaimInv
<1>3. \A o1, o2 \in Orders(v) : o1.user = o2.user => o1 = o2
  BY <1>1 DEF SaleInv, ClaimInv
<1>4. f \in Injection(Orders(v), buyers[v])
  BY <1>2, <1>3 DEF Injection, IsInjective
<1>5. IsFiniteSet(buyers[v])
  BY DEF SaleInv, StockInv
<1>6. /\ IsFiniteSet(Orders(v))
      /\ Cardinality(Orders(v)) <= Cardinality(buyers[v])
  BY <1>4, <1>5, FS_Injection
<1>7. Cardinality(Orders(v)) \in Nat /\ Cardinality(buyers[v]) \in Nat
  BY <1>5, <1>6, FS_CardinalityType
<1>8. CASE redisStock[v] = NoKey
  <2>1. buyers[v] = {} /\ Cardinality(buyers[v]) = 0
    BY <1>8, FS_EmptySet DEF SaleInv, StockInv
  <2>2. Stock[v] \in Nat
    BY StockAssumption
  <2> QED  BY <2>1, <2>2, <1>2, <1>6, <1>7
<1>9. CASE redisStock[v] # NoKey
  <2>1. /\ redisStock[v] \in Nat
        /\ redisStock[v] + Cardinality(buyers[v]) = Stock[v]
    BY <1>9 DEF SaleInv, StockInv, TypeInv, TypeOK
  <2> QED  BY <2>1, <1>6, <1>7, <1>9
<1> QED  BY <1>8, <1>9

\* There are never more rows of a voucher than it had stock: Redis never gives
\* out a unit twice, and no row comes without a unit.
THEOREM NeverOversold == Spec => []NoOversell
<1>1. SaleInv => NoOversell
  BY OrdersBounded DEF NoOversell
<1> QED  BY <1>1, SaleInvariant, PTL

-----------------------------------------------------------------------------
(* The sale as its customers see it.                                       *)

\* What a step does to the three stores the abstract sale reads: a first key
\* for a voucher, a script that answers 0, or one more row for a claim.
OpensSale ==
    \E v \in Vouchers :
        /\ redisStock[v] = NoKey
        /\ redisStock' = [redisStock EXCEPT ![v] = Stock[v]]
        /\ UNCHANGED <<buyers, orders>>

StoresRow ==
    \E m \in Message :
        /\ Claim(m) /\ ~ OrderExists(m)
        /\ orders' = orders \cup {m}
        /\ UNCHANGED <<redisStock, buyers>>

LEMMA SaleSteps ==
    ASSUME TypeInv, StockInv, [Next]_vars
    PROVE  \/ UNCHANGED <<redisStock, buyers, orders>>
           \/ OpensSale
           \/ \E r \in Requests : Reserves(r)
           \/ StoresRow
<1>1. CASE \E v \in Vouchers : PublishVoucher(v)
  BY <1>1
  DEF PublishVoucher, SaveVoucher, PreloadStock, PreloadFails, OpensSale, StockInv, redis
<1>2. CASE \E r \in Requests : SeckillVoucher(r)
  <2>1. PICK r \in Requests : SeckillVoucher(r)
    BY <1>2
  <2>2. UNCHANGED orders
    BY <2>1 DEF SeckillVoucher, TakeNumber, TakeNumberFails, RunScript, ScriptFails, Publish,
                PublishTwice, PublishFails, RequestCut, sale
  <2> QED  BY <2>1, <2>2, ReserveOrNot
<1>3. CASE \E p \in Pods, t \in Topics : Run(p, t)
  <2>1. PICK p \in Pods, t \in Topics : Run(p, t)
    BY <1>3
  <2> DEFINE m == Current(p, t)
  <2>2. UNCHANGED <<redisStock, buyers>>
    BY <2>1
    DEF Run, Fetch, InsertOrder, DuplicateOrder, InsertFails, DeductStock, DeductFails,
        DeadLetter, DeadLetterFails, GiveUp, Commit, CommitFails, redis
  <2>3. \/ UNCHANGED orders
        \/ cons[p][t] # Idle /\ ~ OrderExists(m) /\ orders' = orders \cup {m}
    BY <2>1
    DEF Run, Fetch, InsertOrder, DuplicateOrder, InsertFails, DeductStock, DeductFails,
        DeadLetter, DeadLetterFails, GiveUp, Commit, CommitFails, Fails, At, Idle, sale
  <2>4. cons[p][t] # Idle => m \in Message /\ Claim(m)
    BY CurrentTyped DEF Claim, InLog, Current, Working
  <2> HIDE DEF m
  <2> QED  BY <2>2, <2>3, <2>4 DEF StoresRow
<1>4. CASE UNCHANGED <<redisStock, buyers, orders>>
  BY <1>4
<1> QED  BY <1>1, <1>2, <1>3, <1>4
  DEF Next, vars, Rebalance, Stop, Exit, Crash, Replace, Reassign, sale, redis

\* Every step of requests, consumers, pods and the group is a step of the
\* abstract sale or none.
LEMMA SaleRefined ==
    ASSUME SaleInv, [Next]_vars
    PROVE  [Sale!Next]_(Sale!vars)
<1> DEFINE done == [v \in Vouchers |-> {o.user : o \in Orders(v)}]
           sold == {v \in Vouchers : redisStock[v] # NoKey}
<1>1. CASE UNCHANGED <<redisStock, buyers, orders>>
  BY <1>1 DEF Sale!vars, Orders
<1>2. CASE OpensSale
  <2>1. PICK v \in Vouchers :
           /\ redisStock[v] = NoKey
           /\ redisStock' = [redisStock EXCEPT ![v] = Stock[v]]
           /\ UNCHANGED <<buyers, orders>>
    BY <1>2 DEF OpensSale
  <2>2. Stock[v] # NoKey
    BY StockAssumption DEF NoKey
  <2>3. v \notin sold /\ sold' = sold \cup {v}
    BY <2>1, <2>2 DEF SaleInv, TypeInv, TypeOK
  <2>4. UNCHANGED <<buyers, done>>
    BY <2>1 DEF Orders
  <2>5. Sale!Open(v)
    BY <2>3, <2>4 DEF Sale!Open
  <2> QED  BY <2>5 DEF Sale!Next
<1>3. CASE \E r \in Requests : Reserves(r)
  <2>1. PICK r \in Requests : Reserves(r)
    BY <1>3
  <2> DEFINE v == req[r].voucher
             u == req[r].user
  <2>2. v \in Vouchers /\ u \in Users
    BY DEF SaleInv, TypeInv, TypeOK, Request
  <2>3. /\ u \notin buyers[v] /\ redisStock[v] \in Nat \ {0}
        /\ redisStock' = [redisStock EXCEPT ![v] = redisStock[v] - 1]
        /\ buyers' = [buyers EXCEPT ![v] = buyers[v] \cup {u}]
        /\ UNCHANGED orders
    BY <2>1 DEF Reserves, Reserve
  <2> HIDE DEF v, u
  <2>4. Cardinality(buyers[v]) < Stock[v]
    <3>1. redisStock[v] # NoKey
      BY <2>3 DEF NoKey
    <3>2. IsFiniteSet(buyers[v]) /\ redisStock[v] + Cardinality(buyers[v]) = Stock[v]
      BY <2>2, <3>1 DEF SaleInv, StockInv
    <3>3. Cardinality(buyers[v]) \in Nat
      BY <3>2, FS_CardinalityType
    <3> QED  BY <2>3, <3>2, <3>3
  <2>5. v \in sold /\ UNCHANGED sold
    <3>1. redisStock[v] # NoKey /\ redisStock[v] - 1 # NoKey
      BY <2>3 DEF NoKey
    <3>2. \A w \in Vouchers : redisStock'[w] # NoKey <=> redisStock[w] # NoKey
      BY <2>2, <2>3, <3>1 DEF SaleInv, TypeInv, TypeOK
    <3> QED  BY <2>2, <3>1, <3>2
  <2>6. UNCHANGED done
    BY <2>3 DEF Orders
  <2>7. Sale!Cardinality(buyers[v]) = Cardinality(buyers[v])
    BY DEF Sale!Cardinality, Cardinality
  <2>8. Sale!Reserve(u, v)
    BY <2>2, <2>3, <2>4, <2>5, <2>6, <2>7 DEF Sale!Reserve
  <2> QED  BY <2>2, <2>8 DEF Sale!Next
<1>4. CASE StoresRow
  <2>1. PICK m \in Message :
           /\ Claim(m) /\ ~ OrderExists(m)
           /\ orders' = orders \cup {m}
           /\ UNCHANGED <<redisStock, buyers>>
    BY <1>4 DEF StoresRow
  <2> DEFINE v == m.voucher
             u == m.user
  <2>2. v \in Vouchers /\ u \in Users /\ u \in buyers[v]
    BY <2>1 DEF Message, SaleInv, ClaimInv
  <2>3. u \notin done[v]
    <3> SUFFICES ASSUME NEW o \in orders, o.voucher = m.voucher, o.user = m.user
                 PROVE  FALSE
      BY <2>2 DEF Orders
    <3>1. o \in Message /\ Claim(o)
      BY DEF Claim, SaleInv, TypeInv, TypeOK
    <3>2. o = m
      BY <2>1, <3>1 DEF SaleInv, ClaimInv
    <3> QED  BY <2>1, <3>2 DEF OrderExists
  <2>4. \A w \in Vouchers : Orders(w)' = IF w = v THEN Orders(w) \cup {m} ELSE Orders(w)
    BY <2>1 DEF Orders
  <2>5. done' = [done EXCEPT ![v] = done[v] \cup {u}]
    <3>1. \A w \in Vouchers : done'[w] = IF w = v THEN done[w] \cup {u} ELSE done[w]
      BY <2>4
    <3> QED  BY <2>2, <3>1
  <2>6. UNCHANGED <<buyers, sold>>
    BY <2>1
  <2>7. Sale!Fulfil(u, v)
    BY <2>2, <2>3, <2>5, <2>6 DEF Sale!Fulfil
  <2> QED  BY <2>2, <2>7 DEF Sale!Next
<1> QED  BY <1>1, <1>2, <1>3, <1>4, SaleSteps DEF SaleInv

\* The whole of requests, topics, retries, dead letters, crashes and moved
\* partitions implements the sale its customers were promised: it only opens a
\* sale, reserves a unit that is there for a user without one, and fulfils a
\* reservation once.
THEOREM FlashSaleImplemented == Spec => ImplementsFlashSale
<1>1. Init => Sale!Init
  BY DEF Init, Sale!Init, Orders
<1>2. SaleInv /\ [Next]_vars => [Sale!Next]_(Sale!vars)
  BY SaleRefined
<1> QED  BY <1>1, <1>2, SaleInvariant, PTL DEF Spec, ImplementsFlashSale, Sale!Spec

-----------------------------------------------------------------------------
(* Order numbers.                                                          *)
(*                                                                         *)
(* OrderExists compares numbers only.  That a row with the number of a     *)
(* message is the message itself rests on the counter: a number is taken   *)
(* once, and whatever is or may become a row carries the number its call   *)
(* has taken.                                                              *)

NumberInv ==
    /\ \A r \in Requests :
          /\ req[r].id <= counter
          /\ req[r].pc = "new" => req[r].id = 0
          /\ req[r].pc \in {"script", "publish", "ordered"} => req[r].id # 0
    /\ \A r, q \in Requests : req[r].id = req[q].id /\ req[r].id # 0 => r = q
    /\ \A m \in Message : Claim(m) => \E r \in Requests : req[r].id # 0 /\ MessageOf(r) = m

\* A call takes its number once, before anything else, and keeps it.
Numbers(r) ==
    /\ req[r].pc = "new"
    /\ counter' = counter + 1
    /\ req' = [req EXCEPT ![r] = [req[r] EXCEPT !.pc = "script", !.id = counter + 1]]

Advances(r) ==
    /\ counter' \in {counter, counter + 1}
    /\ \E pc \in {"publish"} \cup Answered :
          /\ Goto(r, pc)
          /\ pc \in {"publish", "ordered"} => req[r].pc \in {"script", "publish"}

LEMMA CallMoves ==
    ASSUME TypeInv, NEW r \in Requests, SeckillVoucher(r)
    PROVE  Numbers(r) \/ Advances(r)
<1>1. /\ {"ordered", "noStock", "repeat", "failed", "cut"} \subseteq {"publish"} \cup Answered
      /\ ScriptAnswer(req[r].user, req[r].voucher) \in {"publish", "noStock", "repeat"}
  BY DEF Answered, ScriptAnswer
<1>2. CASE TakeNumber(r)
  BY <1>2 DEF TakeNumber, Numbers, TypeInv, TypeOK
<1>3. CASE RunScript(r)
  <2> DEFINE pc == ScriptAnswer(req[r].user, req[r].voucher)
  <2>1. pc \in {"publish"} \cup Answered /\ Goto(r, pc) /\ req[r].pc = "script"
    BY <1>1, <1>3 DEF RunScript
  <2>2. counter' = counter
    BY <1>3 DEF RunScript
  <2> HIDE DEF pc
  <2> QED  BY <2>1, <2>2 DEF Advances
<1>4. CASE Publish(r) \/ PublishTwice(r)
  BY <1>1, <1>4 DEF Publish, PublishTwice, Advances, redis
<1>5. CASE ScriptFails(r) \/ PublishFails(r) \/ TakeNumberFails(r) \/ RequestCut(r)
  <2>1. \E pc \in {"failed", "cut"} : Goto(r, pc)
    BY <1>5 DEF ScriptFails, PublishFails, TakeNumberFails, RequestCut
  <2>2. counter' \in {counter, counter + 1}
    BY <1>5 DEF ScriptFails, PublishFails, TakeNumberFails, RequestCut, redis
  <2> QED  BY <1>1, <2>1, <2>2 DEF Advances
<1> QED  BY <1>2, <1>3, <1>4, <1>5 DEF SeckillVoucher

LEMMA NumberStep ==
    ASSUME TypeInv, NumberInv, [Next]_vars
    PROVE  NumberInv'
<1>1. ASSUME UNCHANGED <<counter, req>>, \A m \in Message : Claim(m)' => Claim(m)
      PROVE  NumberInv'
  BY <1>1 DEF NumberInv, MessageOf
<1>2. CASE \E r \in Requests : SeckillVoucher(r)
  <2>1. PICK r \in Requests : SeckillVoucher(r)
    BY <1>2
  <2>2. req[r] \in Request /\ counter \in Nat /\ \A q \in Requests : req[q].id \in Nat
    BY DEF TypeInv, TypeOK, Request
  <2>3. CASE Numbers(r)
    <3>1. /\ req'[r].pc = "script" /\ req'[r].id = counter + 1 /\ counter' = counter + 1
          /\ \A q \in Requests \ {r} : req'[q] = req[q] /\ MessageOf(q)' = MessageOf(q)
          /\ req[r].id = 0
      BY <2>2, <2>3 DEF Numbers, NumberInv, Request, MessageOf, TypeInv, TypeOK
    <3>2. \A m \in Message : Claim(m)' => Claim(m)
      BY <2>1, <2>3, ClaimsOfCall DEF Numbers, Reserves
    <3>3. \A m \in Message : Claim(m)' =>
             \E q \in Requests : req'[q].id # 0 /\ MessageOf(q)' = m
      BY <3>1, <3>2 DEF NumberInv
    <3>4. \A q \in Requests :
             /\ req'[q].id <= counter'
             /\ req'[q].pc = "new" => req'[q].id = 0
             /\ req'[q].pc \in {"script", "publish", "ordered"} => req'[q].id # 0
      BY <2>2, <3>1 DEF NumberInv
    <3>5. \A q, s \in Requests : req'[q].id = req'[s].id /\ req'[q].id # 0 => q = s
      BY <2>2, <3>1 DEF NumberInv
    <3> QED  BY <3>3, <3>4, <3>5 DEF NumberInv
  <2>4. CASE Advances(r)
    <3>1. PICK pc \in {"publish"} \cup Answered :
             /\ Goto(r, pc)
             /\ pc \in {"publish", "ordered"} => req[r].pc \in {"script", "publish"}
      BY <2>4 DEF Advances
    <3>2. /\ req'[r].pc = pc /\ req'[r].id = req[r].id /\ MessageOf(r)' = MessageOf(r)
          /\ \A q \in Requests \ {r} : req'[q] = req[q] /\ MessageOf(q)' = MessageOf(q)
      BY <2>2, <3>1 DEF Goto, Request, MessageOf, TypeInv, TypeOK
    <3>3. pc \notin {"new", "script"}
      BY DEF Answered
    <3>4. \A q \in Requests :
             /\ req'[q].id <= counter'
             /\ req'[q].pc = "new" => req'[q].id = 0
             /\ req'[q].pc \in {"script", "publish", "ordered"} => req'[q].id # 0
      <4>1. counter' \in Nat /\ counter <= counter'
        BY <2>2, <2>4 DEF Advances
      <4> QED  BY <2>2, <3>1, <3>2, <3>3, <4>1 DEF NumberInv
    <3>5. \A q \in Requests : req'[q].id = req[q].id /\ MessageOf(q)' = MessageOf(q)
      BY <3>2
    <3>6. \A m \in Message : Claim(m)' =>
             \E q \in Requests : req'[q].id # 0 /\ MessageOf(q)' = m
      <4> SUFFICES ASSUME NEW m \in Message, Claim(m)'
                   PROVE  \E q \in Requests : req[q].id # 0 /\ MessageOf(q) = m
        BY <3>5
      <4>1. CASE Claim(m)
        BY <4>1 DEF NumberInv
      <4>2. CASE Reserves(r) /\ m = MessageOf(r)
        BY <4>2 DEF Reserves, NumberInv
      <4> QED  BY <2>1, <4>1, <4>2, ClaimsOfCall
    <3> QED  BY <3>4, <3>5, <3>6 DEF NumberInv
  <2> QED  BY <2>1, <2>3, <2>4, CallMoves
<1>3. CASE \E p \in Pods, t \in Topics : Run(p, t)
  <2>1. UNCHANGED <<counter, req>>
    BY <1>3
    DEF Run, Fetch, InsertOrder, DuplicateOrder, InsertFails, DeductStock, DeductFails,
        DeadLetter, DeadLetterFails, GiveUp, Commit, CommitFails, redis
  <2> QED  BY <1>1, <1>3, <2>1, ClaimsOfRun
<1>4. CASE UNCHANGED <<orders, log, req, counter>>
  BY <1>1, <1>4, ClaimsUnmoved
<1> QED  BY <1>2, <1>3, <1>4
  DEF Next, vars, PublishVoucher, SaveVoucher, PreloadStock, PreloadFails, Rebalance,
      Stop, Exit, Crash, Replace, Reassign, sale, redis, broker

\* Two claims with one number are one message: the row a consumer finds under
\* the number of its message is that message.
LEMMA NumberNamesMessage ==
    ASSUME NumberInv, NEW m \in Message, NEW n \in Message, Claim(m), Claim(n), m.id = n.id
    PROVE  m = n
<1>1. PICK r \in Requests : req[r].id # 0 /\ MessageOf(r) = m
  BY DEF NumberInv
<1>2. PICK q \in Requests : req[q].id # 0 /\ MessageOf(q) = n
  BY DEF NumberInv
<1>3. req[r].id = req[q].id
  BY <1>1, <1>2 DEF MessageOf
<1> QED  BY <1>1, <1>2, <1>3 DEF NumberInv

-----------------------------------------------------------------------------
(* Nothing is committed past an unsettled message.                         *)
(*                                                                         *)
(* Offsets move in four ways: an owner fetches, any loop commits what it   *)
(* holds, a rebalance or a restart resets the position to the committed    *)
(* offset.  So the invariant covers all three places an offset is kept in: *)
(* the committed one, the position and the loops.                          *)

Settled(t, v, i) ==
    \/ log[t][v][i] \in orders \cup abandoned
    \/ t = "main" /\ Logged("dlt", log[t][v][i])

Holds(p, t, v, i) ==
    cons[p][t] # Idle /\ cons[p][t].voucher = v /\ cons[p][t].at = i

\* What the group stored is settled.
CommittedInv ==
    \A t \in Topics, v \in Vouchers :
        /\ committed[t][v] <= Len(log[t][v])
        /\ \A i \in 1..committed[t][v] : Settled(t, v, i)

\* What the owner fetched is settled, or the owner still works on it.
PositionInv ==
    \A t \in Topics, v \in Vouchers :
        /\ position[t][v] <= Len(log[t][v])
        /\ \A i \in 1..position[t][v] : Settled(t, v, i) \/ Holds(owner[t][v], t, v, i)

\* Whoever works on a message, owner or not, has nothing unsettled before it;
\* when the loop is about to commit, the message itself is settled too.
LoopInv ==
    \A p \in Pods, t \in Topics : cons[p][t] # Idle =>
        /\ \A i \in 1..cons[p][t].at :
              i < cons[p][t].at \/ cons[p][t].pc = "commit" => Settled(t, cons[p][t].voucher, i)
        /\ cons[p][t].pc = "deduct" => Current(p, t) \in orders

DeliveryInv == CommittedInv /\ PositionInv /\ LoopInv

\* The log, the rows and the list of what was given up only grow.
Grows == LogGrows /\ orders \subseteq orders' /\ abandoned \subseteq abandoned'

LEMMA StepGrows ==
    ASSUME TypeInv, [Next]_vars
    PROVE  Grows /\ (UNCHANGED log \/ \E m \in Message : OnlyAdds(m))
<1>1. orders \subseteq orders' /\ abandoned \subseteq abandoned'
  <2>1. CASE \E p \in Pods, t \in Topics : Run(p, t)
    BY <2>1
    DEF Run, Fetch, InsertOrder, DuplicateOrder, InsertFails, DeductStock, DeductFails,
        DeadLetter, DeadLetterFails, GiveUp, Commit, CommitFails, Fails, sale
  <2>2. CASE \E r \in Requests : SeckillVoucher(r)
    BY <2>2
    DEF SeckillVoucher, TakeNumber, TakeNumberFails, RunScript, ScriptFails, Publish,
        PublishTwice, PublishFails, RequestCut, sale
  <2>3. CASE UNCHANGED <<orders, abandoned>>
    BY <2>3
  <2> QED  BY <2>1, <2>2, <2>3
    DEF Next, vars, PublishVoucher, SaveVoucher, PreloadStock, PreloadFails, Rebalance,
        Stop, Exit, Crash, Replace, sale
<1>2. LogGrows /\ (UNCHANGED log \/ \E m \in Message : OnlyAdds(m))
  <2>1. CASE \E r \in Requests : SeckillVoucher(r)
    <3>1. PICK r \in Requests : SeckillVoucher(r)
      BY <2>1
    <3> DEFINE m == MessageOf(r)
    <3>2. m \in Message /\ m.voucher = req[r].voucher
      BY DEF TypeInv, TypeOK, Request, Message, MessageOf
    <3>3. \/ UNCHANGED log \/ Send("main", m)
          \/ log' = [log EXCEPT !["main"][m.voucher] = Append(Append(@, m), m)]
      BY <3>1, <3>2
      DEF SeckillVoucher, TakeNumber, TakeNumberFails, RunScript, ScriptFails, Publish,
          PublishTwice, PublishFails, RequestCut, broker
    <3> QED  BY <3>2, <3>3, SameLogGrows, SendGrows DEF Topics
  <2>2. CASE \E p \in Pods, t \in Topics : Run(p, t)
    <3>1. PICK p \in Pods, t \in Topics : Run(p, t)
      BY <2>2
    <3>2. UNCHANGED log \/ (cons[p][t] # Idle /\ t = "main" /\ Send("dlt", Current(p, t)))
      BY <3>1
      DEF Run, Fetch, InsertOrder, DuplicateOrder, InsertFails, DeductStock, DeductFails,
          DeadLetter, DeadLetterFails, GiveUp, Commit, CommitFails, At, Idle, broker
    <3> QED  BY <3>2, CurrentTyped, SameLogGrows, SendGrows DEF Topics
  <2>3. CASE UNCHANGED log
    BY <2>3, SameLogGrows
  <2> QED  BY <2>1, <2>2, <2>3
    DEF Next, vars, PublishVoucher, SaveVoucher, PreloadStock, PreloadFails, Rebalance,
        Stop, Exit, Crash, Replace, Reassign, broker
<1> QED  BY <1>1, <1>2 DEF Grows

LEMMA SettledStays ==
    ASSUME TypeInv, Grows, NEW t \in Topics, NEW v \in Vouchers,
           NEW i \in 1..Len(log[t][v])
    PROVE  /\ log'[t][v][i] = log[t][v][i]
           /\ i \in 1..Len(log'[t][v])
           /\ Settled(t, v, i) => Settled(t, v, i)'
<1>1. PICK m \in Message : log[t][v][i] = m
  BY DEF TypeInv, TypeOK
<1>2. m.voucher \in Vouchers
  BY DEF Message
<1>3. /\ log'[t][v][i] = m
      /\ Len(log[t][v]) \in Nat /\ Len(log'[t][v]) \in Nat
      /\ Len(log[t][v]) <= Len(log'[t][v])
  BY <1>1 DEF Grows, LogGrows, TypeInv, TypeOK
<1>4. Logged("dlt", m) => Logged("dlt", m)'
  <2> DEFINE w == m.voucher
  <2>1. w \in Vouchers /\ "dlt" \in Topics /\ log["dlt"][w] \in Seq(Message) /\ log'["dlt"][w] \in Seq(Message)
    BY <1>2 DEF Topics, Grows, LogGrows, TypeInv, TypeOK
  <2>2. /\ Len(log["dlt"][w]) <= Len(log'["dlt"][w])
        /\ \A j \in 1..Len(log["dlt"][w]) : log'["dlt"][w][j] = log["dlt"][w][j]
    BY <1>2, <2>1 DEF Grows, LogGrows
  <2>3. /\ DOMAIN log["dlt"][w] = 1..Len(log["dlt"][w]) /\ Len(log["dlt"][w]) \in Nat
        /\ DOMAIN log'["dlt"][w] = 1..Len(log'["dlt"][w]) /\ Len(log'["dlt"][w]) \in Nat
    BY <2>1
  <2> QED  BY <2>2, <2>3 DEF Logged
<1>5. Settled(t, v, i) => Settled(t, v, i)'
  BY <1>1, <1>3, <1>4 DEF Settled, Grows
<1> QED  BY <1>1, <1>3, <1>5

\* What the invariant says of the offsets of this state still holds of them
\* in the next one.
LEMMA DeliveryCarries ==
    ASSUME TypeInv, DeliveryInv, Grows
    PROVE  /\ \A t \in Topics, v \in Vouchers :
                /\ committed[t][v] \in Nat /\ committed[t][v] <= Len(log'[t][v])
                /\ \A i \in 1..committed[t][v] : Settled(t, v, i)'
                /\ position[t][v] \in Nat /\ position[t][v] <= Len(log'[t][v])
                /\ \A i \in 1..position[t][v] :
                      Settled(t, v, i)' \/ Holds(owner[t][v], t, v, i)
           /\ \A p \in Pods, t \in Topics, c \in Working : cons[p][t] = c =>
                /\ c.at \in 1..Len(log'[t][c.voucher])
                /\ log'[t][c.voucher][c.at] = Current(p, t)
                /\ \A i \in 1..c.at :
                      i < c.at \/ c.pc = "commit" => Settled(t, c.voucher, i)'
                /\ c.pc = "deduct" => log'[t][c.voucher][c.at] \in orders'
<1>1. ASSUME NEW t \in Topics, NEW v \in Vouchers
      PROVE  /\ committed[t][v] \in Nat /\ committed[t][v] <= Len(log'[t][v])
             /\ \A i \in 1..committed[t][v] : Settled(t, v, i)'
             /\ position[t][v] \in Nat /\ position[t][v] <= Len(log'[t][v])
             /\ \A i \in 1..position[t][v] :
                   Settled(t, v, i)' \/ Holds(owner[t][v], t, v, i)
  <2>1. /\ committed[t][v] \in Nat /\ position[t][v] \in Nat
        /\ Len(log[t][v]) \in Nat /\ Len(log'[t][v]) \in Nat
        /\ Len(log[t][v]) <= Len(log'[t][v])
    BY DEF Grows, LogGrows, TypeInv, TypeOK
  <2>2. committed[t][v] <= Len(log[t][v]) /\ position[t][v] <= Len(log[t][v])
    BY DEF DeliveryInv, CommittedInv, PositionInv
  <2>3. ASSUME NEW i \in 1..committed[t][v]
        PROVE  Settled(t, v, i)'
    <3>1. i \in 1..Len(log[t][v]) /\ Settled(t, v, i)
      BY <2>1, <2>2 DEF DeliveryInv, CommittedInv
    <3> QED  BY <3>1, SettledStays
  <2>4. ASSUME NEW i \in 1..position[t][v]
        PROVE  Settled(t, v, i)' \/ Holds(owner[t][v], t, v, i)
    <3>1. i \in 1..Len(log[t][v]) /\ (Settled(t, v, i) \/ Holds(owner[t][v], t, v, i))
      BY <2>1, <2>2 DEF DeliveryInv, PositionInv
    <3> QED  BY <3>1, SettledStays
  <2> QED  BY <2>1, <2>2, <2>3, <2>4
<1>2. ASSUME NEW p \in Pods, NEW t \in Topics, NEW c \in Working, cons[p][t] = c
      PROVE  /\ c.at \in 1..Len(log'[t][c.voucher])
             /\ log'[t][c.voucher][c.at] = Current(p, t)
             /\ \A i \in 1..c.at :
                   i < c.at \/ c.pc = "commit" => Settled(t, c.voucher, i)'
             /\ c.pc = "deduct" => log'[t][c.voucher][c.at] \in orders'
  <2> DEFINE v == c.voucher
             k == c.at
  <2>1. c # Idle /\ v \in Vouchers /\ k \in 1..Len(log[t][v])
    BY <1>2, CurrentTyped DEF Working, Idle
  <2>2. k \in 1..Len(log'[t][v]) /\ log'[t][v][k] = Current(p, t)
    BY <1>2, <2>1, SettledStays DEF Current
  <2>3. ASSUME NEW i \in 1..k, i < k \/ c.pc = "commit"
        PROVE  Settled(t, v, i)'
    <3>1. i \in 1..Len(log[t][v])
      <4>1. Len(log[t][v]) \in Nat
        BY <2>1 DEF TypeInv, TypeOK
      <4> QED  BY <2>1, <4>1
    <3>2. Settled(t, v, i)
      BY <1>2, <2>1, <2>3 DEF DeliveryInv, LoopInv
    <3> QED  BY <2>1, <3>1, <3>2, SettledStays
  <2>4. c.pc = "deduct" => log'[t][v][k] \in orders'
    BY <1>2, <2>1, <2>2 DEF DeliveryInv, LoopInv, Grows
  <2> QED  BY <2>1, <2>2, <2>3, <2>4
<1> QED  BY <1>1, <1>2

\* An idle loop is not one that works, and that one has a message to work on.
LEMMA LoopLabels ==
    /\ Idle.pc = "idle"
    /\ \A c \in Working :
          /\ c # Idle
          /\ c.pc \in {"insert", "deduct", "dead", "commit"}
          /\ c.voucher \in Vouchers
          /\ c.at \in Nat \ {0}
BY DEF Idle, Working

LEMMA SentIsLogged ==
    ASSUME TypeInv, NEW t \in Topics, NEW m \in Message, Send(t, m)
    PROVE  Logged(t, m)'
<1>1. m.voucher \in Vouchers
  BY DEF Message
<1> DEFINE q == log[t][m.voucher]
<1>2. q \in Seq(Message) /\ log'[t][m.voucher] = Append(q, m)
  BY <1>1 DEF Send, TypeInv, TypeOK
<1>3. /\ Len(q) + 1 \in DOMAIN Append(q, m)
      /\ Append(q, m)[Len(q) + 1] = m
  BY <1>2
<1> HIDE DEF q
<1> QED  BY <1>2, <1>3 DEF Logged

\* The next label of a busy loop tells what has been done with its message.
LEMMA LoopWorks ==
    ASSUME TypeInv, NumberInv, LoopInv, NEW p \in Pods, NEW t \in Topics, Run(p, t),
           cons[p][t] # Idle, ~ Commit(p, t), ~ CommitFails(p, t),
           NEW m \in Message, Current(p, t) = m
    PROVE  /\ UNCHANGED <<committed, position, owner>>
           /\ \E pc \in {"insert", "deduct", "dead", "commit"} :
                /\ Move(p, t, pc) \/ (Retry(p, t) /\ pc = "dead")
                /\ pc = "deduct" => m \in orders'
                /\ pc = "commit" =>
                      \/ m \in orders' \cup abandoned'
                      \/ t = "main" /\ Logged("dlt", m)'
<1>1. ~ \E v \in Vouchers : Fetch(p, t, v)
  BY CurrentTyped DEF Fetch, At, Working
<1>2. CASE InsertOrder(p, t)
  BY <1>2 DEF InsertOrder, broker
<1>3. CASE DuplicateOrder(p, t)
  <2>1. PICK o \in orders : o.id = m.id
    BY <1>3 DEF DuplicateOrder, OrderExists
  <2>2. o \in Message /\ Claim(o)
    BY DEF Claim, TypeInv, TypeOK
  <2>3. Claim(m)
    BY CurrentTyped DEF Claim, InLog, Current, Working
  <2>4. m \in orders
    BY <2>1, <2>2, <2>3, NumberNamesMessage
  <2> QED  BY <1>3, <2>4 DEF DuplicateOrder, sale, broker
<1>4. CASE InsertFails(p, t) \/ DeductFails(p, t)
  BY <1>4 DEF InsertFails, DeductFails, broker
<1>5. CASE DeductStock(p, t)
  <2>1. m \in orders
    BY <1>5 DEF DeductStock, At, LoopInv
  <2> QED  BY <1>5, <2>1 DEF DeductStock, broker
<1>6. CASE t = "main" /\ (DeadLetter(p) \/ DeadLetterFails(p))
  <2>1. \/ m \in abandoned'
        \/ Send("dlt", m)
    BY <1>6 DEF DeadLetter, DeadLetterFails
  <2>2. Send("dlt", m) => Logged("dlt", m)'
    BY SentIsLogged DEF Topics
  <2> QED  BY <1>6, <2>1, <2>2 DEF DeadLetter, DeadLetterFails
<1>7. CASE t = "dlt" /\ GiveUp(p)
  BY <1>7 DEF GiveUp, broker
<1> QED  BY <1>1, <1>2, <1>3, <1>4, <1>5, <1>6, <1>7 DEF Run

\* The invariant of the next state, said of the values its variables have.
LEMMA DeliveryNext ==
    ASSUME TypeOK',
           \A t \in Topics, v \in Vouchers, n \in Nat : committed'[t][v] = n =>
               /\ n <= Len(log'[t][v])
               /\ \A i \in 1..n : Settled(t, v, i)',
           \A t \in Topics, v \in Vouchers, n \in Nat, o \in Pods :
               position'[t][v] = n /\ owner'[t][v] = o =>
               /\ n <= Len(log'[t][v])
               /\ \A i \in 1..n : Settled(t, v, i)' \/ Holds(o, t, v, i)',
           \A p \in Pods, t \in Topics, c \in Working : cons'[p][t] = c =>
               /\ \A i \in 1..c.at :
                     i < c.at \/ c.pc = "commit" => Settled(t, c.voucher, i)'
               /\ c.pc = "deduct" => log'[t][c.voucher][c.at] \in orders'
    PROVE  DeliveryInv'
<1>1. CommittedInv'
  BY DEF CommittedInv, TypeOK
<1>2. PositionInv'
  BY DEF PositionInv, TypeOK
<1>3. LoopInv'
  BY DEF LoopInv, Current, TypeOK
<1> QED  BY <1>1, <1>2, <1>3 DEF DeliveryInv

LEMMA DeliveryFetch ==
    ASSUME TypeInv, TypeOK', DeliveryInv, Grows,
           NEW p \in Pods, NEW t \in Topics, NEW v \in Vouchers, Fetch(p, t, v)
    PROVE  DeliveryInv'
<1>0. /\ cons \in [Pods -> [Topics -> {Idle} \cup Working]]
      /\ position \in [Topics -> [Vouchers -> Nat]]
      /\ owner \in [Topics -> [Vouchers -> Pods]]
  BY DEF TypeInv, TypeOK
<1>1. PICK k \in Nat : k = position[t][v] + 1
  BY <1>0
<1>2. PICK c : c = [pc |-> "insert", voucher |-> v, at |-> k, tries |-> 0]
  OBVIOUS
<1>3. c # Idle /\ c.voucher = v /\ c.at = k /\ c.pc = "insert"
  BY <1>2 DEF Idle
<1>4. /\ cons[p][t] = Idle
      /\ owner[t][v] = p
      /\ position[t][v] < Len(log[t][v])
      /\ position' = [position EXCEPT ![t][v] = k]
      /\ cons' = [cons EXCEPT ![p][t] = c]
      /\ UNCHANGED <<log, committed, owner>>
  <2>1. cons[p][t] = Idle
    <3>1. cons[p][t].pc = "idle" /\ cons[p][t] \in {Idle} \cup Working
      BY <1>0 DEF Fetch, At
    <3> QED  BY <3>1, LoopLabels
  <2> QED  BY <1>1, <1>2, <2>1 DEF Fetch
<1>5. /\ cons'[p][t] = c
      /\ \A q \in Pods, s \in Topics : <<q, s>> # <<p, t>> => cons'[q][s] = cons[q][s]
      /\ position'[t][v] = k
      /\ \A s \in Topics, w \in Vouchers :
            <<s, w>> # <<t, v>> => position'[s][w] = position[s][w]
  BY <1>0, <1>4
<1>6. k <= Len(log'[t][v]) /\ \A i \in 1..k : i < k => Settled(t, v, i)'
  <2>1. ASSUME NEW i \in 1..k, i < k
        PROVE  Settled(t, v, i)'
    <3>1. i \in 1..position[t][v] /\ ~ Holds(owner[t][v], t, v, i)
      BY <1>0, <1>1, <1>4, <2>1 DEF Holds
    <3> QED  BY <3>1, DeliveryCarries
  <2>2. k <= Len(log[t][v])
    <3>1. Len(log[t][v]) \in Nat /\ position[t][v] \in Nat
      BY DEF TypeInv, TypeOK
    <3> QED  BY <1>1, <1>4, <3>1
  <2> QED  BY <1>4, <2>1, <2>2
<1>7. ASSUME NEW s \in Topics, NEW w \in Vouchers, NEW n \in Nat, NEW o \in Pods,
             position'[s][w] = n, owner'[s][w] = o
      PROVE  /\ n <= Len(log'[s][w])
             /\ \A i \in 1..n : Settled(s, w, i)' \/ Holds(o, s, w, i)'
  <2>1. CASE s = t /\ w = v
    <3>1. Holds(o, t, v, k)'
      BY <1>3, <1>4, <1>5, <1>7, <2>1 DEF Holds
    <3> QED  BY <1>5, <1>6, <1>7, <2>1, <3>1
  <2>2. CASE ~ (s = t /\ w = v)
    <3>1. position[s][w] = n /\ owner[s][w] = o
      BY <1>4, <1>5, <1>7, <2>2
    <3>2. ASSUME NEW i \in 1..n, Holds(o, s, w, i)
          PROVE  Holds(o, s, w, i)'
      BY <1>4, <1>5, <3>2 DEF Holds
    <3> QED  BY <3>1, <3>2, DeliveryCarries
  <2> QED  BY <2>1, <2>2
<1>8. ASSUME NEW q \in Pods, NEW s \in Topics, NEW d \in Working, cons'[q][s] = d
      PROVE  /\ \A i \in 1..d.at :
                   i < d.at \/ d.pc = "commit" => Settled(s, d.voucher, i)'
             /\ d.pc = "deduct" => log'[s][d.voucher][d.at] \in orders'
  <2>1. CASE q = p /\ s = t
    BY <1>3, <1>5, <1>6, <1>8, <2>1
  <2>2. CASE ~ (q = p /\ s = t)
    BY <1>5, <1>8, <2>2, DeliveryCarries
  <2> QED  BY <2>1, <2>2
<1>9. \A s \in Topics, w \in Vouchers, n \in Nat : committed'[s][w] = n =>
         /\ n <= Len(log'[s][w])
         /\ \A i \in 1..n : Settled(s, w, i)'
  BY <1>4, DeliveryCarries
<1> QED  BY <1>7, <1>8, <1>9, DeliveryNext

LEMMA DeliveryWork ==
    ASSUME TypeInv, TypeOK', NumberInv, DeliveryInv, Grows, NEW p \in Pods, NEW t \in Topics,
           Run(p, t), cons[p][t] # Idle, ~ Commit(p, t), ~ CommitFails(p, t)
    PROVE  DeliveryInv'
<1>1. PICK b \in Working : cons[p][t] = b
  BY CurrentTyped
<1>2. PICK m \in Message : Current(p, t) = m
  BY CurrentTyped
<1>3. PICK pc \in {"insert", "deduct", "dead", "commit"} :
         /\ Move(p, t, pc) \/ (Retry(p, t) /\ pc = "dead")
         /\ pc = "deduct" => m \in orders'
         /\ pc = "commit" =>
               \/ m \in orders' \cup abandoned'
               \/ t = "main" /\ Logged("dlt", m)'
  BY <1>2, LoopWorks DEF DeliveryInv
<1>4. PICK c \in Working :
         /\ c.voucher = b.voucher /\ c.at = b.at
         /\ c.pc \in {pc, "insert", "dead"}
         /\ cons' = [cons EXCEPT ![p][t] = c]
  BY <1>1, <1>3, LoopLabels, LoopMoves
<1>5. UNCHANGED <<committed, position, owner>>
  BY <1>2, LoopWorks DEF DeliveryInv
<1>6. /\ b # Idle /\ c # Idle
      /\ cons'[p][t] = c
      /\ \A q \in Pods, s \in Topics : <<q, s>> # <<p, t>> => cons'[q][s] = cons[q][s]
  BY <1>4, LoopLabels DEF TypeInv, TypeOK
<1>7. /\ log'[t][b.voucher][b.at] = m
      /\ \A i \in 1..b.at : i < b.at => Settled(t, b.voucher, i)'
      /\ b.at \in Nat
  BY <1>1, <1>2, DeliveryCarries DEF Working
<1>8. ASSUME NEW q \in Pods, NEW s \in Topics, NEW d \in Working, cons'[q][s] = d
      PROVE  /\ \A i \in 1..d.at :
                   i < d.at \/ d.pc = "commit" => Settled(s, d.voucher, i)'
             /\ d.pc = "deduct" => log'[s][d.voucher][d.at] \in orders'
  <2>1. CASE q = p /\ s = t
    <3>1. d = c
      BY <1>6, <1>8, <2>1
    <3>2. c.pc = "commit" => Settled(t, b.voucher, b.at)'
      BY <1>3, <1>4, <1>7 DEF Settled
    <3>3. c.pc = "deduct" => m \in orders'
      BY <1>3, <1>4
    <3>4. \A i \in 1..b.at : i < b.at \/ i = b.at
      BY <1>7
    <3> QED  BY <1>4, <1>7, <2>1, <3>1, <3>2, <3>3, <3>4
  <2>2. CASE ~ (q = p /\ s = t)
    BY <1>6, <1>8, <2>2, DeliveryCarries
  <2> QED  BY <2>1, <2>2
<1>9. ASSUME NEW s \in Topics, NEW w \in Vouchers, NEW n \in Nat, NEW o \in Pods,
             position'[s][w] = n, owner'[s][w] = o
      PROVE  /\ n <= Len(log'[s][w])
             /\ \A i \in 1..n : Settled(s, w, i)' \/ Holds(o, s, w, i)'
  <2>1. ASSUME NEW i \in 1..n, Holds(o, s, w, i)
        PROVE  Holds(o, s, w, i)'
    BY <1>1, <1>4, <1>6, <2>1 DEF Holds
  <2> QED  BY <1>5, <1>9, <2>1, DeliveryCarries
<1>10. \A s \in Topics, w \in Vouchers, n \in Nat : committed'[s][w] = n =>
          /\ n <= Len(log'[s][w])
          /\ \A i \in 1..n : Settled(s, w, i)'
  BY <1>5, DeliveryCarries
<1> QED  BY <1>8, <1>9, <1>10, DeliveryNext

LEMMA DeliveryCommit ==
    ASSUME TypeInv, TypeOK', DeliveryInv, Grows, NEW p \in Pods, NEW t \in Topics,
           Commit(p, t) \/ CommitFails(p, t)
    PROVE  DeliveryInv'
<1>1. PICK c \in Working : cons[p][t] = c /\ c.pc = "commit"
  <2>1. cons[p][t] # Idle /\ cons[p][t].pc = "commit"
    BY DEF Commit, CommitFails, At, Idle
  <2> QED  BY <2>1, CurrentTyped
<1>2. /\ UNCHANGED committed \/ committed' = [committed EXCEPT ![t][c.voucher] = c.at]
      /\ UNCHANGED <<position, owner>>
      /\ cons' = [cons EXCEPT ![p][t] = Idle]
  BY <1>1 DEF Commit, CommitFails, StoreOffset, Fails
<1>3. /\ cons'[p][t] = Idle
      /\ \A q \in Pods, s \in Topics : <<q, s>> # <<p, t>> => cons'[q][s] = cons[q][s]
      /\ Idle \notin Working
  BY <1>2, LoopLabels DEF TypeInv, TypeOK
<1>4. /\ c.at \in 1..Len(log'[t][c.voucher])
      /\ \A i \in 1..c.at : Settled(t, c.voucher, i)'
  BY <1>1, DeliveryCarries
<1>5. ASSUME NEW s \in Topics, NEW w \in Vouchers, NEW n \in Nat, committed'[s][w] = n
      PROVE  /\ n <= Len(log'[s][w])
             /\ \A i \in 1..n : Settled(s, w, i)'
  <2>1. \/ n = committed[s][w]
        \/ s = t /\ w = c.voucher /\ n = c.at
    <3>1. committed \in [Topics -> [Vouchers -> Nat]]
      BY DEF TypeInv, TypeOK
    <3>2. CASE UNCHANGED committed
      BY <1>5, <3>2
    <3>3. CASE committed' = [committed EXCEPT ![t][c.voucher] = c.at]
      BY <1>5, <3>1, <3>3
    <3> QED  BY <1>2, <3>2, <3>3
  <2>2. n = c.at /\ s = t /\ w = c.voucher => n <= Len(log'[s][w])
    <3>1. w \in Vouchers /\ Len(log'[s][w]) \in Nat
      BY DEF Grows, LogGrows
    <3> QED  BY <1>4, <3>1
  <2> QED  BY <1>4, <2>1, <2>2, DeliveryCarries
<1>6. ASSUME NEW s \in Topics, NEW w \in Vouchers, NEW n \in Nat, NEW o \in Pods,
             position'[s][w] = n, owner'[s][w] = o
      PROVE  /\ n <= Len(log'[s][w])
             /\ \A i \in 1..n : Settled(s, w, i)' \/ Holds(o, s, w, i)'
  <2>1. ASSUME NEW i \in 1..n, Holds(o, s, w, i)
        PROVE  Settled(s, w, i)' \/ Holds(o, s, w, i)'
    <3>1. CASE o = p /\ s = t
      <4>1. w = c.voucher /\ i = c.at
        BY <1>1, <2>1, <3>1 DEF Holds
      <4>2. c.at \in 1..c.at
        BY DEF Working
      <4> QED  BY <1>4, <3>1, <4>1, <4>2
    <3>2. CASE ~ (o = p /\ s = t)
      BY <1>3, <2>1, <3>2 DEF Holds
    <3> QED  BY <3>1, <3>2
  <2> QED  BY <1>2, <1>6, <2>1, DeliveryCarries
<1>7. ASSUME NEW q \in Pods, NEW s \in Topics, NEW d \in Working, cons'[q][s] = d
      PROVE  /\ \A i \in 1..d.at :
                   i < d.at \/ d.pc = "commit" => Settled(s, d.voucher, i)'
             /\ d.pc = "deduct" => log'[s][d.voucher][d.at] \in orders'
  BY <1>3, <1>7, DeliveryCarries
<1> QED  BY <1>5, <1>6, <1>7, DeliveryNext

\* Calls, publishing and a pod that is told to stop touch neither offsets nor loops.
LEMMA DeliveryRest ==
    ASSUME TypeInv, TypeOK', DeliveryInv, Grows, UNCHANGED <<committed, position, owner, cons>>
    PROVE  DeliveryInv'
<1>1. \A s \in Topics, w \in Vouchers, n \in Nat, o \in Pods :
         position'[s][w] = n /\ owner'[s][w] = o =>
             /\ n <= Len(log'[s][w])
             /\ \A i \in 1..n : Settled(s, w, i)' \/ Holds(o, s, w, i)'
  BY DeliveryCarries DEF Holds
<1>2. \A s \in Topics, w \in Vouchers, n \in Nat : committed'[s][w] = n =>
         /\ n <= Len(log'[s][w])
         /\ \A i \in 1..n : Settled(s, w, i)'
  BY DeliveryCarries
<1>3. \A q \in Pods, s \in Topics, d \in Working : cons'[q][s] = d =>
         /\ \A i \in 1..d.at : i < d.at \/ d.pc = "commit" => Settled(s, d.voucher, i)'
         /\ d.pc = "deduct" => log'[s][d.voucher][d.at] \in orders'
  BY DeliveryCarries
<1> QED  BY <1>1, <1>2, <1>3, DeliveryNext

\* Partitions that move resume from what is committed; a loop that survives
\* goes on with the message it holds.
LEMMA DeliveryGroup ==
    ASSUME TypeInv, TypeOK', DeliveryInv, Grows, NEW ts \in SUBSET Topics, Reassign(ts),
           \/ UNCHANGED cons
           \/ ts = Topics /\ \E p \in Pods : cons' = [cons EXCEPT ![p] = [t \in Topics |-> Idle]]
    PROVE  DeliveryInv'
<1>1. /\ UNCHANGED committed
      /\ \A s \in ts, w \in Vouchers : position'[s][w] = committed[s][w]
      /\ \A s \in Topics \ ts, w \in Vouchers :
            position'[s][w] = position[s][w] /\ owner'[s][w] = owner[s][w]
      /\ (ts # Topics => UNCHANGED cons)
  BY DEF Reassign
<1>2. \A s \in Topics, w \in Vouchers, n \in Nat : committed'[s][w] = n =>
         /\ n <= Len(log'[s][w])
         /\ \A i \in 1..n : Settled(s, w, i)'
  BY <1>1, DeliveryCarries
<1>3. ASSUME NEW s \in Topics, NEW w \in Vouchers, NEW n \in Nat, NEW o \in Pods,
             position'[s][w] = n, owner'[s][w] = o
      PROVE  /\ n <= Len(log'[s][w])
             /\ \A i \in 1..n : Settled(s, w, i)' \/ Holds(o, s, w, i)'
  <2>1. CASE s \in ts
    BY <1>1, <1>3, <2>1, DeliveryCarries
  <2>2. CASE s \notin ts
    BY <1>1, <1>3, <2>2, DeliveryCarries DEF Holds
  <2> QED  BY <2>1, <2>2
<1>4. ASSUME NEW q \in Pods, NEW s \in Topics, NEW d \in Working, cons'[q][s] = d
      PROVE  /\ \A i \in 1..d.at : i < d.at \/ d.pc = "commit" => Settled(s, d.voucher, i)'
             /\ d.pc = "deduct" => log'[s][d.voucher][d.at] \in orders'
  <2>1. cons[q][s] = d
    <3>1. d # Idle /\ cons \in [Pods -> [Topics -> {Idle} \cup Working]]
      BY LoopLabels DEF TypeInv, TypeOK
    <3>2. CASE UNCHANGED cons
      BY <1>4, <3>2
    <3>3. CASE \E p \in Pods : cons' = [cons EXCEPT ![p] = [t \in Topics |-> Idle]]
      BY <1>4, <3>1, <3>3
    <3> QED  BY <3>2, <3>3
  <2> QED  BY <2>1, DeliveryCarries
<1> QED  BY <1>2, <1>3, <1>4, DeliveryNext

LEMMA DeliveryStep ==
    ASSUME TypeInv, NumberInv, DeliveryInv, [Next]_vars
    PROVE  DeliveryInv'
<1>1. TypeOK' /\ Grows
  BY TypeStep, StepGrows DEF TypeInv
<1>2. CASE \E p \in Pods, t \in Topics : Run(p, t)
  <2>1. PICK p \in Pods, t \in Topics : Run(p, t)
    BY <1>2
  <2>2. CASE cons[p][t] = Idle
    <3>1. \E v \in Vouchers : Fetch(p, t, v)
      BY <2>1, <2>2
      DEF Run, InsertOrder, DuplicateOrder, InsertFails, DeductStock, DeductFails,
          DeadLetter, DeadLetterFails, GiveUp, Commit, CommitFails, At, Idle
    <3> QED  BY <1>1, <3>1, DeliveryFetch
  <2> QED  BY <1>1, <2>1, <2>2, DeliveryWork, DeliveryCommit
<1>3. CASE \E ts \in SUBSET Topics :
         /\ Reassign(ts)
         /\ \/ UNCHANGED cons
            \/ ts = Topics /\ \E p \in Pods : cons' = [cons EXCEPT ![p] = [t \in Topics |-> Idle]]
  BY <1>1, <1>3, DeliveryGroup
<1>4. CASE UNCHANGED <<committed, position, owner, cons>>
  BY <1>1, <1>4, DeliveryRest
<1>5. CASE \E t \in Topics : Rebalance(t)
  BY <1>3, <1>5 DEF Rebalance
<1>6. CASE \E p \in Pods : Exit(p) \/ Crash(p)
  BY <1>3, <1>6 DEF Exit, Crash, Replace
<1>7. CASE \E r \in Requests : SeckillVoucher(r)
  BY <1>4, <1>7
  DEF SeckillVoucher, TakeNumber, TakeNumberFails, RunScript, ScriptFails, Publish,
      PublishTwice, PublishFails, RequestCut, broker
<1> QED  BY <1>2, <1>4, <1>5, <1>6, <1>7
  DEF Next, vars, PublishVoucher, SaveVoucher, PreloadStock, PreloadFails, Stop, broker

DeliverySafe == TypeInv /\ NumberInv /\ DeliveryInv

LEMMA DeliveryInvariant == Spec => []DeliverySafe
<1>1. Init => DeliverySafe
  <2> SUFFICES ASSUME Init PROVE DeliverySafe
    OBVIOUS
  <2>1. NumberInv
    BY DEF Init, NumberInv, Claim, InLog, Promised
  <2>2. DeliveryInv
    BY DEF Init, DeliveryInv, CommittedInv, PositionInv, LoopInv
  <2> QED  BY <2>1, <2>2, TypeInit DEF DeliverySafe
<1>2. DeliverySafe /\ [Next]_vars => DeliverySafe'
  BY TypeStep, NumberStep, DeliveryStep DEF DeliverySafe
<1> QED  BY <1>1, <1>2, PTL DEF Spec

\* No offset is ever committed past a message that is neither a row, nor in the
\* dead letters, nor logged as given up: not by a stale owner that commits late,
\* not after a crash and not after the partition moved away and back.
THEOREM NothingLostSilently == Spec => []CommittedIsSettled
<1>1. DeliverySafe => CommittedIsSettled
  BY DEF DeliverySafe, DeliveryInv, CommittedInv, Settled, CommittedIsSettled
<1> QED  BY <1>1, DeliveryInvariant, PTL

-----------------------------------------------------------------------------
(* The books: MySQL stock and order rows.                                  *)
(*                                                                         *)
(* A row is inserted and its unit deducted by two statements.  In between  *)
(* the loop that inserted it is in Deducting, and one row at a time enters *)
(* or leaves that set.                                                     *)

Books(v) ==
    /\ IsFiniteSet(Deducting(v))
    /\ published[v] # "none" =>
          /\ dbStock[v] + Cardinality(Orders(v)) >= Stock[v] + Cardinality(Deducting(v))
          /\ faults = 0 =>
                dbStock[v] + Cardinality(Orders(v)) = Stock[v] + Cardinality(Deducting(v))

\* The balancer sends a message to the partition of its voucher.
RoutedInv ==
    \A t \in Topics, v \in Vouchers : \A i \in 1..Len(log[t][v]) : log[t][v][i].voucher = v

BooksInv ==
    /\ RoutedInv
    /\ faults = 0 => stopping = {}
    /\ \A v \in Vouchers : Books(v)

\* What a step may do to the books of a voucher: open them, leave them alone
\* but for loops that die, add one row or take one unit.
Opened(v) ==
    /\ published[v] = "none"
    /\ dbStock'[v] = Stock[v]
    /\ UNCHANGED <<orders, cons>>

Untouched(v) ==
    /\ UNCHANGED <<dbStock[v], Orders(v)>>
    /\ Deducting(v)' \subseteq Deducting(v)
    /\ faults' = 0 => UNCHANGED Deducting(v)

Inserted(v) ==
    /\ UNCHANGED dbStock[v]
    /\ \E m \in Message : m \notin Orders(v) /\ Orders(v)' = Orders(v) \cup {m}
    /\ \/ \E c \in (Pods \X Topics) \ Deducting(v) : Deducting(v)' = Deducting(v) \cup {c}
       \/ faults' # 0 /\ UNCHANGED Deducting(v)

Deducted(v) ==
    /\ UNCHANGED Orders(v)
    /\ \E c \in Deducting(v) : Deducting(v)' = Deducting(v) \ {c}
    /\ \/ dbStock'[v] = IF dbStock[v] > 0 THEN dbStock[v] - 1 ELSE dbStock[v]
       \/ faults' # 0 /\ UNCHANGED dbStock[v]

LEMMA RoutedStep ==
    ASSUME TypeInv, RoutedInv, [Next]_vars
    PROVE  RoutedInv'
<1> SUFFICES ASSUME NEW t \in Topics, NEW v \in Vouchers, NEW i \in 1..Len(log'[t][v])
             PROVE  log'[t][v][i].voucher = v
  BY DEF RoutedInv
<1>1. CASE i <= Len(log[t][v])
  <2>1. i \in 1..Len(log[t][v])
    BY <1>1 DEF TypeInv, TypeOK
  <2>2. LogGrows
    BY StepGrows DEF Grows
  <2>3. log'[t][v][i] = log[t][v][i]
    BY <2>1, <2>2 DEF LogGrows
  <2> QED  BY <2>1, <2>3 DEF RoutedInv
<1>2. CASE ~ (i <= Len(log[t][v]))
  <2>1. ~ UNCHANGED log
    <3>1. Len(log[t][v]) \in Nat
      BY DEF TypeInv, TypeOK
    <3> QED  BY <1>2, <3>1
  <2> QED  BY <1>2, <2>1, StepGrows DEF OnlyAdds
<1> QED  BY <1>1, <1>2

\* A loop that is not idle works on a message of its voucher, and the message
\* is a claim.
LEMMA CurrentRouted ==
    ASSUME TypeInv, RoutedInv, NEW p \in Pods, NEW t \in Topics, cons[p][t] # Idle
    PROVE  /\ Current(p, t) \in Message
           /\ Claim(Current(p, t))
           /\ Current(p, t).voucher = cons[p][t].voucher
           /\ cons[p][t].voucher \in Vouchers
BY CurrentTyped DEF Claim, InLog, Current, Working, RoutedInv

LEMMA NothingBeforeSale ==
    ASSUME SaleInv, RoutedInv, NEW v \in Vouchers, published[v] = "none"
    PROVE  Orders(v) = {} /\ Deducting(v) = {}
<1>1. redisStock[v] = NoKey /\ buyers[v] = {}
  BY DEF SaleInv, StockInv
<1>2. Deducting(v) = {}
  <2> SUFFICES ASSUME NEW c \in Deducting(v) PROVE FALSE
    OBVIOUS
  <2>1. PICK p \in Pods, t \in Topics : c = <<p, t>>
    BY DEF Deducting
  <2>2. cons[p][t].pc = "deduct" /\ cons[p][t].voucher = v
    BY <2>1 DEF Deducting
  <2>3. cons[p][t] # Idle
    BY <2>2 DEF Idle
  <2>4. /\ Current(p, t) \in Message /\ Claim(Current(p, t))
        /\ Current(p, t).voucher = v
    BY <2>2, <2>3, CurrentRouted DEF SaleInv
  <2>5. Current(p, t).user \in buyers[v]
    BY <2>4 DEF SaleInv, ClaimInv
  <2> QED  BY <1>1, <2>5
<1> QED  BY <1>1, <1>2, OrdersBounded

\* How the set of deducting loops follows one loop that moves.
Becomes(p, t, c) == cons' = [cons EXCEPT ![p][t] = c]

LEMMA DeductingMoves ==
    ASSUME TypeInv, NEW p \in Pods, NEW t \in Topics, NEW c, Becomes(p, t, c),
           NEW v \in Vouchers
    PROVE  /\ c.pc = "deduct" /\ c.voucher = v =>
                  Deducting(v)' = Deducting(v) \cup {<<p, t>>}
           /\ ~ (c.pc = "deduct" /\ c.voucher = v) =>
                  Deducting(v)' = Deducting(v) \ {<<p, t>>}
<1>1. /\ cons'[p][t] = c
      /\ \A q \in Pods, s \in Topics : <<q, s>> # <<p, t>> => cons'[q][s] = cons[q][s]
  BY DEF Becomes, TypeInv, TypeOK
<1>2. /\ <<p, t>> \in Deducting(v)' <=> c.pc = "deduct" /\ c.voucher = v
      /\ \A q \in Pods, s \in Topics : <<q, s>> # <<p, t>> =>
            (<<q, s>> \in Deducting(v)' <=> <<q, s>> \in Deducting(v))
  BY <1>1 DEF Deducting
<1>3. Deducting(v) \subseteq Pods \X Topics /\ Deducting(v)' \subseteq Pods \X Topics
  BY DEF Deducting
<1> QED  BY <1>2, <1>3

LEMMA BooksRun ==
    ASSUME TypeInv, BooksInv, NEW p \in Pods, NEW t \in Topics, Run(p, t),
           NEW v \in Vouchers, faults' = 0 => faults = 0
    PROVE  Untouched(v) \/ Inserted(v) \/ Deducted(v)
<1> DEFINE m == Current(p, t)
           w == cons[p][t].voucher
           c == <<p, t>>
<1>1. /\ cons \in [Pods -> [Topics -> {Idle} \cup Working]]
      /\ dbStock \in [Vouchers -> Nat]
      /\ c \in Pods \X Topics
  BY DEF TypeInv, TypeOK
<1>2. faults' = 0 => p \notin stopping
  BY DEF BooksInv
<1>3. c \in Deducting(v) <=> cons[p][t].pc = "deduct" /\ w = v
  BY <1>1 DEF Deducting
<1>4. ASSUME UNCHANGED <<dbStock, orders>>, cons[p][t].pc # "deduct",
             NEW d \in {Idle} \cup Working, d.pc # "deduct", Becomes(p, t, d)
      PROVE  Untouched(v)
  <2>1. Deducting(v)' = Deducting(v)
    BY <1>3, <1>4, DeductingMoves
  <2> QED  BY <1>4, <2>1 DEF Untouched, Orders
<1>5. ASSUME cons[p][t] # Idle, UNCHANGED <<dbStock, orders>>, cons[p][t].pc # "deduct",
             NEW pc \in {"insert", "dead", "commit"}, Move(p, t, pc) \/ Retry(p, t)
      PROVE  Untouched(v)
  <2>1. PICK d \in Working : d.pc # "deduct" /\ Becomes(p, t, d)
    BY <1>5, LoopMoves DEF Becomes
  <2> QED  BY <1>4, <1>5, <2>1
<1>6. cons[p][t] # Idle =>
        /\ m \in Message /\ w \in Vouchers /\ m.voucher = w
  BY CurrentRouted DEF BooksInv
<1>7. CASE \E x \in Vouchers : Fetch(p, t, x)
  <2>1. PICK x \in Vouchers : Fetch(p, t, x)
    BY <1>7
  <2>2. PICK d : d = [pc |-> "insert", voucher |-> x, at |-> position[t][x] + 1, tries |-> 0]
    OBVIOUS
  <2>3. d.pc # "deduct" /\ Becomes(p, t, d) /\ cons[p][t].pc # "deduct"
    BY <2>1, <2>2 DEF Fetch, At, Becomes
  <2>4. Deducting(v)' = Deducting(v)
    BY <1>3, <2>3, DeductingMoves
  <2> QED  BY <2>1, <2>4 DEF Untouched, Orders, Fetch, sale
<1>8. CASE Commit(p, t) \/ CommitFails(p, t)
  BY <1>4, <1>8, LoopLabels DEF Commit, CommitFails, At, Becomes, sale
<1>9. CASE InsertOrder(p, t)
  <2>1. /\ cons[p][t] # Idle /\ cons[p][t].pc = "insert"
        /\ Move(p, t, "deduct") /\ UNCHANGED dbStock
        /\ orders' = orders \cup {m} /\ ~ OrderExists(m)
    BY <1>9, LoopLabels DEF InsertOrder, At
  <2>2. PICK d \in Working : d.voucher = w /\ d.pc \in {"deduct", "insert", "dead"}
                             /\ Becomes(p, t, d)
    BY <2>1, LoopMoves DEF Becomes
  <2>3. cons'[p][t].pc = "deduct"
    BY <1>1, <2>1, LoopLabels DEF Move
  <2>4. d.pc = "deduct"
    BY <1>1, <2>2, <2>3 DEF Becomes
  <2>5. m \notin Orders(v)
    BY <2>1 DEF OrderExists, Orders
  <2>6. CASE w = v
    <3>1. Orders(v)' = Orders(v) \cup {m}
      BY <1>6, <2>1, <2>6 DEF Orders
    <3>2. Deducting(v)' = Deducting(v) \cup {c} /\ c \notin Deducting(v)
      BY <1>3, <2>1, <2>2, <2>4, <2>6, DeductingMoves
    <3> QED  BY <1>1, <1>6, <2>1, <2>5, <3>1, <3>2 DEF Inserted
  <2>7. CASE w # v
    <3>1. Orders(v)' = Orders(v)
      BY <1>6, <2>1, <2>7 DEF Orders
    <3>2. Deducting(v)' = Deducting(v)
      <4>1. ~ (d.pc = "deduct" /\ d.voucher = v) /\ Becomes(p, t, d)
        BY <2>2, <2>7
      <4>2. c \notin Deducting(v)
        BY <1>3, <2>7
      <4> QED  BY <4>1, <4>2, DeductingMoves
    <3> QED  BY <2>1, <3>1, <3>2 DEF Untouched
  <2> QED  BY <2>6, <2>7
<1>10. CASE InsertFails(p, t)
  <2>1. /\ cons[p][t] # Idle /\ cons[p][t].pc = "insert"
        /\ Retry(p, t) /\ UNCHANGED dbStock
    BY <1>10, LoopLabels DEF InsertFails, At
  <2>2. PICK d \in Working : d.pc # "deduct" /\ Becomes(p, t, d)
    BY <2>1, LoopMoves DEF Becomes
  <2>3. Deducting(v)' = Deducting(v)
    BY <1>3, <2>1, <2>2, DeductingMoves
  <2>4. CASE UNCHANGED orders
    BY <2>1, <2>3, <2>4 DEF Untouched, Orders
  <2>5. CASE Fault /\ ~ OrderExists(m) /\ orders' = orders \cup {m}
    <3>1. faults' # 0
      BY <2>5 DEF Fault, TypeInv, TypeOK
    <3>2. m \notin Orders(v)
      BY <2>5 DEF OrderExists, Orders
    <3>3. CASE w = v
      <4>1. Orders(v)' = Orders(v) \cup {m}
        BY <1>6, <2>1, <2>5, <3>3 DEF Orders
      <4> QED  BY <1>6, <2>1, <2>3, <3>1, <3>2, <4>1 DEF Inserted
    <3>4. CASE w # v
      <4>1. Orders(v)' = Orders(v)
        BY <1>6, <2>1, <2>5, <3>4 DEF Orders
      <4> QED  BY <2>1, <2>3, <4>1 DEF Untouched
    <3> QED  BY <3>3, <3>4
  <2> QED  BY <1>10, <2>4, <2>5 DEF InsertFails, Fails
<1>11. CASE DeductStock(p, t) \/ DeductFails(p, t)
  <2>1. /\ cons[p][t] # Idle /\ cons[p][t].pc = "deduct" /\ UNCHANGED orders
        /\ Move(p, t, "commit") \/ Retry(p, t)
    BY <1>11, LoopLabels DEF DeductStock, DeductFails, At
  <2>2. PICK d \in Working : d.pc # "deduct" /\ Becomes(p, t, d)
    BY <2>1, LoopMoves DEF Becomes
  <2>3. Deducting(v)' = Deducting(v) \ {c}
    BY <2>2, DeductingMoves
  <2>4. Deduct(w) \/ (UNCHANGED dbStock /\ faults' # 0)
    <3>1. Fault => faults' # 0
      BY DEF Fault, TypeInv, TypeOK
    <3> QED  BY <1>2, <1>11, <3>1 DEF DeductStock, DeductFails, Fails
  <2>5. UNCHANGED Orders(v)
    BY <2>1 DEF Orders
  <2>6. CASE w = v
    <3>1. c \in Deducting(v)
      BY <1>3, <2>1, <2>6
    <3>2. \/ dbStock'[v] = IF dbStock[v] > 0 THEN dbStock[v] - 1 ELSE dbStock[v]
          \/ faults' # 0 /\ UNCHANGED dbStock[v]
      BY <1>1, <2>4, <2>6 DEF Deduct
    <3> QED  BY <2>3, <2>5, <3>1, <3>2 DEF Deducted
  <2>7. CASE w # v
    <3>1. UNCHANGED dbStock[v] /\ c \notin Deducting(v)
      BY <1>1, <1>3, <2>4, <2>7 DEF Deduct
    <3> QED  BY <2>3, <2>5, <3>1 DEF Untouched
  <2> QED  BY <2>6, <2>7
<1>12. CASE DuplicateOrder(p, t)
  BY <1>5, <1>12, LoopLabels DEF DuplicateOrder, At, sale
<1>13. CASE \/ t = "main" /\ (DeadLetter(p) \/ DeadLetterFails(p))
            \/ t = "dlt" /\ GiveUp(p)
  BY <1>5, <1>13, LoopLabels DEF DeadLetter, DeadLetterFails, GiveUp, At, sale
<1> QED  BY <1>7, <1>8, <1>9, <1>10, <1>11, <1>12, <1>13 DEF Run

\* The arithmetic of one step.
LEMMA BooksKept ==
    ASSUME SaleInv, SaleInv', RoutedInv, NEW v \in Vouchers, Books(v),
           faults' = 0 => faults = 0,
           published'[v] = "none" <=> published[v] = "none",
           Untouched(v) \/ Inserted(v) \/ Deducted(v)
    PROVE  Books(v)'
<1> DEFINE D  == Cardinality(Deducting(v))
           D1 == Cardinality(Deducting(v)')
           O  == Cardinality(Orders(v))
           O1 == Cardinality(Orders(v)')
<1>1. /\ IsFiniteSet(Deducting(v)) /\ IsFiniteSet(Orders(v)) /\ IsFiniteSet(Orders(v)')
      /\ D \in Nat /\ O \in Nat /\ O1 \in Nat
      /\ dbStock[v] \in Nat /\ dbStock'[v] \in Nat /\ Stock[v] \in Nat
      /\ O <= Stock[v]
  <2>1. /\ IsFiniteSet(Orders(v)) /\ O \in Nat /\ O <= Stock[v]
    BY OrdersBounded
  <2>2. IsFiniteSet(Orders(v)') /\ O1 \in Nat
    <3>1. \/ Orders(v)' = Orders(v) 
          \/ \E m \in Message : Orders(v)' = Orders(v) \cup {m}
      BY DEF Untouched, Inserted, Deducted
    <3> QED  BY <2>1, <3>1, FS_AddElement, FS_CardinalityType
  <2>3. IsFiniteSet(Deducting(v)) /\ D \in Nat
    BY FS_CardinalityType DEF Books
  <2> QED  BY <2>1, <2>2, <2>3, StockAssumption DEF SaleInv, TypeInv, TypeOK
<1>2. IsFiniteSet(Deducting(v)') /\ D1 \in Nat
  <2>1. \/ Deducting(v)' \subseteq Deducting(v)
        \/ \E c : Deducting(v)' = Deducting(v) \cup {c}
    BY DEF Untouched, Inserted, Deducted
  <2> QED  BY <1>1, <2>1, FS_AddElement, FS_Subset, FS_CardinalityType
<1>3. published[v] # "none" =>
        /\ dbStock[v] + O >= Stock[v] + D
        /\ faults = 0 => dbStock[v] + O = Stock[v] + D
  BY DEF Books
<1>4. CASE Untouched(v)
  <2>1. O1 = O /\ dbStock'[v] = dbStock[v] /\ D1 <= D /\ (faults' = 0 => D1 = D)
    BY <1>1, <1>4, FS_Subset DEF Untouched
  <2> QED  BY <1>1, <1>2, <1>3, <2>1 DEF Books
<1>5. CASE Inserted(v)
  <2>1. O1 = O + 1 /\ dbStock'[v] = dbStock[v]
    BY <1>1, <1>5, FS_AddElement DEF Inserted
  <2>2. D1 = D + 1 \/ (faults' # 0 /\ D1 = D)
    BY <1>1, <1>5, FS_AddElement DEF Inserted
  <2> QED  BY <1>1, <1>2, <1>3, <2>1, <2>2 DEF Books
<1>6. CASE Deducted(v)
  <2>1. O1 = O
    BY <1>6 DEF Deducted
  <2>2. D1 = D - 1 /\ D >= 1
    BY <1>1, <1>2, <1>6, FS_RemoveElement, FS_EmptySet DEF Deducted
  <2>3. \/ dbStock'[v] = IF dbStock[v] > 0 THEN dbStock[v] - 1 ELSE dbStock[v]
        \/ faults' # 0 /\ dbStock'[v] = dbStock[v]
    BY <1>6 DEF Deducted
  <2> HIDE DEF D, D1, O, O1
  <2>4. published[v] # "none" =>
          /\ dbStock'[v] + O1 >= Stock[v] + D1
          /\ faults' = 0 => dbStock'[v] + O1 = Stock[v] + D1
    BY <1>1, <1>2, <1>3, <2>1, <2>2, <2>3
  <2> QED  BY <1>2, <2>4 DEF Books, D1, O1
<1> QED  BY <1>4, <1>5, <1>6

LEMMA BooksOpened ==
    ASSUME SaleInv, RoutedInv, NEW v \in Vouchers, Opened(v)
    PROVE  Books(v)'
<1>1. Orders(v)' = {} /\ Deducting(v)' = {}
  BY NothingBeforeSale DEF Opened, Orders, Deducting
<1>2. dbStock'[v] = Stock[v] /\ Stock[v] \in Nat
  BY StockAssumption DEF Opened
<1> QED  BY <1>1, <1>2, FS_EmptySet DEF Books

LEMMA BooksStep ==
    ASSUME SaleInv, BooksInv, [Next]_vars
    PROVE  BooksInv'
<1>1. SaleInv' /\ RoutedInv' /\ TypeInv
  BY SaleStep, RoutedStep DEF SaleInv, BooksInv
<1>2. faults' = 0 => faults = 0 /\ stopping = {} /\ stopping' = {}
  <2>1. faults \in Nat
    BY DEF SaleInv, TypeInv, TypeOK
  <2>2. \/ faults' = faults + 1
        \/ faults' = faults /\ stopping' \subseteq stopping
    <3> USE DEF Fault, NoFault
    <3>1. CASE \E r \in Requests : SeckillVoucher(r)
      BY <3>1
      DEF SeckillVoucher, TakeNumber, TakeNumberFails, RunScript, ScriptFails, Publish,
          PublishTwice, PublishFails, RequestCut
    <3>2. CASE \E p \in Pods, t \in Topics : Run(p, t)
      BY <3>2
      DEF Run, Fetch, InsertOrder, DuplicateOrder, InsertFails, DeductStock, DeductFails,
          DeadLetter, DeadLetterFails, GiveUp, Commit, CommitFails, Fails
    <3> QED  BY <3>1, <3>2
      DEF Next, vars, PublishVoucher, SaveVoucher, PreloadStock, PreloadFails, Rebalance,
          Stop, Exit, Crash, Replace
  <2> QED  BY <2>1, <2>2 DEF BooksInv
<1>3. ASSUME NEW v \in Vouchers
      PROVE  Books(v)'
  <2>1. ASSUME published'[v] = "none" <=> published[v] = "none",
               Untouched(v) \/ Inserted(v) \/ Deducted(v)
        PROVE  Books(v)'
    BY <1>1, <1>2, <2>1, BooksKept DEF BooksInv
  <2>2. CASE \E w \in Vouchers : PublishVoucher(w)
    <3>1. PICK w \in Vouchers : PublishVoucher(w)
      BY <2>2
    <3>2. CASE SaveVoucher(w) /\ w = v
      <4>1. Opened(v)
        BY <1>1, <3>2 DEF SaveVoucher, Opened, TypeInv, TypeOK
      <4> QED  BY <4>1, BooksOpened DEF BooksInv
    <3>3. CASE ~ (SaveVoucher(w) /\ w = v)
      <4>1. /\ published'[v] = "none" <=> published[v] = "none"
            /\ UNCHANGED <<dbStock[v], orders, cons>>
        BY <1>1, <3>1, <3>3
        DEF PublishVoucher, SaveVoucher, PreloadStock, PreloadFails, TypeInv, TypeOK
      <4>2. Untouched(v)
        BY <4>1 DEF Untouched, Orders, Deducting
      <4> QED  BY <2>1, <4>1, <4>2
    <3> QED  BY <3>2, <3>3
  <2>3. CASE \E p \in Pods, t \in Topics : Run(p, t)
    <3>1. UNCHANGED published
      BY <2>3
      DEF Run, Fetch, InsertOrder, DuplicateOrder, InsertFails, DeductStock, DeductFails,
          DeadLetter, DeadLetterFails, GiveUp, Commit, CommitFails, sale
    <3> QED  BY <1>1, <1>2, <2>1, <2>3, <3>1, BooksRun
  <2>4. CASE UNCHANGED <<published, dbStock, orders, cons>>
    <3>1. Untouched(v)
      BY <2>4 DEF Untouched, Orders, Deducting
    <3> QED  BY <2>1, <2>4, <3>1
  <2>5. CASE \E p \in Pods : Exit(p) \/ Crash(p)
    <3>1. PICK p \in Pods : Exit(p) \/ Crash(p)
      BY <2>5
    <3>2. /\ UNCHANGED <<published, dbStock, orders>>
          /\ cons' = [cons EXCEPT ![p] = [t \in Topics |-> Idle]]
      BY <3>1 DEF Exit, Crash, Replace, sale
    <3>3. faults' # 0
      <4>1. Fault => faults' # 0
        BY <1>1 DEF Fault, TypeInv, TypeOK
      <4> QED  BY <1>2, <3>1, <4>1 DEF Exit, Crash
    <3>4. Deducting(v)' \subseteq Deducting(v)
      BY <1>1, <3>2, LoopLabels DEF Deducting, TypeInv, TypeOK
    <3>5. Untouched(v)
      BY <3>2, <3>3, <3>4 DEF Untouched, Orders
    <3> QED  BY <2>1, <3>2, <3>5
  <2>6. CASE \E r \in Requests : SeckillVoucher(r)
    BY <2>4, <2>6
    DEF SeckillVoucher, TakeNumber, TakeNumberFails, RunScript, ScriptFails, Publish,
        PublishTwice, PublishFails, RequestCut, sale
  <2> QED  BY <2>2, <2>3, <2>4, <2>5, <2>6 DEF Next, vars, Rebalance, Stop, sale
<1> QED  BY <1>1, <1>2, <1>3 DEF BooksInv

BooksSafe == SaleInv /\ BooksInv

LEMMA BooksInvariant == Spec => []BooksSafe
<1>1. Init => BooksSafe
  <2> SUFFICES ASSUME Init PROVE BooksSafe
    OBVIOUS
  <2>1. RoutedInv /\ stopping = {}
    BY DEF Init, RoutedInv
  <2>2. ASSUME NEW v \in Vouchers PROVE Books(v)
    <3>1. Deducting(v) = {} /\ published[v] = "none"
      BY DEF Init, Deducting, Idle
    <3> QED  BY <3>1, FS_EmptySet DEF Books
  <2> QED  BY <2>1, <2>2, SaleInit DEF BooksInv, BooksSafe
<1>2. BooksSafe /\ [Next]_vars => BooksSafe'
  BY SaleStep, BooksStep DEF BooksSafe
<1> QED  BY <1>1, <1>2, PTL DEF Spec

\* However often a message is delivered, retried or dead-lettered, MySQL never
\* gives more units than there are rows, less those still to be deducted.
THEOREM NeverDeductedTwice == Spec => []StockNeverDeductedTwice
<1>1. BooksSafe => StockNeverDeductedTwice
  BY DEF BooksSafe, BooksInv, Books, StockNeverDeductedTwice
<1> QED  BY <1>1, BooksInvariant, PTL

\* Until something fails for the first time, stock and rows add up exactly, and
\* the guard stock > 0 of the UPDATE never bites.
THEOREM BooksBalanceUntilFault == Spec => []BooksBalanceWithoutFaults
<1>1. BooksSafe => BooksBalanceWithoutFaults
  BY DEF BooksSafe, BooksInv, Books, BooksBalanceWithoutFaults
<1> QED  BY <1>1, BooksInvariant, PTL

=============================================================================
