-------------------------------- MODULE Shop --------------------------------
(***************************************************************************)
(* Shops: the rows of tb_shop, the detail cache with its logical expiry    *)
(* and asynchronous rebuild, and the GEO index with its lazy backfill.     *)
(*                                                                         *)
(* internal/service/shop.go                                                *)
(*                                                                         *)
(* A call is a handler with the goroutine it may leave behind; each step   *)
(* is one MySQL or Redis call.  Reads that only answer are left out.  A    *)
(* failed or cut call spends one unit of the fault budget MaxFaults.       *)
(***************************************************************************)
EXTENDS Integers, FiniteSets

CONSTANTS
    Shops,      \* shop ids
    Types,      \* shop types
    Places,     \* positions; they stand for the rest of a row too
    Absent,     \* a field that is not there
    Imported,   \* shops db/hmdp.sql or an older version stored
    Calls,      \* handlers that run at the same time
    MaxWrites,  \* bound: shops saved or updated in one behaviour
    MaxFaults   \* bound: failures in one behaviour

ASSUME AbsentAssumption == Absent \notin Types \cup Places
ASSUME CallsAssumption == IsFiniteSet(Calls)
ASSUME ImportedAssumption == Imported \subseteq Shops
ASSUME BoundsAssumption == MaxWrites \in Nat /\ MaxFaults \in Nat

VARIABLES
    row,        \* tb_shop, Blank while there is no row
    cache,      \* cache:shop:{id}
    lock,       \* lock:shop:{id}
    geo,        \* shop:geo:{typeId}: where it places each shop
    call,       \* [Calls -> what the call is about to do]
    overlapped, \* observation: shops a writer shared with another call
    slow,       \* observation: rebuilds of each shop that outlived their lock
    writes,     \* shops saved or updated so far
    faults      \* failures so far

stores == <<row, cache, lock, geo>>
vars   == <<stores, call, overlapped, slow, writes, faults>>

Fields == [type : Types \cup {Absent}, place : Places \cup {Absent}]
Row    == [type : Types, place : Places]
Blank  == [type |-> Absent, place |-> Absent]

\* The null marker is the empty string with a TTL.
Entry(state, shop) == [state |-> state, shop |-> shop]
Missing == Entry("none", Blank)
Entries == {Missing, Entry("null", Blank)} \cup
           [state : {"fresh", "expired"}, shop : Row]

Idle    == [pc |-> "idle"]
Reading == [pc : {"lock", "rebuild", "refill", "unlock", "load", "fill", "null"},
            shop : Shops, has : Fields]
Writing == [pc : {"store", "update", "evict", "unlist", "list"},
            shop : Shops, old : Fields, new : Fields]
Filling == [pc : {"scan", "backfill"}, type : Types, todo : SUBSET (Shops \X Places)]

TypeOK ==
    /\ row \in [Shops -> Row \cup {Blank}]
    /\ cache \in [Shops -> Entries]
    /\ lock \in [Shops -> BOOLEAN]
    /\ geo \in [Types -> [Shops -> Places \cup {Absent}]]
    /\ call \in [Calls -> {Idle} \cup Reading \cup Writing \cup Filling]
    /\ overlapped \subseteq Shops
    /\ slow \in [Shops -> Nat]
    /\ writes \in 0..MaxWrites
    /\ faults \in 0..MaxFaults

Init ==
    /\ row \in {f \in [Shops -> Row \cup {Blank}] :
                    \A s \in Shops : f[s] # Blank <=> s \in Imported}
    /\ cache = [s \in Shops |-> Missing]
    /\ lock = [s \in Shops |-> FALSE]
    /\ geo = [t \in Types |-> [s \in Shops |-> Absent]]
    /\ call = [c \in Calls |-> Idle]
    /\ overlapped = {}
    /\ slow = [s \in Shops |-> 0]
    /\ writes = 0
    /\ faults = 0

Spend   == faults < MaxFaults /\ faults' = faults + 1
Fault   == Spend /\ UNCHANGED slow
NoFault == UNCHANGED <<faults, slow>>
Write   == writes < MaxWrites /\ writes' = writes + 1

\* A Redis write whose error nobody looks at.
Try(effect, unchanged) == (NoFault /\ effect) \/ (Fault /\ unchanged)

At(c, pc)   == call[c].pc = pc
Goto(c, pc) == call' = [call EXCEPT ![c].pc = pc]
Done(c)     == call' = [call EXCEPT ![c] = Idle]
Begin(c, r) == call[c] = Idle /\ call' = [call EXCEPT ![c] = r]
Subject(c)  == call[c].shop

SetCache(s, e) == cache' = [cache EXCEPT ![s] = e]

-----------------------------------------------------------------------------
(* QueryShopById and rebuildShopCacheAsync.  A hit that is fresh or the    *)
(* null marker answers and changes nothing.                                *)

Read(s, pc) == [pc |-> pc, shop |-> s, has |-> Blank]

GetDetail(c, s) ==
    /\ \/ cache[s].state = "expired" /\ Begin(c, Read(s, "lock")) /\ NoFault
       \/ cache[s].state = "none" /\ Begin(c, Read(s, "load")) /\ NoFault
       \/ cache[s].state # "none" /\ Begin(c, Read(s, "load")) /\ Fault
    /\ UNCHANGED <<stores, writes>>

\* Mutant: who got an error goes on as if it had the lock.
LockShopAnyway(c) ==
    /\ At(c, "lock")
    /\ \/ ~ lock[Subject(c)] /\ lock' = [lock EXCEPT ![Subject(c)] = TRUE]
                             /\ Goto(c, "rebuild") /\ NoFault
       \/ lock[Subject(c)] /\ Done(c) /\ NoFault /\ UNCHANGED lock
       \/ Fault /\ Goto(c, "rebuild") /\ lock' \in {lock, [lock EXCEPT ![Subject(c)] = TRUE]}
    /\ UNCHANGED <<row, cache, geo, writes>>

\* SETNX lock:shop:{id} EX 10s; who does not get it has answered already.
LockShop(c) ==
    /\ At(c, "lock")
    /\ \/ ~ lock[Subject(c)] /\ lock' = [lock EXCEPT ![Subject(c)] = TRUE]
                             /\ Goto(c, "rebuild") /\ NoFault
       \/ lock[Subject(c)] /\ Done(c) /\ NoFault /\ UNCHANGED lock
       \/ Fault /\ Done(c) /\ lock' \in {lock, [lock EXCEPT ![Subject(c)] = TRUE]}
    /\ UNCHANGED <<row, cache, geo, writes>>

Reload(c) ==
    /\ At(c, "rebuild")
    /\ \/ row[Subject(c)] # Blank /\ NoFault
          /\ call' = [call EXCEPT ![c].pc = "refill", ![c].has = row[Subject(c)]]
       \/ Fault /\ Goto(c, "unlock")
    /\ UNCHANGED <<stores, writes>>

Refill(c) ==
    /\ At(c, "refill")
    /\ Try(SetCache(Subject(c), Entry("fresh", call[c].has)), UNCHANGED cache)
    /\ Goto(c, "unlock")
    /\ UNCHANGED <<row, lock, geo, writes>>

\* The deferred DEL, whoever holds the lock by now.
Unlock(c) ==
    /\ At(c, "unlock")
    /\ Try(lock' = [lock EXCEPT ![Subject(c)] = FALSE], UNCHANGED lock)
    /\ Done(c)
    /\ UNCHANGED <<row, cache, geo, writes>>

Load(c) ==
    /\ At(c, "load")
    /\ \/ row[Subject(c)] # Blank /\ NoFault
          /\ call' = [call EXCEPT ![c].pc = "fill", ![c].has = row[Subject(c)]]
       \/ row[Subject(c)] = Blank /\ NoFault /\ Goto(c, "null")
       \/ Fault /\ Done(c)
    /\ UNCHANGED <<stores, writes>>

Fill(c) ==
    /\ At(c, "fill")
    /\ Try(SetCache(Subject(c), Entry("fresh", call[c].has)), UNCHANGED cache)
    /\ Done(c)
    /\ UNCHANGED <<row, lock, geo, writes>>

MarkMissing(c) ==
    /\ At(c, "null")
    /\ Try(SetCache(Subject(c), Entry("null", Blank)), UNCHANGED cache)
    /\ Done(c)
    /\ UNCHANGED <<row, lock, geo, writes>>

-----------------------------------------------------------------------------
(* Time: half an hour of logical expiry, two minutes of null marker, ten   *)
(* seconds of lock.                                                        *)

Rebuilding(s) == {c \in Calls : /\ call[c].pc \in {"rebuild", "refill", "unlock"}
                                /\ Subject(c) = s}

Expire(s) ==
    /\ cache[s].state = "fresh"
    /\ SetCache(s, Entry("expired", cache[s].shop))
    /\ NoFault
    /\ UNCHANGED <<row, lock, geo, call, writes>>

\* Mutant: the null marker has no TTL.
NullStays(s) == FALSE

NullExpires(s) ==
    /\ cache[s].state = "null"
    /\ SetCache(s, Missing)
    /\ NoFault
    /\ UNCHANGED <<row, lock, geo, call, writes>>

LockExpires(s) ==
    /\ lock[s] /\ Rebuilding(s) = {}
    /\ lock' = [lock EXCEPT ![s] = FALSE]
    /\ NoFault
    /\ UNCHANGED <<row, cache, geo, call, writes>>

\* A rebuild that takes longer than its lock lives.
LockExpiresEarly(s) ==
    /\ lock[s] /\ Rebuilding(s) # {}
    /\ Spend /\ slow' = [slow EXCEPT ![s] = @ + 1]
    /\ lock' = [lock EXCEPT ![s] = FALSE]
    /\ UNCHANGED <<row, cache, geo, call, writes>>

-----------------------------------------------------------------------------
(* SaveShop and UpdateShop.                                                *)

WriteOf(s, pc, old, new) == [pc |-> pc, shop |-> s, old |-> old, new |-> new]

\* The INSERT fails with or without effect, or the call goes on to the cache.
SaveShop(c, s, r) ==
    /\ row[s] = Blank
    /\ Write
    /\ \/ /\ row' = [row EXCEPT ![s] = r]
          /\ Begin(c, WriteOf(s, "store", Blank, r)) /\ NoFault
       \/ /\ row' \in {row, [row EXCEPT ![s] = r]}
          /\ call[c] = Idle /\ UNCHANGED call /\ Fault
    /\ UNCHANGED <<cache, lock, geo>>

StoreDetail(c) ==
    /\ At(c, "store")
    /\ Try(SetCache(Subject(c), Entry("fresh", call[c].new)), UNCHANGED cache)
    /\ Goto(c, "list")
    /\ UNCHANGED <<row, lock, geo, writes>>

\* The error of the first SELECT is thrown away: old stays blank.
ReadOld(c, s, new) ==
    /\ Write
    /\ \/ Begin(c, WriteOf(s, "update", row[s], new)) /\ NoFault
       \/ Begin(c, WriteOf(s, "update", Blank, new)) /\ Fault
    /\ UNCHANGED stores

\* Mutant: fields that are not given are cleared.
MergeNothing(old, new) == new

\* The fields of new where they are given, else those of old.
Merge(old, new) ==
    [type  |-> IF new.type = Absent THEN old.type ELSE new.type,
     place |-> IF new.place = Absent THEN old.place ELSE new.place]

\* An UPDATE of a row that is not there changes nothing and is no error.
UpdateRow(c) ==
    LET s == Subject(c)
        updated == IF row[s] = Blank THEN row
                   ELSE [row EXCEPT ![s] = Merge(row[s], call[c].new)]
    IN  /\ At(c, "update")
        /\ \/ row' = updated /\ Goto(c, "evict") /\ NoFault
           \/ row' \in {row, updated} /\ Done(c) /\ Fault
        /\ UNCHANGED <<cache, lock, geo, writes>>

\* Mutant: the old type is not cleaned up.
MovesNever(c) == FALSE

\* The update takes the shop to another type.
Moves(c) == /\ Absent \notin {call[c].old.type, call[c].new.type}
            /\ call[c].old.type # call[c].new.type

\* Mutant: the cache entry survives the update.
EvictNot(c) ==
    /\ At(c, "evict")
    /\ NoFault
    /\ Goto(c, IF Moves(c) THEN "unlist" ELSE "list")
    /\ UNCHANGED <<stores, writes>>

Evict(c) ==
    /\ At(c, "evict")
    /\ Try(SetCache(Subject(c), Missing), UNCHANGED cache)
    /\ Goto(c, IF Moves(c) THEN "unlist" ELSE "list")
    /\ UNCHANGED <<row, lock, geo, writes>>

Unlist(c) ==
    /\ At(c, "unlist")
    /\ Try(geo' = [geo EXCEPT ![call[c].old.type][Subject(c)] = Absent], UNCHANGED geo)
    /\ Goto(c, "list")
    /\ UNCHANGED <<row, cache, lock, writes>>

\* geoAddShop; a shop without type or position is skipped.
GeoAdd(s, r) ==
    IF Absent \in {r.type, r.place} THEN UNCHANGED geo
    ELSE geo' = [geo EXCEPT ![r.type][s] = r.place]

\* What SaveShop was given, or UpdateShop's old row overlaid with it.
List(c) ==
    /\ At(c, "list")
    /\ Try(GeoAdd(Subject(c), Merge(call[c].old, call[c].new)), UNCHANGED geo)
    /\ Done(c)
    /\ UNCHANGED <<row, cache, lock, writes>>

-----------------------------------------------------------------------------
(* QueryShopByType with a position: backfillShopGeo, then a search.        *)

Listed(t) == {s \in Shops : geo[t][s] # Absent}

\* ZCARD; only an index that is empty, or that could not be asked, is filled.
Nearby(c, t) ==
    /\ Begin(c, [pc |-> "scan", type |-> t, todo |-> {}])
    /\ \/ Listed(t) = {} /\ NoFault
       \/ Listed(t) # {} /\ Fault
    /\ UNCHANGED <<stores, writes>>

Scan(c) ==
    LET found == {s \in Shops : row[s].type = call[c].type}
    IN  /\ At(c, "scan")
        /\ \/ found = {} /\ Done(c) /\ NoFault
           \/ /\ found # {}
              /\ call' = [call EXCEPT ![c].pc = "backfill",
                             ![c].todo = {<<s, row[s].place>> : s \in found}]
              /\ NoFault
           \/ Done(c) /\ Fault
        /\ UNCHANGED <<stores, writes>>

Backfill(c) ==
    /\ At(c, "backfill")
    /\ \E x \in call[c].todo :
          /\ Try(GeoAdd(x[1], [type |-> call[c].type, place |-> x[2]]), UNCHANGED geo)
          /\ IF call[c].todo = {x} THEN Done(c)
             ELSE call' = [call EXCEPT ![c].todo = @ \ {x}]
    /\ UNCHANGED <<row, cache, lock, writes>>

-----------------------------------------------------------------------------
\* A pod dies with its calls and goroutines.
Crash(dead) ==
    /\ dead # {} /\ \A c \in dead : call[c] # Idle
    /\ Fault
    /\ call' = [c \in Calls |-> IF c \in dead THEN Idle ELSE call[c]]
    /\ UNCHANGED <<stores, writes>>

Detail(c) ==
    LockShop(c) \/ Reload(c) \/ Refill(c) \/ Unlock(c) \/ Load(c) \/ Fill(c) \/ MarkMissing(c)
Change(c) ==
    StoreDetail(c) \/ UpdateRow(c) \/ Evict(c) \/ Unlist(c) \/ List(c)
Continue(c) ==
    Detail(c) \/ Change(c) \/ Scan(c) \/ Backfill(c)

\* Calls that hold or are to write something about shop s.
Touching(s) ==
    {c \in Calls : \/ call[c].pc \in {"scan", "backfill"} /\ \E x \in call[c].todo : x[1] = s
                   \/ call[c].pc \notin {"idle", "scan", "backfill"} /\ Subject(c) = s}
Writers(s) ==
    {c \in Touching(s) : call[c].pc \in {"store", "update", "evict", "unlist", "list", "backfill"}}

\* A writer is not alone with its shop, or updates a row it has not seen.
Entangled(s) ==
    \/ Writers(s) # {} /\ Cardinality(Touching(s)) > 1
    \/ \E c \in Writers(s) : call[c].pc = "update" /\ call[c].old = Blank

Step ==
    \/ \E c \in Calls : Continue(c)
    \/ \E c \in Calls, s \in Shops :
          \/ GetDetail(c, s)
          \/ \E r \in Row : SaveShop(c, s, r)
          \/ \E new \in Fields : ReadOld(c, s, new)
    \/ \E c \in Calls, t \in Types : Nearby(c, t)
    \/ \E s \in Shops : Expire(s) \/ NullExpires(s) \/ LockExpires(s) \/ LockExpiresEarly(s)
    \/ \E dead \in SUBSET Calls : Crash(dead)

Next ==
    /\ Step
    /\ overlapped' = overlapped \cup {s \in Shops : Entangled(s)'}

Spec == Init /\ [][Next]_vars

\* Handlers and goroutines go on, time passes, and somebody keeps asking for
\* the shop.
Watch(A) == A /\ overlapped' = overlapped \cup {s \in Shops : Entangled(s)'}
Fairness ==
    /\ \A c \in Calls : WF_vars(Watch(Continue(c)))
    /\ \A s \in Shops :
          /\ WF_vars(Watch(Expire(s))) /\ WF_vars(Watch(NullExpires(s)))
          /\ WF_vars(Watch(LockExpires(s)))
          /\ SF_vars(Watch(\E c \in Calls : GetDetail(c, s)))

FairSpec == Spec /\ Fairness

-----------------------------------------------------------------------------
(* What the caches promise.                                                *)

Agrees(s) ==
    /\ cache[s].state \in {"fresh", "expired"} => cache[s].shop = row[s]
    /\ cache[s].state = "null" => row[s] = Blank

\* While nothing has failed and no writer of the shop met another call, a
\* rested cache entry is the row: SaveShop stores it, UpdateShop removes it.
CacheAgrees ==
    \A s \in Shops :
        faults = 0 /\ s \notin overlapped /\ Touching(s) = {} => Agrees(s)

\* Under the same conditions the index places a shop where its row does, in
\* no other type, and misses it only if the row was there before the index.
GeoAgrees ==
    \A s \in Shops :
        faults = 0 /\ s \notin overlapped /\ Touching(s) = {} =>
            \A t \in Types :
                \/ t = row[s].type /\ geo[t][s] = row[s].place
                \/ geo[t][s] = Absent /\ (t = row[s].type => s \in Imported)

\* Who goes for the row and stores it: a rebuild before its deferred DEL.
Reloading(s) == {c \in Rebuilding(s) : call[c].pc # "unlock"}

\* Only the holder of lock:shop:{id} queries the row and rewrites the cache.
\* (openspec/changes/rewrite-backend-in-go/specs/shop/spec.md:26)
OneRebuild ==
    \A s \in Shops : Cardinality(Reloading(s)) <= 1

\* The lock of rebuildShopCacheAsync expires under a slow owner and is deleted
\* by whoever finishes, so the next two, and the ones after them, overlap too.
\* All the same they never pile up: each slow rebuild lets at most one more in
\* at a time, however many readers come, and no failure of a call, no crash and
\* no lock that was left behind lets in any.
FewRebuilds ==
    \A s \in Shops : Cardinality(Rebuilding(s)) <= 1 + slow[s]

\* Whatever updates, slow readers, failures and crashes did to an entry, it
\* is the row again some time after the last write, and stays it.
CacheHeals == \A s \in Shops : <>[]Agrees(s)

\* A search by position has every shop of the type to choose from.
NearbyComplete ==
    \A t \in Types :
        /\ faults = 0 /\ overlapped = {} /\ \A c \in Calls : call[c] = Idle
        /\ Listed(t) # {}
        => \A s \in Shops : row[s].type = t => s \in Listed(t)

=============================================================================
