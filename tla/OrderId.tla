------------------------------ MODULE OrderId ------------------------------
(***************************************************************************)
(* NextOrderId of internal/service/seckill.go: one reading of the clock    *)
(* gives the seconds and the key of the day, INCR of that key gives the    *)
(* count, and the number is seconds * 2^32 + count modulo 2^32.  Calls run *)
(* on several pods, whose clocks need not agree and may be set back.       *)
(***************************************************************************)
EXTENDS Integers

CONSTANTS
    Orders,     \* calls, each for one order
    Seconds,    \* what a clock may show
    Days,       \* keys of a day
    DayOf,      \* the day of a second: the zone is the same on every pod
    W           \* 2^32

ASSUME DayOfAssumption == DayOf \in [Seconds -> Days]
ASSUME SecondsAssumption == Seconds \subseteq Nat /\ Seconds # {}
ASSUME WAssumption == W \in Nat \ {0}

VARIABLES
    counter,   \* [Days -> value of icr:order:{day}]
    number     \* [Orders -> the call: its seconds, its count, its number]

orderIdVars == <<counter, number>>

NumberState == [pc : {"idle", "read", "count", "done"}, sec : Seconds, count : Nat, id : Nat]

OrderIdTypeOK ==
    /\ counter \in [Days -> Nat]
    /\ number \in [Orders -> NumberState]

OrderIdInit ==
    /\ counter = [d \in Days |-> 0]
    /\ number = [o \in Orders |-> [pc |-> "idle", sec |-> CHOOSE s \in Seconds : TRUE,
                                   count |-> 0, id |-> 0]]

ReadClock(o) ==
    /\ number[o].pc = "idle"
    /\ \E s \in Seconds : number' = [number EXCEPT ![o].pc = "read", ![o].sec = s]
    /\ UNCHANGED counter

\* Mutant: the day is taken from the clock again.
IncrAgain(o) ==
    \E s \in Seconds :
        /\ s >= number[o].sec
        /\ number[o].pc = "read"
        /\ counter[DayOf[s]] + 1 < W
        /\ counter' = [counter EXCEPT ![DayOf[s]] = @ + 1]
        /\ number' = [number EXCEPT ![o].pc = "count", ![o].count = counter[DayOf[s]] + 1]

\* INCR.  A day has fewer than W orders.
Incr(o) ==
    LET d == DayOf[number[o].sec]
    IN  /\ number[o].pc = "read"
        /\ counter[d] + 1 < W
        /\ counter' = [counter EXCEPT ![d] = @ + 1]
        /\ number' = [number EXCEPT ![o].pc = "count", ![o].count = counter[d] + 1]

Compose(o) ==
    /\ number[o].pc = "count"
    /\ number' = [number EXCEPT ![o].pc = "done",
                                ![o].id = number[o].sec * W + (number[o].count % W)]
    /\ UNCHANGED counter

OrderIdNext == \E o \in Orders : ReadClock(o) \/ Incr(o) \/ Compose(o)

OrderIdSpec == OrderIdInit /\ [][OrderIdNext]_orderIdVars

-----------------------------------------------------------------------------
\* No two orders get the same number, whatever the clocks of the pods show and
\* in whatever order the calls read clock and counter: equal seconds mean the
\* same key, so the counts differ, and no count reaches into the seconds.
UniqueIds ==
    \A o, p \in Orders :
        o # p /\ number[o].pc = "done" /\ number[p].pc = "done" => number[o].id # number[p].id

=============================================================================
