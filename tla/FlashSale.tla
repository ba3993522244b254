------------------------------ MODULE FlashSale ------------------------------
(***************************************************************************)
(* What the flash sale promises its customers: once a voucher is on sale,  *)
(* each user may reserve it once while stock lasts, and only a reservation *)
(* turns into an order, once.                                              *)
(***************************************************************************)
EXTENDS Naturals, FiniteSets

CONSTANTS Users, Vouchers, Stock

VARIABLES
    open,       \* vouchers on sale
    reserved,   \* [Vouchers -> users that hold a reservation]
    fulfilled   \* [Vouchers -> users that have their order]

vars == <<open, reserved, fulfilled>>

Init ==
    /\ open = {}
    /\ reserved = [v \in Vouchers |-> {}]
    /\ fulfilled = [v \in Vouchers |-> {}]

Open(v) ==
    /\ v \notin open
    /\ open' = open \cup {v}
    /\ UNCHANGED <<reserved, fulfilled>>

Reserve(u, v) ==
    /\ v \in open
    /\ u \notin reserved[v]
    /\ Cardinality(reserved[v]) < Stock[v]
    /\ reserved' = [reserved EXCEPT ![v] = @ \cup {u}]
    /\ UNCHANGED <<open, fulfilled>>

Fulfil(u, v) ==
    /\ u \in reserved[v] \ fulfilled[v]
    /\ fulfilled' = [fulfilled EXCEPT ![v] = @ \cup {u}]
    /\ UNCHANGED <<open, reserved>>

Next ==
    \E v \in Vouchers :
        \/ Open(v)
        \/ \E u \in Users : Reserve(u, v) \/ Fulfil(u, v)

Spec == Init /\ [][Next]_vars

=============================================================================
