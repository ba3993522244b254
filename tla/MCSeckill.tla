------------------------------ MODULE MCSeckill ------------------------------
(* Small instances of Seckill for TLC. *)
EXTENDS Seckill

CONSTANTS u1, u2, u3, v1, r1, r2, r3, p1, p2

OneUnit  == [v \in Vouchers |-> 1]
TwoUnits == [v \in Vouchers |-> 2]

=============================================================================
