------------------------------ MODULE MCIngest ------------------------------
(* Small instances of Ingest for TLC. *)
EXTENDS Ingest

CONSTANTS d1, d2, k1, p1, p2

Sizes == [d \in Docs |-> IF d = d1 THEN 2 ELSE 1]

\* Pods are interchangeable: d1 goes to p1, d2 to the same or to the other.
MCInit == Init /\ pod[d1] = p1
MCSpec == MCInit /\ [][Next]_vars /\ Fairness

=============================================================================
