------------------------------- MODULE MCShop -------------------------------
(* Small instances of Shop for TLC. *)
EXTENDS Shop, TLC

CONSTANTS s1, s2, t1, t2, x1, x2, c1, c2, c3

Symmetry == Permutations(Shops \ Imported) \cup Permutations(Imported)
            \cup Permutations(Types) \cup Permutations(Places) \cup Permutations(Calls)

\* Where a shop was saved is called x1: only the place it moves to differs.
\* It stands for the symmetry a run with liveness must do without.
NamedNext ==
    /\ Next
    /\ \A s \in Shops : row[s] = Blank => row'[s] = Blank \/ row'[s].place = x1

NamedSpec == Init /\ [][NamedNext]_vars /\ Fairness

=============================================================================
