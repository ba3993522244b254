------------------------------- MODULE MCSale -------------------------------
(***************************************************************************)
(* The safety of Seckill on three instances, chosen in the first state: a  *)
(* crowd before two units, a user who asks twice, and two users whose      *)
(* calls meet as many faults as the configuration allows.                  *)
(***************************************************************************)
EXTENDS MCSeckill, TLC

VARIABLE part

\* Up to the names of users and calls, who makes the three calls of a crowd:
\* one user, two, three.
Crowds  == {<<u1, u1, u1>>, <<u1, u1, u2>>, <<u1, u2, u3>>}
Callers == [crowd |-> Crowds, again |-> {<<u1, u1>>}, faults |-> {<<u1, u2>>}]
Faults  == [crowd |-> 1, again |-> 2, faults |-> MaxFaults]

Caller == [i \in 1..3 |-> req[<<r1, r2, r3>>[i]].user]

PartInit ==
    /\ Init
    /\ part \in DOMAIN Callers
    /\ \E who \in Callers[part] : \A i \in DOMAIN who : Caller[i] = who[i]
    /\ part # "crowd" => Caller[3] = u3

\* The third call belongs to the crowd.
PartNext ==
    /\ UNCHANGED part
    /\ Next
    /\ faults' <= Faults[part]
    /\ part # "crowd" => req'[r3] = req[r3]

PartSpec == PartInit /\ [][PartNext]_<<vars, part>>

PartSymmetry ==
    Permutations({u1, u2}) \cup Permutations({r1, r2}) \cup Permutations(Pods)

=============================================================================
