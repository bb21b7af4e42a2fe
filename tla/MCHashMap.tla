------------------------------ MODULE MCHashMap ------------------------------
(* Small instances of HashMap for TLC. The hashes make keys collide at each *)
(* capacity, and make walks go round the end of the array.                  *)
EXTENDS HashMapRefinement, TLC

CONSTANTS k1, k2, k3, k4, k5

\* Modulo 2: 1 0 1 1 0. Modulo 4: 3 2 3 3 2. Modulo 8: 7 6 3 7 6.
Colliding ==
  [k \in Key |-> (k1 :> 7 @@ k2 :> 6 @@ k3 :> 3 @@ k4 :> 15 @@ k5 :> 14)[k]]

UnitSteps == {1, -1}
=============================================================================
