------------------------------- MODULE MCHNSW --------------------------------
(* Points of a Golomb ruler: all their distances differ.                     *)
EXTENDS HNSW, TLC
SmallVectors == (1 :> {0}) @@ (2 :> {1}) @@ (3 :> {4}) @@ (4 :> {11})
SmallLevels == [id \in 1..4 |-> IF id = 1 THEN {0, 1} ELSE {1}]
Symmetry == Permutations(Threads)
=============================================================================
