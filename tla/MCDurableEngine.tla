--------------------------- MODULE MCDurableEngine ---------------------------
(* Instances of DurableEngine for TLC.  Crashes need no bound: a crash adds
   nothing to the file but at most the frame of one append. *)
EXTENDS DurableEngine

Symmetry == Permutations(Tx) \cup Permutations(Row) \cup Permutations(Data)
==============================================================================
