---------------------------- MODULE MCLockManager ----------------------------
(* Instances of LockManager for TLC.  The specification is finite as it is:
   the constants are its only bounds. *)
EXTENDS LockManager, TLC

Symmetry == Permutations(Tx) \cup Permutations(Key)
==============================================================================
