---------------------------- MODULE MCOLTPEngine -----------------------------
(* Instances of OLTPEngine for TLC.  A transaction is begun once, so the
   clock never passes the number of transactions: MaxTs = Cardinality(Tx)
   bounds nothing that could happen. *)
EXTENDS OLTPEngine, TLC

Symmetry == Permutations(Tx) \cup Permutations(Row) \cup Permutations(Data)
==============================================================================
