----------------------------- MODULE MCRetention -----------------------------
(* Two rows with different bootstrap intervals; the sample counts that gate  *)
(* the fit are scaled down from 30, 20 and 200.                              *)
EXTENDS Retention, TLC
CONSTANTS a, b
Symmetry == Permutations(Writers)
MCBootstrap == (a :> 2) @@ (b :> 3)
Insert(r) == [kind |-> "insert", row |-> r]
Update(r) == [kind |-> "update", row |-> r]
Delete(r) == [kind |-> "delete", row |-> r]
MCWriteSets == {<<Insert(a), Update(b)>>, <<Update(a), Update(a)>>, <<Insert(b)>>, <<Delete(b), Insert(a)>>}
=============================================================================
