---------------------------- MODULE LinearModels ----------------------------
(* index/models.rs and index/rmi.rs.  A model is <<m, b, d>>, the line       *)
(* x |-> (m x + b) / d with d > 0, and a value a fraction <<n, d>>: least    *)
(* squares over integers stays exact, the code rounds to f64.                *)
EXTENDS SearchKernels

NoModel == <<0, 0, 0>>
Predict(model, x) == <<model[1] * x[1] + model[2] * x[2], model[3] * x[2]>>
Whole(n) == <<n, 1>>
Truncated(q) == IF q[1] < 0 THEN 0 ELSE q[1] \div q[2]     \* `as usize`

SumOver(n, F(_)) == FoldLeft(LAMBDA s, i : s + F(i), 0, [i \in 1..n |-> i])

\* NoModel for fewer than two points, unequal lengths or one x only.
Fit(xs, ys) ==
  LET n == Len(xs)
      sx == SumOver(n, LAMBDA i : xs[i])
      sy == SumOver(n, LAMBDA i : ys[i])
      cov == n * SumOver(n, LAMBDA i : xs[i] * ys[i]) - sx * sy
      dev == n * SumOver(n, LAMBDA i : xs[i] * xs[i]) - sx * sx
  IN IF n < 2 \/ n # Len(ys) \/ dev = 0 THEN NoModel
     ELSE <<cov * n, sy * dev - cov * sx, dev * n>>

\* A stage of the recursive index routes by its first model.
Route(stage, q) ==
  IF stage = <<>> THEN 0 ELSE Min({Truncated(Predict(stage[1], q)), Len(stage) - 1})

RmiSearch(stages, n, key) ==
  LET Next(q, stage) == LET i == Route(stage, q)
                        IN IF i < Len(stage) THEN Predict(At(stage, i), Whole(key)) ELSE q
  IN Min({Truncated(FoldLeft(Next, Whole(key), stages)), Max({n - 1, 0})})

\* The window stops short of predicted + bound: the end is exclusive here.
FindExact(stages, keys, key, bound) ==
  LET predicted == RmiSearch(stages, Len(keys), key)
      hits == {p \in Max({predicted - bound, 0})..Min({predicted + bound, Len(keys)})-1 :
                 At(keys, p) = key}
  IN IF hits = {} THEN {Absent} ELSE hits
=============================================================================
