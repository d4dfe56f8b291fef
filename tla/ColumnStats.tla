----------------------------- MODULE ColumnStats -----------------------------
(* optimizer/cardinality.rs: what ANALYZE keeps of a column and how a WHERE  *)
(* comparison is estimated from it.  Values are integers, a selectivity is a *)
(* fraction <<n, d>>; an empty set stands for None.                          *)
EXTENDS PGMIndex

DistinctCount(values) == Max({Cardinality(ToSet(values)), 1})

BuildNumeric(values, eps) ==
  [kind |-> "Numeric", model |-> Build(Sorted(values), eps),
   total_rows |-> Len(values), distinct_count |-> DistinctCount(values)]

BuildCategorical(values) ==
  [kind |-> "Categorical", model |-> Build(<<>>, 0),
   total_rows |-> Len(values), distinct_count |-> DistinctCount(values)]

EqualitySelectivity(dist, op) ==
  CASE op = "="          -> {<<1, dist.distinct_count>>}
    [] op \in {"!=", "<>"} -> {<<dist.distinct_count - 1, dist.distinct_count>>}
    [] OTHER             -> {}

EstimateSelectivity_StrictMixup(dist, op, v) ==
  LET n  == dist.total_rows
      lt == Cardinality({i \in DOMAIN dist.model.keys : dist.model.keys[i] < v})
  IN CASE op \in {"=", "!=", "<>"} -> EqualitySelectivity(dist, op)
       [] op \in {"<=", "<"}       -> {<<lt, n>>}
       [] OTHER                    -> {<<n - r, n>> : r \in PredictedRanks(dist.model, v)}

EstimateSelectivity(dist, op, v) ==
  LET n     == dist.total_rows
      le    == PredictedRanks(dist.model, v)
      lt    == Cardinality({i \in DOMAIN dist.model.keys : dist.model.keys[i] < v})
  IN IF dist.kind = "Categorical" \/ op \in {"=", "!=", "<>"}
     THEN IF dist.kind = "Numeric" /\ n = 0 THEN {<<1, 1>>} ELSE EqualitySelectivity(dist, op)
     ELSE CASE n = 0 -> {<<1, 1>>}
            [] n > 0 /\ op = "<=" -> {<<r, n>> : r \in le}
            [] n > 0 /\ op = ">"  -> {<<n - r, n>> : r \in le}
            [] n > 0 /\ op = "<"  -> {<<lt, n>>}
            [] n > 0 /\ op = ">=" -> {<<n - lt, n>>}
            [] OTHER -> {}

EstimateRowCount(dist, op, v, rows) ==
  {(rows * s[1]) \div s[2] : s \in EstimateSelectivity(dist, op, v)}
=============================================================================
