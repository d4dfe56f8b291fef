----------------------------- MODULE Relational ------------------------------
(* The operators a plan node runs on rows already in memory: the joins of    *)
(* execution/executor.rs, the aggregates of execution/aggregate.rs, sorting, *)
(* DISTINCT and LIMIT.  Rows are sequences of values, tables sequences of    *)
(* rows; an item of a SELECT list or a call in HAVING is [f, arg].           *)
EXTENDS Planner

Repeat(x, n) == [i \in 1..n |-> x]
Error(what)  == [ok |-> FALSE, tokens |-> <<>>, what |-> what]

(* --------------------------------- Joins --------------------------------- *)
Qualified(schema, prefix) == [i \in DOMAIN schema |->
  Column(IF prefix = "" THEN schema[i].name ELSE <<prefix, schema[i].name[2]>>, schema[i].type, FALSE)]

\* The left schema is qualified only while it is still a single table.
MergeSchemas(left, prefix, right, rightPrefix) == Qualified(left, prefix) \o Qualified(right, rightPrefix)

Equi(left, i, prefix, right, j, rightPrefix) ==
  <<Col(Qualified(left, prefix)[i].name), Sym("="), Col(Qualified(right, rightPrefix)[j].name)>>

\* JOIN ... USING (c): the columns of that base name; one column only.
ResolveUsing(cols, left, prefix, right, rightPrefix) ==
  LET i == {k \in DOMAIN left : left[k].name[2] = cols[1]}
      j == {k \in DOMAIN right : right[k].name[2] = cols[1]}
  IN IF Len(cols) # 1 \/ i = {} \/ j = {} THEN Error("USING")
     ELSE [ok |-> TRUE, tokens |-> Equi(left, Min(i), prefix, right, Min(j), rightPrefix), what |-> ""]

\* NATURAL: a cross join without a shared column, an error with two.
ResolveNatural(left, prefix, right, rightPrefix) ==
  LET shared == {p \in (DOMAIN left) \X (DOMAIN right) : left[p[1]].name[2] = right[p[2]].name[2]}
      p == CHOOSE x \in shared : TRUE
  IN CASE shared = {} -> [ok |-> TRUE, tokens |-> <<>>, what |-> ""]
       [] Cardinality(shared) = 1 ->
            [ok |-> TRUE, tokens |-> Equi(left, p[1], prefix, right, p[2], rightPrefix), what |-> ""]
       [] OTHER -> Error("NATURAL")

JoinCondition(join, left, prefix, right, rightPrefix) ==
  CASE join.equi = <<"natural">> -> ResolveNatural(left, prefix, right, rightPrefix)
    [] join.equi # <<>> /\ join.equi # <<"natural">> ->
         ResolveUsing(join.equi, left, prefix, right, rightPrefix)
    [] OTHER -> [ok |-> TRUE, tokens |-> join.cond, what |-> ""]

AppendUnmatched_LeftOnly(pairs, kind, l, r, lw, rw) ==
  [k \in DOMAIN pairs |-> l[pairs[k][1]] \o r[pairs[k][2]]]
  \o (IF kind \in {"Left", "FullOuter"}
      THEN [k \in DOMAIN SelectSeq([i \in DOMAIN l |-> i], LAMBDA i : \A p \in ToSet(pairs) : p[1] # i) |->
              l[SelectSeq([i \in DOMAIN l |-> i], LAMBDA i : \A p \in ToSet(pairs) : p[1] # i)[k]] \o Repeat(NullValue, rw)]
      ELSE <<>>)

\* The matched pairs in order, then the rows an outer join must not lose.
AppendUnmatched(pairs, kind, l, r, lw, rw) ==
  LET Lost(rows, side) == SelectSeq([i \in DOMAIN rows |-> i],
                                    LAMBDA i : \A p \in ToSet(pairs) : p[side] # i)
  IN [k \in DOMAIN pairs |-> l[pairs[k][1]] \o r[pairs[k][2]]]
     \o (IF kind \notin {"Left", "FullOuter"} THEN <<>>
         ELSE [k \in DOMAIN Lost(l, 1) |-> l[Lost(l, 1)[k]] \o Repeat(NullValue, rw)])
     \o (IF kind \notin {"Right", "FullOuter"} THEN <<>>
         ELSE [k \in DOMAIN Lost(r, 2) |-> Repeat(NullValue, lw) \o r[Lost(r, 2)[k]]])

Pairs(outer, inner, Match(_, _)) ==
  FlattenSeq([o \in 1..outer |-> SelectSeq([i \in 1..inner |-> <<o, i>>], LAMBDA p : Match(p[1], p[2]))])
Swapped(pairs) == [k \in DOMAIN pairs |-> <<pairs[k][2], pairs[k][1]>>]

\* Build on the smaller side, probe with the larger; a NULL key matches nothing.
HashJoin(l, i, r, j, kind, lw, rw) ==
  LET Same(a, b) == ~IsNull(l[a][i]) /\ JoinHashKey(l[a][i]) = JoinHashKey(r[b][j])
      pairs == IF Len(l) <= Len(r) THEN Swapped(Pairs(Len(r), Len(l), LAMBDA b, a : Same(a, b)))
               ELSE Pairs(Len(l), Len(r), Same)
  IN AppendUnmatched(pairs, kind, l, r, lw, rw)

\* compiled is Reject for a join without a condition.
NestedLoop(l, r, compiled, kind, lw, rw) ==
  AppendUnmatched(Pairs(Len(l), Len(r), LAMBDA a, b : ~compiled.ok \/ EvalSplit(compiled, l[a], lw, r[b])),
                  kind, l, r, lw, rw)

(* ------------------------------- Aggregates ------------------------------ *)
SumOf(halves) == FoldLeft(LAMBDA s, h : s + h, 0, halves)

\* COUNT is an Integer, the others Floats over the numbers of the column.
ComputeAggregate(item, schema, rows) ==
  LET at      == Position(schema, item.arg)
      values  == [k \in DOMAIN rows |-> rows[k][at]]
      numbers == LET ns == SelectSeq(values, IsNumber) IN [k \in DOMAIN ns |-> AsHalves(ns[k])]
  IN CASE item.f = "COUNT" /\ item.arg = NoName -> IntVal(Len(rows))
       [] item.f = "COUNT" /\ item.arg # NoName ->
            IF at = 0 THEN NullValue ELSE IntVal(Len(SelectSeq(values, LAMBDA x : ~IsNull(x))))
       [] item.f # "COUNT" -> IF at = 0 \/ numbers = <<>> THEN NullValue
            ELSE FloatVal(CASE item.f = "SUM" -> SumOf(numbers)
                            [] item.f = "AVG" -> Quotient(SumOf(numbers), Len(numbers))
                            [] item.f = "MIN" -> Min(ToSet(numbers))
                            [] item.f = "MAX" -> Max(ToSet(numbers)))

\* Groups in the order of their first row.
GroupBy(rows, at) ==
  LET Key(row) == [k \in DOMAIN at |-> row[at[k]]]
      keys == FoldLeft(LAMBDA ks, row : IF Key(row) \in ToSet(ks) THEN ks ELSE Append(ks, Key(row)), <<>>, rows)
  IN IF at = <<>> THEN <<[key |-> <<>>, rows |-> rows]>>
     ELSE [k \in DOMAIN keys |-> [key |-> keys[k], rows |-> SelectSeq(rows, LAMBDA row : Key(row) = keys[k])]]

\* extract_calls: every call becomes a column of a synthetic schema.
CallName(i) == <<"__having_agg", ToString(i)>>
CallOf(t) == [f |-> t.n[1], arg |-> Tail(t.n)]
Calls(ts) == SelectSeq(ts, LAMBDA t : t.k = "call")
RewriteCalls(ts) ==
  [i \in DOMAIN ts |-> IF ts[i].k # "call" THEN ts[i]
                       ELSE Col(CallName(Len(Calls(SubSeq(ts, 1, i)))))]
SynthSchema(schema, group, calls) ==
  [k \in DOMAIN group |-> schema[Position(schema, group[k])]]
  \o [k \in DOMAIN calls |-> Column(CallName(k), IF CallOf(calls[k]).f = "COUNT" THEN "Integer" ELSE "Float", FALSE)]

\* One row per group that satisfies HAVING (Reject for none).
AggregateRows(columns, group, schema, rows, compiled, calls) ==
  LET at     == [k \in DOMAIN group |-> Position(schema, group[k])]
      Synth(g)  == g.key \o [k \in DOMAIN calls |-> ComputeAggregate(CallOf(calls[k]), schema, g.rows)]
      Kept   == SelectSeq(GroupBy(rows, at), LAMBDA g : ~compiled.ok \/ Eval(compiled, Synth(g)))
      Item(c, g) == IF c.f = "" THEN g.key[Min({k \in DOMAIN group : group[k] = c.arg})]
                    ELSE ComputeAggregate(c, schema, g.rows)
  IN [k \in DOMAIN Kept |-> [c \in DOMAIN columns |-> Item(columns[c], Kept[k])]]

(* ------------------------- Sort, DISTINCT, LIMIT ------------------------- *)
Infinity == 1000000
\* The distances of one-component vectors under <=>, <-> and <#>, times two.
Distance(metric, x, target) ==
  CASE metric = "<->" -> 2 * (x - target) * (x - target)
    [] metric = "<#>" -> 2 * (0 - x * target)
    [] metric = "<=>" -> IF x = 0 \/ target = 0 THEN 2 ELSE IF (x > 0) = (target > 0) THEN 0 ELSE 4

\* The order of two rows under the resolved keys [at, metric, target, asc].
Before(a, b, keys) ==
  LET Far(x, k) == IF x.t = "Vector" THEN Distance(k.metric, x.v, k.target) ELSE Infinity
      Sign(k) == LET d == IF k.metric = "" THEN CompareForSort(a[k.at], b[k.at])
                          ELSE Far(a[k.at], k) - Far(b[k.at], k)
                 IN IF k.asc THEN d ELSE 0 - d
      differ == {i \in DOMAIN keys : Sign(keys[i]) # 0}
  IN differ # {} /\ Sign(keys[Min(differ)]) < 0

\* sort_by is stable: rows that compare equal keep their order.
SortRows(rows, keys) ==
  LET Place(i) == Cardinality({j \in DOMAIN rows : \/ Before(rows[j], rows[i], keys)
                                                   \/ ~Before(rows[i], rows[j], keys) /\ j <= i})
  IN [p \in DOMAIN rows |-> rows[CHOOSE i \in DOMAIN rows : Place(i) = p]]

\* The first of the rows that are equal value by value.
FirstOfEach(rows) == SelectSeq([i \in DOMAIN rows |-> i], LAMBDA i : \A j \in 1..(i - 1) : rows[j] # rows[i])
DistinctRows(rows) == LET first == FirstOfEach(rows) IN [k \in DOMAIN first |-> rows[first[k]]]

LimitRows(rows, limit, offset) ==
  LET skipped == SubSeq(rows, offset + 1, Len(rows))
  IN IF limit = Unlimited THEN skipped ELSE SubSeq(skipped, 1, Min({limit, Len(skipped)}))
=============================================================================
