------------------------------- MODULE Planner -------------------------------
(* optimizer/planner.rs: the plan of a SELECT, a sequence of nodes the       *)
(* executor walks in order, with the estimates ANALYZE makes possible.  A    *)
(* statement is a record [from, alias, joins, where, columns, group, having, *)
(* order, distinct, limit, offset]: where and having token sequences (<<>>   *)
(* for none), columns a sequence of items [f, arg] with f an aggregate, ""   *)
(* for a column, "*" or "expr"; order the text of the clause.                *)
EXTENDS JoinOrder, ColumnStats, SqlParser

AssumedTableRows == 1000         \* ASSUMED_TABLE_ROWS

AggregateFns == {"COUNT", "SUM", "AVG", "MIN", "MAX"}

QualifierOf(select) == IF select.alias # "" THEN select.alias ELSE select.from
TableOf(select, q) ==
  LET named == {j \in ToSet(select.joins) : OwnQualifier(j) = q}
  IN IF named # {} THEN (CHOOSE j \in named : TRUE).table ELSE select.from

\* stats maps <<table, column>> to a distribution.  The first entry of the
\* table in the order of a hash map gives its size.
RowCounts(stats, table) ==
  LET known == {stats[k].total_rows : k \in {x \in DOMAIN stats : x[1] = table}}
  IN IF known = {} THEN {AssumedTableRows} ELSE known
DistinctCounts(select, stats) ==
  [k \in {QualifierOf(select)} \cup {OwnQualifier(j) : j \in ToSet(select.joins)}
         \X {x[2] : x \in DOMAIN stats} \cup {<<n[1], n[2]>> : n \in
            UNION {{t.n : t \in ToSet(j.cond)} : j \in ToSet(select.joins)}} |->
     IF <<TableOf(select, k[1]), k[2]>> \in DOMAIN stats
     THEN stats[TableOf(select, k[1]), k[2]].distinct_count ELSE 0]

\* literal_for_distribution: the literal in the shape the distribution expects.
LiteralFor(tok, dist) ==
  CASE dist.kind = "Categorical" -> {0}
    [] dist.kind # "Categorical" /\ tok.k = "literal" /\ IsNumber(tok.v) -> {AsHalves(tok.v)}
    [] OTHER -> {}

FilterRows(select, stats, rows) ==
  LET ts   == select.where
      key  == <<select.from, ts[1].n[2]>>
      real == UNION {EstimateRowCount(stats[key], ts[2].n[2], v, rows) : v \in LiteralFor(ts[3], stats[key])}
  IN IF select.joins = <<>> /\ IsComparison(ts) /\ ts[1].k = "column" /\ key \in DOMAIN stats /\ real # {}
     THEN real ELSE {rows \div 2}

IsAggregate(select) ==
  /\ select.columns # <<>>
  /\ \A c \in ToSet(select.columns) :
        c.f \in AggregateFns \/ (c.f = "" /\ c.arg \in ToSet(select.group))

GroupRows(select, rows) ==
  LET root[k \in Nat] == IF k * k >= rows THEN k ELSE root[k + 1]
  IN IF select.group = <<>> THEN 1 ELSE root[1]

IsStar(columns) == Len(columns) = 1 /\ columns[1].f = "*"

Scan(table, alias, rows) == [kind |-> "Scan", table |-> table, alias |-> alias, rows |-> rows]
Filter(ts, rows) == [kind |-> "Filter", predicate |-> ts, split |-> IsComparison(ts), rows |-> rows]
Join(j, p) == [kind |-> "Join", join |-> j, left |-> p.left, right |-> p.right, rows |-> p.output]

When(b, node) == IF b THEN <<node>> ELSE <<>>

\* What follows the filter: Sort before Project, so that a key that is not
\* selected is still there; Distinct on the final row; Limit last.
PlanTail(select, rows) ==
  LET agg  == IsAggregate(select)
      r1   == IF agg THEN GroupRows(select, rows) ELSE rows
      left == Max({r1 - select.offset, 0})
      r2   == IF select.limit = Unlimited THEN left ELSE Min({left, select.limit})
  IN When(agg, [kind |-> "Aggregate", columns |-> select.columns, group |-> select.group,
                having |-> select.having, rows |-> r1])
     \o When(ParseOrderBy(select.order) # <<>>, [kind |-> "Sort", keys |-> ParseOrderBy(select.order), rows |-> r1])
     \o When(~agg /\ ~IsStar(select.columns), [kind |-> "Project", columns |-> select.columns, rows |-> r1])
     \o When(select.distinct, [kind |-> "Distinct", rows |-> r1])
     \o When(select.limit # Unlimited \/ select.offset > 0,
             [kind |-> "Limit", limit |-> select.limit, offset |-> select.offset, rows |-> r2])

\* The operator weights of CostModel::new, times ten; a Join is a HashJoin and
\* costs the larger of its inputs.
Weight(kind) == CASE kind = "Scan" -> 10 [] kind \in {"Filter", "Project"} -> 5 [] kind = "Join" -> 20
                  [] kind \in {"Aggregate", "Distinct"} -> 15 [] kind = "Sort" -> 30 [] kind = "Limit" -> 1
NodeCost(node) == Weight(node.kind) * (IF node.kind = "Join" THEN Max({node.left, node.right}) ELSE node.rows)

\* The plans plan_select may build: the size of a table and the order of joins
\* of equal cost depend on hash and rounding order.  HAVING without groups is
\* an error: no plan.
Plans(select, stats) ==
  LET from == QualifierOf(select)
      tables == {select.from} \cup {j.table : j \in ToSet(select.joins)}
      Joined(sizes) ==
        LET rowsOf == [q \in {from} \cup {OwnQualifier(j) : j \in ToSet(select.joins)} |-> sizes[TableOf(select, q)]]
            dist   == DistinctCounts(select, stats)
        IN {[rows |-> IF chain = <<>> THEN rowsOf[from] ELSE Last(chain).output,
             nodes |-> <<Scan(select.from, select.alias, rowsOf[from])>>
                       \o [i \in DOMAIN chain |-> Join(select.joins[chain[i].index], chain[i])]] :
              chain \in {Replay(select.joins, o, rowsOf[from], rowsOf, dist) :
                           o \in OptimalOrders(from, select.joins, rowsOf[from], rowsOf, dist)}}
      Filtered(p) == IF select.where = <<>> THEN {p}
                     ELSE {[rows |-> r, nodes |-> Append(p.nodes, Filter(select.where, r))] :
                             r \in FilterRows(select, stats, p.rows)}
      sizings == {s \in [tables -> UNION {RowCounts(stats, t) : t \in tables}] :
                    \A t \in tables : s[t] \in RowCounts(stats, t)}
  IN IF select.having # <<>> /\ ~IsAggregate(select) THEN {}
     ELSE {p.nodes \o PlanTail(select, p.rows) :
             p \in UNION {Filtered(q) : q \in UNION {Joined(s) : s \in sizings}}}

\* What explain reports of a plan.
EstimatedRows(nodes) == Last(nodes).rows
EstimatedCost(nodes) == FoldLeft(LAMBDA s, n : s + NodeCost(n), 0, nodes)
=============================================================================
