------------------------------ MODULE JoinOrder ------------------------------
(* optimizer/join_reorder.rs and optimizer/cost_model.rs: the order in which *)
(* the joins of a query run.  A join is a record [table, alias, kind, cond,  *)
(* equi]: cond the tokens of ON (<<>> for none), equi the columns of USING,  *)
(* "natural" or "none".  rowsOf(q) and distinctOf(q, c) are what ANALYZE     *)
(* knows of the table a qualifier stands for (0 distinct values: nothing).   *)
EXTENDS Predicates, FiniteSets

CONSTANT MaxSearched     \* joins searched exhaustively (8 in the code)
ASSUME MaxSearchedAssumption == MaxSearched \in Nat

OwnQualifier(join) == IF join.alias # "" THEN join.alias ELSE join.table

\* DEFAULT_JOIN_SELECTIVITY is 0.1.
EstimateJoin(left, right, dl, dr) ==
  IF dl > 0 /\ dr > 0 THEN (left * right) \div Max({dl, dr}) ELSE (left * right) \div 10

NoShape(kind) == [kind |-> kind, op |-> "", own |-> "", existing |-> NoName]

\* Which qualifier a condition depends on besides the join's own.
ResolveShape(join) ==
  LET q == OwnQualifier(join)  l == join.cond[1].n  r == join.cond[3].n
      Compares(own, other) ==
        [kind |-> "Compare", op |-> join.cond[2].n[2], own |-> own[2], existing |-> other]
  IN CASE join.cond = <<>> -> NoShape("Cross")
       [] join.cond # <<>> /\ (~IsComparison(join.cond) \/ l[1] = "" \/ r[1] = "") -> NoShape("Unresolvable")
       [] OTHER -> CASE l[1] = q /\ r[1] # q -> Compares(l, r)
                     [] l[1] # q /\ r[1] = q -> Compares(r, l)
                     [] OTHER                -> NoShape("Unresolvable")

OutputRows(join, left, right, distinctOf) ==
  LET s == ResolveShape(join)
  IN CASE s.kind = "Cross" -> left * right
       [] s.kind = "Compare" /\ s.op = "=" ->
            EstimateJoin(left, right, distinctOf[s.existing[1], s.existing[2]],
                         distinctOf[OwnQualifier(join), s.own])
       [] OTHER -> EstimateJoin(left, right, 0, 0)

\* replay: the chain of estimates along an order of join indices.
Replay(joins, order, fromRows, rowsOf, distinctOf) ==
  FoldLeft(LAMBDA chain, i :
             LET left  == IF chain = <<>> THEN fromRows ELSE Last(chain).output
                 right == rowsOf[OwnQualifier(joins[i])]
             IN Append(chain, [index |-> i, left |-> left, right |-> right,
                               output |-> OutputRows(joins[i], left, right, distinctOf)]),
           <<>>, order)

\* Every operator of a chain is a HashJoin, so its cost is its output up to a
\* constant factor.
ChainCost(chain) == FoldLeft(LAMBDA s, p : s + p.output, 0, chain)

Searchable(joins) ==
  /\ Len(joins) <= MaxSearched
  /\ \A i \in DOMAIN joins : /\ joins[i].kind = "Inner"
                             /\ joins[i].equi = <<>>
                             /\ ResolveShape(joins[i]).kind # "Unresolvable"

Resolvable_NoCheck(from, joins, order) == TRUE

\* search_step tries a join only once its other qualifier is known.
Resolvable(from, joins, order) ==
  \A p \in DOMAIN order :
    LET s == ResolveShape(joins[order[p]])
    IN s.kind = "Compare" =>
         s.existing[1] \in {from} \cup {OwnQualifier(joins[order[k]]) : k \in 1..(p - 1)}

\* The orders the search may return: the cheapest of the resolvable ones (their
\* costs are f64 sums, so ties may fall either way), or the source order.
OptimalOrders(from, joins, fromRows, rowsOf, distinctOf) ==
  LET n       == Len(joins)
      source  == [i \in 1..n |-> i]
      orders  == {o \in SetToSeqs(1..n) : Resolvable(from, joins, o)}
      Cost(o) == ChainCost(Replay(joins, o, fromRows, rowsOf, distinctOf))
  IN IF ~Searchable(joins) \/ orders = {} THEN {source}
     ELSE {o \in orders : \A other \in orders : Cost(o) <= Cost(other)}
=============================================================================
