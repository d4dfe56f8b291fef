--------------------------- MODULE QueryReference ---------------------------
(* What a SELECT means, stated without the executor: sets of combinations of *)
(* row ids instead of sequences of rows, Kleene's logic as the minimum and   *)
(* the maximum of 0, 1 and 2, and conditions as trees.                       *)
EXTENDS QueryExecutor

(* ------------------------------ Statements ------------------------------- *)
Call(f, arg)   == Tok("call", <<f>> \o arg, NullValue)

RECURSIVE Comparisons(_)
Comparisons(c) == CASE c.kind = "none" -> {}
                    [] c.kind = "cmp"  -> {c}
                    [] OTHER -> Comparisons(c.l) \cup Comparisons(c.r)
Operators(c) == UNION {{x.l, x.r} : x \in Comparisons(c)}
Read(c) == {x \in Operators(c) : x.k \in {"column", "call"}}

\* The tree sqlparser makes of a query written the usual way.
OrderKey(k) ==
  [expr |-> <<Col(k.name)>> \o IF k.metric = "" THEN <<>>
                               ELSE <<Sym(k.metric), Sym("["), Lit(VectorVal(k.target)), Sym("]")>>,
   direction |-> IF k.asc THEN <<>> ELSE <<"DESC">>]
TreeOf(q) ==
  LET JoinTree(j) == [relation |-> Table(j.table, j.alias), operator |-> j.kind, on |-> j.on,
                      constraint |-> CASE j.equi = <<"natural">> -> "Natural" [] j.on # NoCond -> "On"
                                       [] j.equi \notin {<<>>, <<"natural">>} -> "Using" [] OTHER -> "None",
                      using |-> j.equi]
  IN [body |-> "Select",
      select |-> [distinct |-> IF q.distinct THEN "Distinct" ELSE "none", projection |-> q.columns,
                  from |-> <<TableWithJoins(Table(q.from, q.alias), [i \in DOMAIN q.joins |-> JoinTree(q.joins[i])])>>,
                  selection |-> q.where, groupBy |-> [all |-> FALSE, exprs |-> q.group], having |-> q.having],
      orderBy |-> [k \in DOMAIN q.order |-> OrderKey(q.order[k])],
      limit |-> <<IF q.limit = Unlimited THEN <<>> ELSE <<Lit(IntVal(q.limit))>>,
                  IF q.offset = 0 THEN <<>> ELSE <<Lit(IntVal(q.offset))>>>>]

\* A statement: the query, its parameters, and the tree of its text; odd if the
\* text is not one the engine claims to understand.
Select(q, params) == [query |-> q, params |-> params, odd |-> FALSE, tree |-> TreeOf(q)]

RECURSIVE Truth(_, _, _)
\* 0 false, 1 unknown, 2 true; of gives the values of the columns and calls.
Truth(c, params, of) ==
  LET V(x) == CASE x.k = "literal" -> x.v [] x.k = "null" -> NullValue
                [] x.k \in {"positional", "indexed"} -> params[x.v.v] [] OTHER -> of[x]
      a == V(c.l)  b == V(c.r)
  IN CASE c.kind = "none" -> 2
       [] c.kind = "AND"  -> Min({Truth(c.l, params, of), Truth(c.r, params, of)})
       [] c.kind = "OR"   -> Max({Truth(c.l, params, of), Truth(c.r, params, of)})
       [] OTHER -> IF IsNull(a) \/ IsNull(b) THEN 1
                   ELSE IF (CASE c.op = "=" -> Rank(a) = Rank(b) [] c.op = "<" -> Rank(a) < Rank(b)
                              [] c.op = ">" -> Rank(a) > Rank(b) [] c.op = "<=" -> Rank(a) <= Rank(b)
                              [] c.op = ">=" -> Rank(a) >= Rank(b) [] OTHER -> Rank(a) # Rank(b))
                   THEN 2 ELSE 0

(* ------------------------- Combinations of rows -------------------------- *)
\* The names a query can use: qualified as soon as there is a join.
NamesOf(q, w) == LET s == Catalog[TableOf(q, w)]
                 IN {<<IF q.joins = <<>> THEN "" ELSE w, s[i].name[2]>> : i \in DOMAIN s}
Qualifiers(q, n) == {QualifierOf(q)} \cup {OwnQualifier(q.joins[i]) : i \in 1..n}
Names(q) == UNION {NamesOf(q, w) : w \in Qualifiers(q, Len(q.joins))}
TypeOf(q, n) == LET s == Catalog[TableOf(q, IF n[1] = "" THEN QualifierOf(q) ELSE n[1])]
                IN s[Position(s, <<"", n[2]>>)].type

\* c maps each qualifier to a row id, 0 for the padding of an outer join;
\* tables maps it to the contents that were read.
Value(q, tables, c, n) ==
  LET w == IF n[1] = "" THEN QualifierOf(q) ELSE n[1]
      s == Catalog[TableOf(q, w)]
  IN IF c[w] = 0 THEN NullValue ELSE tables[w][c[w]][Position(s, <<"", n[2]>>)]

\* USING (c) and NATURAL compare the column of the new table with the first of
\* its name before it.
On(q, i) ==
  LET j == q.joins[i]  w == OwnQualifier(j)
      order == <<QualifierOf(q)>> \o [k \in 1..(i - 1) |-> OwnQualifier(q.joins[k])]
      Has(k, c) == <<order[k], c>> \in NamesOf(q, order[k])
      shared == IF j.equi = <<"natural">>
                THEN {n[2] : n \in NamesOf(q, w)} \cap {n[2] : n \in UNION {NamesOf(q, v) : v \in ToSet(order)}}
                ELSE ToSet(j.equi)
      c == CHOOSE x \in shared : TRUE
  IN IF j.equi = <<>> THEN j.on ELSE IF shared = {} THEN NoCond
     ELSE Cond(Col(<<order[Min({k \in DOMAIN order : Has(k, c)})], c>>), "=", Col(<<w, c>>))

RECURSIVE Joined(_, _, _, _)
\* The combinations after the first i joins.
Joined(q, params, tables, i) ==
  LET w    == OwnQualifier(q.joins[i])
      left == Joined(q, params, tables, i - 1)
      cand == {c @@ (w :> id) : c \in left, id \in DOMAIN tables[w]}
      match == {c \in cand : Truth(On(q, i), params, [x \in Read(On(q, i)) |-> Value(q, tables, c, x.n)]) = 2}
      Part(c) == [v \in Qualifiers(q, i - 1) |-> c[v]]
  IN IF i = 0 THEN {[v \in {QualifierOf(q)} |-> id] : id \in DOMAIN tables[QualifierOf(q)]}
     ELSE match
          \cup (IF q.joins[i].kind \in {"Left", "FullOuter"}
                THEN {c @@ (w :> 0) : c \in left \ {Part(m) : m \in match}} ELSE {})
          \cup (IF q.joins[i].kind \in {"Right", "FullOuter"}
                THEN {[v \in Qualifiers(q, i - 1) |-> 0] @@ (w :> id) : id \in (DOMAIN tables[w]) \ {m[w] : m \in match}}
                ELSE {})

Chosen(q, params, tables) ==
  {c \in Joined(q, params, tables, Len(q.joins)) :
     Truth(q.where, params, [x \in Read(q.where) |-> Value(q, tables, c, x.n)]) = 2}

(* ------------------------------- Aggregates ------------------------------ *)
AggregateOf(q, tables, group, f, arg) ==
  LET V(c) == Value(q, tables, c, arg)
      some == {c \in group : ~IsNull(V(c))}
      num  == {c \in some : IsNumber(V(c))}
      sum  == MapThenSumSet(LAMBDA c : AsHalves(V(c)), num)
  IN CASE f = "COUNT" -> IntVal(Cardinality(IF arg = NoName THEN group ELSE some))
       [] f # "COUNT" /\ num = {} -> NullValue
       [] f = "SUM" /\ num # {} -> FloatVal(sum)
       [] f = "AVG" /\ num # {} -> FloatVal(Quotient(sum, Cardinality(num)))
       [] f = "MIN" /\ num # {} -> FloatVal(Min({AsHalves(V(c)) : c \in num}))
       [] OTHER -> FloatVal(Max({AsHalves(V(c)) : c \in num}))

\* The groups HAVING keeps of the combinations in S.
Groups(q, params, tables, S) ==
  LET Key(c) == [k \in DOMAIN q.group |-> Value(q, tables, c, q.group[k])]
      all == IF q.group = <<>> THEN {S} ELSE {{c \in S : Key(c) = k} : k \in {Key(c) : c \in S}}
      Of(g, x) == IF x.k = "call" THEN AggregateOf(q, tables, g, CallOf(x).f, CallOf(x).arg)
                  ELSE Value(q, tables, CHOOSE c \in g : TRUE, x.n)
  IN {g \in all : Truth(q.having, params, [x \in Read(q.having) |-> Of(g, x)]) = 2}

(* ------------------------------- The answer ------------------------------ *)
\* A combination of e, any one of a group: they agree on the keys of GROUP BY.
SomeOf(q, e) == IF IsAggregate(q) THEN CHOOSE c \in e : TRUE ELSE e

\* The answer lists elements: combinations, or groups of them.  Out is what the
\* row of one says; DISTINCT keeps one for each.
Elements(q, params, tables, S) == IF IsAggregate(q) THEN Groups(q, params, tables, S) ELSE S
Out(q, tables, e) ==
  IF IsStar(q.columns) THEN [n \in Names(q) |-> Value(q, tables, e, n)]
  ELSE [k \in DOMAIN q.columns |->
          LET item == q.columns[k]
          IN IF item.f # "" THEN AggregateOf(q, tables, e, item.f, item.arg)
             ELSE Value(q, tables, SomeOf(q, e), item.arg)]

Once(q, tables, all) ==
  IF q.distinct THEN {CHOOSE e \in all : Out(q, tables, e) = o : o \in {Out(q, tables, e) : e \in all}} ELSE all

\* Rows before e: by the first key that differs, NULL below every value, and
\* everything turned around by DESC.
Precedes(q, tables, d, e) ==
  LET Level(k, c) == LET v == Value(q, tables, SomeOf(q, c), q.order[k].name)
                     IN IF q.order[k].metric # "" THEN
                          IF IsNull(v) THEN <<0, Infinity>>
                          ELSE <<0, Distance(q.order[k].metric, v.v, q.order[k].target)>>
                        ELSE IF IsNull(v) THEN <<0, 0>> ELSE <<1, Rank(v)>>
      Less(a, b) == a[1] < b[1] \/ (a[1] = b[1] /\ a[2] < b[2])
  IN \E k \in DOMAIN q.order :
       /\ \A i \in 1..(k - 1) : Level(i, d) = Level(i, e)
       /\ IF q.order[k].asc THEN Less(Level(k, d), Level(k, e)) ELSE Less(Level(k, e), Level(k, d))

\* answer lists the elements in an order of q: between those that precede a
\* class of equals and those that follow stand members of the class, all of them
\* unless OFFSET or LIMIT cuts there.
Lists(q, tables, elements, answer) ==
  LET O(e) == Out(q, tables, e)
      before(e) == {d \in elements : Precedes(q, tables, d, e)}
      class(e)  == {d \in elements : ~Precedes(q, tables, d, e) /\ ~Precedes(q, tables, e, d)}
      left == Max({Cardinality(elements) - q.offset, 0})
      Seen(o, low, n) == Cardinality({p \in DOMAIN answer : p + q.offset \in low + 1..low + n /\ answer[p] = o})
  IN /\ Len(answer) = (IF q.limit = Unlimited THEN left ELSE Min({left, q.limit}))
     /\ \A e \in elements :
          LET low == Cardinality(before(e))  n == Cardinality(class(e))
              here == low + 1..low + n
              whole == low >= q.offset /\ low + n <= q.offset + Len(answer)
          IN /\ \A p \in DOMAIN answer : p + q.offset \in here => \E d \in class(e) : O(d) = answer[p]
             /\ LET twins == Cardinality({d \in class(e) : O(d) = O(e)})
                IN IF whole THEN Seen(O(e), low, n) = twins ELSE Seen(O(e), low, n) <= twins

\* answer, a sequence of outputs, is one of the answers of q.
IsAnswer(q, params, tables, answer) ==
  Lists(q, tables, Once(q, tables, Elements(q, params, tables, Chosen(q, params, tables))), answer)

(* ------------------------ What the engine supports ----------------------- *)
\* Literals and parameters take the type of the column they are compared with,
\* an integer literal also a Float's.
Fits(q, x, params) ==
  LET CallType(f) == IF f = "COUNT" THEN "Integer" ELSE "Float"
      type == IF x.l.k = "call" THEN CallType(CallOf(x.l).f) ELSE TypeOf(q, x.l.n)
      v == IF x.r.k = "literal" THEN x.r.v ELSE params[x.r.v.v]
      column == x.l.k = "column"
  IN /\ x.l.k \in {"column", "call"} /\ (column => x.l.n \in Names(q))
     /\ CASE x.r.k = "column" -> x.r.n \in Names(q)
          [] x.r.k = "null" -> TRUE
          [] x.r.k \in {"literal", "positional", "indexed"} ->
               \/ IsNull(v) \/ v.t = type
               \/ type = "Float" /\ v.t = "Integer"
          [] OTHER -> FALSE

WellFormed(q, params) ==
  LET asked == {x.v.v : x \in {y \in Operators(q.where) \cup Operators(q.having) : y.k \in {"positional", "indexed"}}}
      styles == {x.k : x \in Operators(q.where) \cup Operators(q.having)} \cap {"positional", "indexed"}
      columns == UNION {{i.arg : i \in {c \in ToSet(q.columns) : c.f \notin {"*", "expr"} /\ c.arg # NoName}},
                        ToSet(q.group), {k.name : k \in ToSet(q.order)}}
  IN /\ {q.from} \cup {j.table : j \in ToSet(q.joins)} \subseteq Tables
     /\ \A n \in asked : n <= Len(params)
     /\ Cardinality(styles) <= 1
     /\ \A c \in Comparisons(q.where) \cup Comparisons(q.having) : Fits(q, c, params)
     /\ columns \subseteq Names(q)
     /\ (q.having # NoCond => IsAggregate(q))
     /\ (IsAggregate(q) => {k.name : k \in ToSet(q.order)} \subseteq ToSet(q.group))
     /\ ~\E c \in ToSet(q.columns) : c.f = "expr" \/ (c.f \in AggregateFns /\ ~IsAggregate(q))
     /\ \A i \in DOMAIN q.joins :
          /\ Len(q.joins[i].equi) <= 1
          /\ q.joins[i].on.kind \in {"none", "cmp"}
          /\ Operators(q.joins[i].on) \subseteq {Col(n) : n \in Names(q)}

\* What the executor read, by qualifier, and what it answers.
ReadTables == [w \in {r[1] : r \in ToSet(read)} |-> (CHOOSE r \in ToSet(read) : r[1] = w)[2]]
Answered ==
  IF IsStar(select.query.columns)
  THEN [p \in DOMAIN rows |-> [n \in {schema[i].name : i \in DOMAIN schema} |-> rows[p][Position(schema, n)]]]
  ELSE rows

Supported == ~select.odd /\ WellFormed(select.query, select.params)

\* Two kinds of statements the executor does not treat like the others: ORDER BY
\* over groups, and an indexed column against a literal of another type.
SortsGroups(q) == IsAggregate(q) /\ q.order # <<>>
Mistyped(q) ==
  \E c \in Comparisons(q.where) :
    /\ c.l.k = "column" /\ c.r.k = "literal"
    /\ <<q.from, c.l.n[2]>> \in IndexedBy /\ c.r.v.t # TypeOf(q, c.l.n)

\* Whatever the plan, the access path, the order of the joins and the bound
\* parameters: the answer is one the statement's meaning allows on the tables
\* as they were read (QueryExecutor::execute, planner.rs, join_reorder.rs); of
\* ORDER BY over groups only the order is not the one asked for.
AnswersAreRight ==
  phase = "answered" /\ Supported =>
    LET q == select.query
    IN IsAnswer([q EXCEPT !.order = IF SortsGroups(q) THEN <<>> ELSE @], select.params, ReadTables, Answered)

\* A statement in the supported language is not refused, and one outside it
\* gets no answer ("Unsupported ..." errors), with two exceptions: an index asked
\* for a literal of another type finds no row, and groups are sorted by any
\* column of the table.  Only sorting groups can panic.  ORDER BY with a NULLS
\* clause is outside: it is refused, whatever parse_order_by's doc says.
RefusedExactlyIfUnsupported ==
  /\ phase = "answered" => Supported \/ SortsGroups(select.query) \/ (Mistyped(select.query) /\ rows = <<>>)
  /\ phase = "refused" => ~Supported
  /\ phase = "panicked" => SortsGroups(select.query)

\* executor.rs:455 says of every filter but an indexed comparison with a
\* literal: "Anything else still scans the whole table; that's always correct".
AnythingElseIsScanned ==
  phase = "answered" /\ (\E c \in Comparisons(select.query.where) : c.r.k = "column") =>
    IsAnswer(select.query, select.params, ReadTables, Answered)

=============================================================================
