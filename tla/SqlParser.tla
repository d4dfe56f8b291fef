------------------------------ MODULE SqlParser -----------------------------
(* SQLParser::convert (sql/parser.rs): from the syntax tree the sqlparser    *)
(* library makes of a text to the statement the engine runs, or a refusal.   *)
(* The expressions of a tree reach the engine as their text (Display): token *)
(* sequences here, <<>> for a clause that is not there.  A result is a set,  *)
(* empty for Err.                                                            *)
EXTENDS Predicates

Unlimited == -1        \* no LIMIT

(* ------------------ sqlparser: trees and their rendering ----------------- *)
\* Conditions are trees over operands; a parameter knows its place.
Ask(place)     == Tok("positional", NoName, IntVal(place))      \* ?
AskNumbered(n) == Tok("indexed", NoName, IntVal(n))             \* $n
Cond(l, op, r) == [kind |-> "cmp", l |-> l, op |-> op, r |-> r]
And(a, b)      == [kind |-> "AND", l |-> a, op |-> "", r |-> b]
Or(a, b)       == [kind |-> "OR",  l |-> a, op |-> "", r |-> b]
NoCond         == [kind |-> "none", l |-> 0, op |-> "", r |-> 0]

RenderOperand(x) == CASE x.k = "positional" -> Placeholder(0)
                      [] x.k = "indexed"    -> Placeholder(x.v.v)
                      [] OTHER -> x
\* With the parentheses precedence asks for.
Render(c) ==
  LET text[path \in Seq({"l", "r"})] ==
        LET x == SubTree(c, path)
            Inside(branch) == IF x.kind = "AND" /\ x[branch].kind = "OR"
                              THEN <<Sym("(")>> \o text[Append(path, branch)] \o <<Sym(")")>>
                              ELSE text[Append(path, branch)]
        IN CASE x.kind = "none" -> <<>>
             [] x.kind = "cmp"  -> <<RenderOperand(x.l), Sym(x.op), RenderOperand(x.r)>>
             [] OTHER -> Inside("l") \o <<Sym(x.kind)>> \o Inside("r")
  IN text[<<>>]

\* ORDER BY <expr> <direction>, ...
RenderOrder(keys) ==
  LET Key(i) == (IF i = 1 THEN <<Sym("ORDER BY")>> ELSE <<Sym(",")>>) \o keys[i].expr
                \o [k \in DOMAIN keys[i].direction |-> Sym(keys[i].direction[k])]
  IN FlattenSeq([i \in DOMAIN keys |-> Key(i)])

Table(name, alias)   == [kind |-> "Table", name |-> name, alias |-> alias]
TableWithJoins(t, js) == [relation |-> t, joins |-> js]

(* --------------------------------- SELECT -------------------------------- *)
\* Anything but a table is taken by its text, which names no table.
TableFactorName(factor)  == IF factor.kind = "Table" THEN factor.name ELSE "(text)"
TableFactorAlias(factor) == IF factor.kind = "Table" THEN factor.alias ELSE ""

\* The operators a constraint is dug out of; APPLY and ASOF have none.
Constrained == {"Join", "Inner", "Left", "LeftOuter", "Right", "RightOuter", "FullOuter", "CrossJoin",
                "Semi", "LeftSemi", "RightSemi", "Anti", "LeftAnti", "RightAnti"}
JoinConstraint(j) == IF j.operator \in Constrained /\ j.constraint = "On" THEN Render(j.on) ELSE <<>>
EquiMatch(j) == CASE j.operator \notin Constrained -> <<>>
                  [] j.operator \in Constrained /\ j.constraint = "Using" -> j.using
                  [] j.operator \in Constrained /\ j.constraint = "Natural" -> <<"natural">>
                  [] OTHER -> <<>>
JoinKind(operator) ==
  CASE operator \in {"Left", "LeftOuter"}   -> "Left"
    [] operator \in {"Right", "RightOuter"} -> "Right"
    [] operator = "FullOuter" -> "FullOuter"
    [] OTHER -> "Inner"
JoinClause(j) == [table |-> TableFactorName(j.relation), alias |-> TableFactorAlias(j.relation),
                  kind |-> JoinKind(j.operator), cond |-> JoinConstraint(j), equi |-> EquiMatch(j)]

\* A number, or nothing: a placeholder and any other expression are refused.
AsUsize(token) == IF token.k = "literal" /\ token.v.t = "Integer" /\ token.v.v >= 0 THEN {token.v.v} ELSE {}
\* clause: <<limit, offset>>, each a sequence of at most one token.
ExtractLimit(clause)  == IF clause[1] = <<>> THEN {Unlimited} ELSE AsUsize(clause[1][1])
ExtractOffset(clause) == IF clause[2] = <<>> THEN {0} ELSE AsUsize(clause[2][1])

Wildcard == [f |-> "*", arg |-> NoName]
\* Only the first table of FROM is seen; t.* is *.
ConvertQuery(query) ==
  LET s == query.select
      from == IF s.from = <<>> THEN TableWithJoins(Table("", ""), <<>>) ELSE s.from[1]
  IN IF query.body # "Select" THEN {}
     ELSE {[distinct |-> s.distinct \in {"Distinct", "On"},
            columns  |-> [i \in DOMAIN s.projection |->
                            IF s.projection[i].f \in {"*", "t.*"} THEN Wildcard ELSE s.projection[i]],
            from     |-> TableFactorName(from.relation), alias |-> TableFactorAlias(from.relation),
            joins    |-> [i \in DOMAIN from.joins |-> JoinClause(from.joins[i])],
            where    |-> Render(s.selection),
            group    |-> IF s.groupBy.all THEN <<>> ELSE s.groupBy.exprs,
            having   |-> Render(s.having),
            order    |-> RenderOrder(query.orderBy),
            limit    |-> l, offset |-> o] :
              l \in ExtractLimit(query.limit), o \in ExtractOffset(query.limit)}

(* ------------------------------ Other statements ------------------------- *)
\* With what executing a prepared statement adds.
Statement(kind, table) == [kind |-> kind, table |-> table, columns |-> <<>>, rows |-> <<>>, set |-> <<>>, where |-> <<>>,
                           prepared |-> FALSE, params |-> <<>>]

\* INSERT ... SELECT has a source of another kind: no rows.
ConvertInsert(i) ==
  {[Statement("insert", i.table) EXCEPT !.columns = i.columns,
                                        !.rows = IF i.source.kind = "Values" THEN i.source.rows ELSE <<>>]}
ConvertUpdate(u) ==
  {[Statement("update", TableFactorName(u.from[1].relation)) EXCEPT !.set = u.set, !.where = u.where]}
ConvertDelete(d) ==
  IF d.from = <<>> THEN {} ELSE {[Statement("delete", TableFactorName(d.from[1].relation)) EXCEPT !.where = d.where]}

\* The options of a column in the order they are written.
ConvertColumn(c) ==
  FoldLeft(LAMBDA d, o : CASE o = "NotNull" -> [d EXCEPT !.nullable = FALSE]
                           [] o = "Null" -> [d EXCEPT !.nullable = TRUE]
                           [] o = "PrimaryKey" -> [d EXCEPT !.pk = TRUE, !.nullable = FALSE]
                           [] OTHER -> d,
           [name |-> c.name, type |-> c.type, size |-> c.size, nullable |-> TRUE, pk |-> FALSE], c.options)
ConvertCreateTable(t) == {[Statement("create", t.name) EXCEPT !.columns = [i \in DOMAIN t.columns |-> ConvertColumn(t.columns[i])]]}

\* A name and a column are wanted; columns after the first are dropped.
ConvertCreateIndex(x) ==
  IF x.name = "" \/ x.columns = <<>> THEN {} ELSE {[Statement("index", x.table) EXCEPT !.columns = <<x.columns[1]>>]}

ConvertStatement(tree) ==
  CASE tree.kind = "Insert" -> ConvertInsert(tree)
    [] tree.kind = "Update" -> ConvertUpdate(tree)
    [] tree.kind = "Delete" -> ConvertDelete(tree)
    [] tree.kind = "CreateTable" -> ConvertCreateTable(tree)
    [] tree.kind = "CreateIndex" -> ConvertCreateIndex(tree)
    [] OTHER -> {}

(* -------------------------------- ORDER BY ------------------------------- *)
\* row_codec::parse_order_by: keys split at the commas outside brackets, empty
\* ones dropped; a direction that is the last word of a key is taken off.
Keep(s) == IF s.key = <<>> THEN s.keys ELSE Append(s.keys, s.key)
TakeToken(s, token) ==
  IF IsSym(token, ",") /\ s.depth = 0 THEN [s EXCEPT !.keys = Keep(s), !.key = <<>>]
  ELSE [keys |-> s.keys, key |-> Append(s.key, token),
        depth |-> CASE IsSym(token, "[") -> s.depth + 1
                    [] IsSym(token, "]") /\ s.depth > 0 -> s.depth - 1
                    [] OTHER -> s.depth]
SplitKeys(raw) ==
  LET after[i \in 0..Len(raw)] ==
        IF i = 0 THEN [keys |-> <<>>, key |-> <<>>, depth |-> 0] ELSE TakeToken(after[i - 1], raw[i])
  IN after[Len(raw)]
Ends(key, word) == Len(key) > 1 /\ IsSym(Last(key), word)
ParsedKey(key) == [expr |-> IF Ends(key, "DESC") \/ Ends(key, "ASC") THEN Front(key) ELSE key, asc |-> ~Ends(key, "DESC")]
ParseOrderBy(text) ==
  LET raw  == IF text # <<>> /\ IsSym(text[1], "ORDER BY") THEN Tail(text) ELSE text
      keys == Keep(SplitKeys(raw))
  IN [k \in DOMAIN keys |-> ParsedKey(keys[k])]
=============================================================================
