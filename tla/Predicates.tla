----------------------------- MODULE Predicates -----------------------------
(* The boolean expressions of execution/row_codec.rs: the recursive-descent  *)
(* parser over a tokenised WHERE, HAVING or ON clause, evaluation on a row   *)
(* and on a pair of rows not yet merged, the right-hand sides of SET, and    *)
(* the placeholders of a prepared statement.  A schema is a sequence of      *)
(* columns [name, type, pk]; Reject is the parser's None.                    *)
EXTENDS Values

Column(name, type, pk) == [name |-> name, type |-> type, pk |-> pk, dims |-> 3]
\* position(|c| c.name == name): the first match, 0 for None.
Position(schema, name) ==
  LET at == {i \in DOMAIN schema : schema[i].name = name} IN IF at = {} THEN 0 ELSE Min(at)

Leaf(l, op, r)      == [kind |-> "Comparison", left |-> l, op |-> op, right |-> r]
Node(kind, a, b)    == [kind |-> kind, left |-> a, op |-> kind, right |-> b]
Operand(col, value) == [column |-> col, value |-> value]
Parsed(e, p) == [ok |-> TRUE, expr |-> e, pos |-> p]
Reject       == [ok |-> FALSE, expr |-> NullValue, pos |-> 0]

Comparison(ts, p, schema) ==
  LET left  == Position(schema, ts[p].n)
      right == IF ts[p + 2].k = "column" THEN Position(schema, ts[p + 2].n) ELSE 0
      value == ParseLiteralChecked(ts[p + 2], schema[left].type)
  IN CASE \/ p + 2 > Len(ts) \/ ts[p].k # "column" \/ left = 0
          \/ ts[p + 1].k # "symbol" \/ ts[p + 1].n[2] \notin ComparisonOps -> Reject
       [] OTHER -> IF right # 0
            THEN Parsed(Leaf(left, ts[p + 1].n[2], Operand(right, NullValue)), p + 3)
            ELSE IF value = {} THEN Reject
            ELSE Parsed(Leaf(left, ts[p + 1].n[2], Operand(0, CHOOSE x \in value : TRUE)), p + 3)

\* The operands of a chain associate to the left.
LeftDeep(level, r) ==
  IF r.ok THEN Parsed(FoldLeft(LAMBDA a, b : Node(level, a, b), Head(r.expr), Tail(r.expr)), r.pos) ELSE Reject

\* parse_atom: what the parentheses hold, parsed from the next position on, or
\* a comparison.
Closed(ts, inner) ==
  IF inner.ok /\ inner.pos <= Len(ts) /\ IsSym(ts[inner.pos], ")") THEN Parsed(inner.expr, inner.pos + 1) ELSE Reject
ParseAtom(ts, p, schema, inner) ==
  IF p <= Len(ts) /\ IsSym(ts[p], "(") THEN Closed(ts, inner) ELSE Comparison(ts, p, schema)

\* parse_or and parse_and: the first operand and, behind the keyword, the others.
Prepend(first, rest) == IF rest.ok THEN Parsed(<<first.expr>> \o rest.expr, rest.pos) ELSE Reject
Operands(ts, level, first, others) ==
  CASE ~first.ok -> Reject
    [] first.ok /\ (first.pos > Len(ts) \/ ~IsSym(ts[first.pos], level)) -> Parsed(<<first.expr>>, first.pos)
    [] OTHER -> Prepend(first, others[<<level, first.pos + 1>>])

\* The operands of the chain of a level from a position on: those of OR are
\* chains of AND, those of AND atoms.
ParseChains(ts, schema) ==
  LET operands[at \in {"OR", "AND"} \X (Nat \ {0})] ==
        LET level == at[1]  p == at[2]
        IN Operands(ts, level,
                    IF level = "OR" THEN LeftDeep("AND", operands[<<"AND", p>>])
                    ELSE ParseAtom(ts, p, schema, LeftDeep("OR", operands[<<"OR", p + 1>>])),
                    operands)
  IN operands

\* Trailing tokens make the whole predicate unsupported.
UpToEnd(ts, r) == IF r.ok /\ r.pos = Len(ts) + 1 THEN r ELSE Reject
Compile(ts, schema) == UpToEnd(ts, LeftDeep("OR", ParseChains(ts, schema)[<<"OR", 1>>]))

\* The part of a tree at the end of a path of branches.
SubTree(tree, path) == FoldLeft(LAMBDA t, branch : t[branch], tree, path)

EvalNode(x, row, left, right) ==
  CASE x.kind = "Comparison" ->
         Compare(row[x.left], x.op, IF x.right.column # 0 THEN row[x.right.column] ELSE x.right.value)
    [] x.kind = "AND" -> TriAnd(left, right)
    [] OTHER          -> TriOr(left, right)
EvalTri(e, row) ==
  LET tri[path \in Seq({"left", "right"})] ==
        EvalNode(SubTree(e, path), row, tri[Append(path, "left")], tri[Append(path, "right")])
  IN tri[<<>>]

\* unwrap_or(false): a row whose values cannot be compared is excluded.
Eval(compiled, row) == IsTrue(EvalTri(compiled.expr, row))

\* eval_split: column i of the merged schema, read from a pair of rows; n is
\* the width of the left schema.
EvalSplit(compiled, l, n, r) ==
  Eval(compiled, [i \in 1..(n + Len(r)) |-> IF i <= n THEN l[i] ELSE r[i - n]])

\* split_comparison: three tokens and nothing else.
IsComparison(ts) == Len(ts) = 3

(* ---------------------- UPDATE ... SET column = expr --------------------- *)
ResolveOperand(tok, schema) ==
  IF tok.k = "column" /\ Position(schema, tok.n) # 0 THEN {Operand(Position(schema, tok.n), NullValue)}
  ELSE {Operand(0, v) : v \in ParseLiteralValue(tok)}

\* A set with the compiled assignment, empty for an unsupported shape.
CompileAssignment(ts, schema, type) ==
  CASE Len(ts) = 3 /\ ts[2].k = "symbol" /\ ts[2].n[2] \in {"+", "-", "*", "/"} ->
         {[left |-> l, op |-> ts[2].n[2], right |-> r] :
            l \in ResolveOperand(ts[1], schema), r \in ResolveOperand(ts[3], schema)}
    [] Len(ts) = 1 ->
         LET o == IF ts[1].k = "column" /\ Position(schema, ts[1].n) # 0
                  THEN {Operand(Position(schema, ts[1].n), NullValue)}
                  ELSE {Operand(0, v) : v \in ParseLiteralChecked(ts[1], type)}
         IN {[left |-> x, op |-> "copy", right |-> x] : x \in o}
    [] OTHER -> {}

OperandValue(o, row) == IF o.column # 0 THEN row[o.column] ELSE o.value

\* The row as it was before any assignment of the statement.
EvalAssignment(a, row) ==
  IF a.op = "copy" THEN {OperandValue(a.left, row)}
  ELSE Arith(OperandValue(a.left, row), a.op, OperandValue(a.right, row))

(* ------------------------------ Placeholders ----------------------------- *)
PlaceholdersOf(ts, positional) ==
  SelectSeq(ts, LAMBDA t : t.k = "placeholder" /\ (positional <=> t.v.v = 0))

\* scan_placeholders over the fields in order: a set with the number of
\* parameters, empty when the statement mixes ? and $N.
ScanPlaceholders(fields) ==
  LET all == FlattenSeq(fields)
      positional == Len(PlaceholdersOf(all, TRUE))
      indexed == {t.v.v : t \in ToSet(PlaceholdersOf(all, FALSE))}
  IN IF positional > 0 /\ indexed # {} THEN {} ELSE {Max({positional} \cup indexed)}

\* substitute_placeholders: next is the number of ? bound by earlier fields.  A
\* parameter that is not there is an error: its placeholder stays, which parses
\* to nothing and has the statement refused.
Substitute(ts, params, next) ==
  [i \in DOMAIN ts |->
     LET place == IF ts[i].v.v # 0 THEN ts[i].v.v ELSE next + Len(PlaceholdersOf(SubSeq(ts, 1, i), TRUE))
     IN IF ts[i].k = "placeholder" /\ place \in DOMAIN params THEN LiteralRepr(params[place]) ELSE ts[i]]
=============================================================================
