------------------------------- MODULE Values -------------------------------
(* SQL values, their three-valued comparison, their order under ORDER BY,    *)
(* their hash-join keys, arithmetic, and what a literal token parses to      *)
(* (execution/row_codec.rs, execution/operators.rs).  A value is a record of *)
(* its variant t and an integer v: a Float is counted in halves, so that an  *)
(* Integer i and the Float 2i are equal; a String stands for its rank in the *)
(* order of strings; a Vector has one component.                             *)
EXTENDS Integers, Sequences, FiniteSetsExt, SequencesExt

Val(t, v) == [t |-> t, v |-> v]
NullValue == Val("Null", 0)
IntVal(i)     == Val("Integer", i)
FloatVal(h)   == Val("Float", h)
StringVal(i)  == Val("String", i)
VectorVal(x)  == Val("Vector", x)

IsNull(x)   == x.t = "Null"
IsNumber(x) == x.t \in {"Integer", "Float"}
AsHalves(x) == IF x.t = "Integer" THEN 2 * x.v ELSE x.v      \* as_f64
Comparable(x, y) == \/ IsNumber(x) /\ IsNumber(y)
                    \/ x.t = y.t /\ x.t \in {"String", "Boolean"}
Rank(x) == IF IsNumber(x) THEN AsHalves(x) ELSE x.v

(* -------- Tri: True, False, Unknown, and Failed for Option::None --------- *)
TriAnd(a, b) == CASE "Failed" \in {a, b} -> "Failed"
                  [] "Failed" \notin {a, b} /\ "False" \in {a, b} -> "False"
                  [] {a, b} = {"True"} -> "True"
                  [] OTHER -> "Unknown"
TriOr(a, b)  == CASE "Failed" \in {a, b} -> "Failed"
                  [] "Failed" \notin {a, b} /\ "True" \in {a, b} -> "True"
                  [] {a, b} = {"False"} -> "False"
                  [] OTHER -> "Unknown"
Tri(b) == IF b THEN "True" ELSE "False"
IsTrue(tri) == tri = "True"

ComparisonOps == {"=", "!=", "<>", "<", "<=", ">", ">="}
Holds(op, x, y) == CASE op = "="            -> x = y
                     [] op \in {"!=", "<>"} -> x # y
                     [] op = "<"            -> x < y
                     [] op = "<="           -> x <= y
                     [] op = ">"            -> x > y
                     [] op = ">="           -> x >= y

Compare(x, op, y) ==
  CASE op \notin ComparisonOps -> "Failed"
    [] op \in ComparisonOps /\ (IsNull(x) \/ IsNull(y)) -> "Unknown"
    [] op \in ComparisonOps /\ Comparable(x, y) -> Tri(Holds(op, Rank(x), Rank(y)))
    [] OTHER -> "Failed"

\* ORDER BY: NULL before everything, values of different types are equal.
CompareForSort(x, y) ==
  LET Sign(d) == IF d < 0 THEN -1 ELSE IF d > 0 THEN 1 ELSE 0
  IN CASE IsNull(x) \/ IsNull(y) -> Sign((IF IsNull(x) THEN 0 ELSE 1) - (IF IsNull(y) THEN 0 ELSE 1))
       [] ~IsNull(x) /\ ~IsNull(y) /\ Comparable(x, y) -> Sign(Rank(x) - Rank(y))
       [] OTHER -> 0

(* Keys of a secondary index: ordered by variant, then by value.             *)
IndexedOps == ComparisonOps \ {"!=", "<>"}
VariantRank(v) == CASE v.t = "Null" -> 0 [] v.t = "Boolean" -> 1 [] v.t = "Integer" -> 2
                    [] v.t = "Float" -> 3 [] v.t = "String" -> 4 [] OTHER -> 5
KeyHolds(op, a, b) == IF a.t = b.t THEN Holds(op, a.v, b.v) ELSE Holds(op, VariantRank(a), VariantRank(b))

\* A hash-join key keeps the variant: the Integer 1 is not the Float 1.0.
JoinHashKey(x) == <<x.t, x.v>>

\* SET expressions: a set with the result, empty for a type error.  Integer
\* division truncates toward zero; division by zero is NULL.
Quotient(a, b) == LET q == (IF a < 0 THEN -a ELSE a) \div (IF b < 0 THEN -b ELSE b)
                  IN IF (a < 0) = (b < 0) THEN q ELSE -q

Arith(x, op, y) ==
  LET a == AsHalves(x)  b == AsHalves(y)
  IN CASE IsNull(x) \/ IsNull(y) -> {NullValue}
       [] x.t = "Integer" /\ y.t = "Integer" ->
            {CASE op = "+" -> IntVal(x.v + y.v) [] op = "-" -> IntVal(x.v - y.v)
               [] op = "*" -> IntVal(x.v * y.v)
               [] OTHER -> IF y.v = 0 THEN NullValue ELSE IntVal(Quotient(x.v, y.v))}
       [] x.t = "String" /\ y.t = "String" /\ op = "+" -> {StringVal(10 * x.v + y.v)}
       [] IsNumber(x) /\ IsNumber(y) /\ "Float" \in {x.t, y.t} ->
            {CASE op = "+" -> FloatVal(a + b) [] op = "-" -> FloatVal(a - b)
               [] op = "*" -> FloatVal(Quotient(a * b, 2))
               [] OTHER -> IF b = 0 THEN NullValue ELSE FloatVal(Quotient(2 * a, b))}
       [] OTHER -> {}

(* ------------------------------- Tokens ---------------------------------- *)
(* A token is a record: k its kind, n a column name <<qualifier, base>> or a *)
(* keyword, operator or aggregate call, v the value a literal denotes by its *)
(* own shape.                                                                *)
NoName == <<"", "">>
Tok(k, n, v) == [k |-> k, n |-> n, v |-> v]
Col(n)       == Tok("column", n, NullValue)
Lit(v)       == Tok("literal", NoName, v)
NullWord     == Tok("null", NoName, NullValue)
Sym(s)       == Tok("symbol", <<"", s>>, NullValue)
Placeholder(i) == Tok("placeholder", NoName, IntVal(i))     \* 0 is ?, N is $N
IsSym(tok, s)  == tok.k = "symbol" /\ tok.n[2] = s

\* The values of a column: a Timestamp is kept as an integer.
ValueType(type) == IF type = "Timestamp" THEN "Integer" ELSE type
Convert(v, type) ==
  CASE type = "Float" /\ v.t = "Integer"  -> {FloatVal(2 * v.v)}
    [] ValueType(type) = v.t              -> {v}
    [] OTHER                              -> {}

\* parse_literal_checked: a set with the value, empty if the token is none.
ParseLiteralChecked(tok, type) ==
  CASE tok.k = "null" -> {NullValue}
    [] tok.k = "literal" -> Convert(tok.v, type)
    [] OTHER -> {}

\* parse_value: NULL for what does not parse, any text at all for a String.
AnyText == StringVal(0)
ParseValue(tok, type) ==
  CASE tok.k = "literal" /\ Convert(tok.v, type) # {} -> CHOOSE x \in Convert(tok.v, type) : TRUE
    [] type = "String" /\ (tok.k # "literal" \/ tok.v.t # "String") -> AnyText
    [] OTHER -> NullValue

\* parse_literal_value: by the token's own shape; NULL is not a shape.
ParseLiteralValue(tok) ==
  IF tok.k = "literal" /\ tok.v.t \in {"String", "Integer", "Float", "Boolean"} THEN {tok.v} ELSE {}

\* literal_repr: the token a bound parameter is substituted by.
LiteralRepr(v) == IF IsNull(v) THEN NullWord ELSE Lit(v)
=============================================================================
