--------------------------- MODULE MCQueryExecutor ---------------------------
(* A catalog of three small tables and the statements asked of them.         *)
EXTENDS QueryReference

T == <<"t", "u", "v">>
B(c) == <<"", c>>        \* a bare column name
QN(w, c) == <<w, c>>

MCCatalog ==
  [t |-> <<Column(B("id"), "Integer", TRUE), Column(B("a"), "Integer", FALSE), Column(B("f"), "Float", FALSE)>>,
   u |-> <<Column(B("a"), "Integer", FALSE), Column(B("s"), "String", FALSE)>>,
   v |-> <<Column(B("k"), "Integer", TRUE), Column(B("e"), "Vector", FALSE)>>]

RowT(id, a, f) == <<IntVal(id), a, f>>
One(id, a, f) == (id :> RowT(id, a, f))
MCContents ==
  [t |-> {One(1, IntVal(1), FloatVal(2)) @@ One(2, IntVal(2), FloatVal(1)) @@ One(3, NullValue, FloatVal(2)),
          One(1, IntVal(2), FloatVal(4)) @@ One(2, IntVal(2), NullValue)},
   u |-> {(1 :> <<IntVal(2), StringVal(1)>>) @@ (2 :> <<NullValue, StringVal(2)>>),
          (1 :> <<IntVal(1), StringVal(2)>>) @@ (2 :> <<IntVal(2), StringVal(1)>>) @@ (3 :> <<IntVal(2), StringVal(1)>>)},
   v |-> {(1 :> <<IntVal(1), VectorVal(2)>>) @@ (2 :> <<IntVal(2), VectorVal(-1)>>) @@ (4 :> <<IntVal(4), NullValue>>)}]

C(c) == [f |-> "", arg |-> c]
Agg(f, c) == [f |-> f, arg |-> c]
Star == <<[f |-> "*", arg |-> NoName]>>
Q(from, columns) ==
  [from |-> from, alias |-> "", joins |-> <<>>, where |-> NoCond, columns |-> columns, group |-> <<>>,
   having |-> NoCond, order |-> <<>>, distinct |-> FALSE, limit |-> Unlimited, offset |-> 0]
Where(q, c) == [q EXCEPT !.where = c]
Asc(n)  == [name |-> n, metric |-> "", target |-> 0, asc |-> TRUE]
Desc(n) == [Asc(n) EXCEPT !.asc = FALSE]
JoinOn(table, alias, kind, on) == [table |-> table, alias |-> alias, kind |-> kind, on |-> on, equi |-> <<>>]
JoinBy(table, kind, equi) == [table |-> table, alias |-> "", kind |-> kind, on |-> NoCond, equi |-> equi]
Plain(q) == Select(q, <<>>)
Clause(limit, offset) == <<IF limit = "" THEN <<>> ELSE <<Sym(limit)>>, IF offset = "" THEN <<>> ELSE <<Sym(offset)>>>>
Spelled(q, tree) == [Plain(q) EXCEPT !.tree = tree]
Odd(q, tree) == [Spelled(q, tree) EXCEPT !.odd = TRUE]

I(i) == Lit(IntVal(i))
A == Col(B("a"))   F == Col(B("f"))   ID == Col(B("id"))
FromT == Q("t", Star)

Filters ==
  {Cond(A, "=", I(2)), Cond(ID, ">=", I(2)), Cond(ID, "<", I(3)), Cond(F, ">", I(1)), Cond(A, "<=", ID), Cond(ID, ">", A),
   Or(Cond(A, "=", I(1)), And(Cond(F, "=", I(1)), Cond(ID, "=", I(2)))),
   And(Or(Cond(A, "=", I(1)), Cond(F, "<", I(1))), Cond(ID, "<=", I(2))),
   And(Cond(A, "!=", I(1)), Cond(A, "=", NullWord)),
   Cond(A, "=", Lit(StringVal(1))), Cond(Col(B("nope")), "=", I(1)), Cond(A, "=", Lit(FloatVal(3)))}

Sorted1 == [FromT EXCEPT !.order = <<Desc(B("f")), Asc(B("id"))>>, !.limit = 2, !.offset = 1]
Sorted2 == [Q("t", <<C(B("f"))>>) EXCEPT !.order = <<Asc(B("a"))>>, !.limit = 2]
Distinct1 == [Q("t", <<C(B("f"))>>) EXCEPT !.distinct = TRUE, !.order = <<Desc(B("f"))>>, !.limit = 1]
Nearest(m) == [Q("v", <<C(B("k"))>>) EXCEPT !.order = <<[name |-> B("e"), metric |-> m, target |-> 1, asc |-> TRUE]>>,
                                            !.limit = 1]
Grouped == [Q("t", <<C(B("a")), Agg("COUNT", NoName), Agg("SUM", B("f"))>>) EXCEPT !.group = <<B("a")>>]
Whole == Q("t", <<Agg("COUNT", B("a")), Agg("AVG", B("f")), Agg("MIN", B("a")), Agg("MAX", B("f"))>>)
Having(c) == [Grouped EXCEPT !.having = c]
Singles ==
  {Plain(Where(FromT, c)) : c \in Filters}
  \cup {Plain(q) : q \in {Sorted1, Sorted2, Distinct1, Nearest("<->"), Nearest("<=>"), Nearest("<#>"), Grouped, Whole,
          Where(Whole, Cond(A, "=", I(7))),
          Having(Or(Cond(Call("COUNT", NoName), ">", I(1)), Cond(Call("MAX", B("f")), "=", I(1)))),
          Having(Cond(A, "=", I(2))),
          [FromT EXCEPT !.having = Cond(A, "=", I(2))], Q("t", <<[f |-> "expr", arg |-> NoName]>>),
          Q("t", <<C(B("s"))>>), Q("w", Star), [FromT EXCEPT !.order = <<Asc(B("s"))>>]}}
  \cup {Select(Where(FromT, And(Cond(A, "=", Ask(1)), Cond(F, "=", Ask(2)))), <<IntVal(2), FloatVal(1)>>),
        Select(Where(FromT, Cond(A, "=", Ask(1))), <<>>),
        Select(Where(FromT, Or(Cond(ID, "=", AskNumbered(2)), Cond(A, "=", AskNumbered(1)))), <<IntVal(1), IntVal(3)>>),
        Select(Where(FromT, Or(Cond(ID, "=", AskNumbered(1)), Cond(A, "=", Ask(1)))), <<IntVal(1)>>),
        Select(Where(FromT, Cond(ID, ">", Ask(1))), <<IntVal(1)>>),
        Select(Where(Having(Cond(Call("COUNT", NoName), "=", Ask(2))), Cond(F, ">=", Ask(1))), <<FloatVal(2), IntVal(1)>>)}

OnA(l, r) == Cond(Col(QN(l, "a")), "=", Col(QN(r, "a")))
Outer(kind) == [FromT EXCEPT !.joins = <<JoinOn("u", "", kind, OnA("t", "u"))>>]
Chain(second) == [FromT EXCEPT !.joins = <<JoinOn("v", "", "Inner", Cond(Col(QN("t", "id")), "<", Col(QN("v", "k")))), second>>]
Joins ==
  {Plain(Outer(kind)) : kind \in {"Inner", "Left", "Right", "FullOuter"}}
  \cup {Plain([Outer("Left") EXCEPT !.joins[1].on = Cond(Col(QN("t", "id")), ">", Col(QN("u", "a")))]),
        Plain(Where(Outer("Left"), Cond(Col(QN("u", "s")), "=", Lit(StringVal(1))))),
        Plain([FromT EXCEPT !.joins = <<JoinOn("u", "", "Inner", NoCond)>>]),
        Plain([FromT EXCEPT !.joins = <<JoinBy("u", "Inner", <<"a">>)>>]),
        Plain([FromT EXCEPT !.joins = <<JoinBy("u", "FullOuter", <<"natural">>)>>]),
        Plain([FromT EXCEPT !.joins = <<JoinBy("u", "Inner", <<"a", "s">>)>>]),
        Plain([FromT EXCEPT !.alias = "x", !.joins = <<JoinOn("t", "y", "Inner", OnA("x", "y"))>>]),
        Plain([Q("t", <<C(QN("u", "s")), Agg("COUNT", QN("t", "a"))>>)
                EXCEPT !.joins = <<JoinOn("u", "", "Inner", OnA("t", "u"))>>, !.group = <<QN("u", "s")>>]),
        Plain(Chain(JoinOn("u", "", "Inner", Cond(Col(QN("u", "a")), "=", Col(QN("v", "k")))))),
        Plain(Chain(JoinOn("u", "", "Inner", OnA("u", "t")))),
        Plain(Chain(JoinOn("u", "", "Left", OnA("u", "t")))),
        Plain([Outer("Inner") EXCEPT !.joins[1].on = Cond(Col(QN("t", "a")), "=", I(1))])}

\* The same queries in other words, and texts the parser cannot take.
Operated(q, operator) == [TreeOf(q) EXCEPT !.select.from[1].joins[1].operator = operator]
Words ==
  {Spelled(Outer("Left"), Operated(Outer("Left"), "LeftOuter")), Spelled(Outer("Right"), Operated(Outer("Right"), "RightOuter")),
   Spelled(Outer("Inner"), Operated(Outer("Inner"), "Join")),
   Spelled(Sorted2, [TreeOf(Sorted2) EXCEPT !.select.distinct = "All", !.orderBy[1].direction = <<"ASC">>]),
   Spelled(FromT, [TreeOf(FromT) EXCEPT !.select.projection = <<[f |-> "t.*", arg |-> NoName]>>]),
   Spelled(Whole, [TreeOf(Whole) EXCEPT !.select.groupBy.all = TRUE]),
   Odd(FromT, [TreeOf(FromT) EXCEPT !.body = "Union"]), Odd(FromT, [TreeOf(FromT) EXCEPT !.select.from = <<>>]),
   Odd(Sorted2, [TreeOf(Sorted2) EXCEPT !.limit = Clause("?", "")]), Odd(FromT, [TreeOf(FromT) EXCEPT !.limit = Clause("", "1 + 1")]),
   Odd(FromT, [TreeOf(FromT) EXCEPT !.select.from[1].relation.kind = "Derived"])}

\* Groups sorted by a key of theirs, in and beyond the width of their rows, and
\* by a column they do not have; an indexed column against a string.
GroupedBy(c, columns) == [Q("t", columns) EXCEPT !.group = <<B("a")>>, !.order = <<Desc(B(c))>>]
SortedGroups == {Plain(GroupedBy("a", <<C(B("a")), Agg("COUNT", NoName)>>)), Plain(GroupedBy("a", <<Agg("COUNT", NoName)>>)),
                 Plain(GroupedBy("f", <<C(B("a")), Agg("SUM", B("f")), Agg("COUNT", NoName)>>)),
                 Plain(GroupedBy("s", <<C(B("a")), Agg("COUNT", NoName)>>))}
MistypedFilters == {Plain(Where(FromT, Cond(F, op, Lit(StringVal(1))))) : op \in {"=", ">", "!="}}

\* NULLS FIRST or LAST, with a direction or without one.
SortedBy(words) == Odd(Sorted1, [TreeOf(Sorted1) EXCEPT !.orderBy[1].direction = words])
NullsClauses == {SortedBy(<<"DESC", "NULLS LAST">>), SortedBy(<<"NULLS FIRST">>)}

MCSelects == Singles \cup Joins \cup Words \cup SortedGroups \cup MistypedFilters \cup NullsClauses
MCIndexedBy == {<<"t", "f">>}
IndexOnA == {<<"t", "a">>}
ColumnFilters == {Plain(Where(FromT, Cond(A, op, ID))) : op \in {"=", "<=", ">"}}
=============================================================================
