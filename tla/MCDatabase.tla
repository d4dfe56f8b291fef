------------------------------ MODULE MCDatabase -----------------------------
(* A database opened on a log with one table t(n, id, m, v), two indexes and *)
(* two rows.                                                                 *)
EXTENDS Assistant
Symmetry == Permutations(Sessions)
Sent(tree) == [tree |-> tree, prepared |-> FALSE, params |-> <<>>]
Prepared(tree, params) == [tree |-> tree, prepared |-> TRUE, params |-> params]
From(name) == <<TableWithJoins(Table(name, ""), <<>>)>>
Insert(table, columns, rows) == [kind |-> "Insert", table |-> table, columns |-> columns, source |-> [kind |-> "Values", rows |-> rows]]
Update(table, set, where) == [kind |-> "Update", from |-> From(table), set |-> set, where |-> where]
Delete(table, where) == [kind |-> "Delete", from |-> From(table), where |-> where]
Index(name, table, columns) == [kind |-> "CreateIndex", name |-> name, table |-> table, columns |-> columns]
ColumnDef(name, type, size, options) == [name |-> name, type |-> type, size |-> size, options |-> options]
I(i) == <<Lit(IntVal(i))>>
Vec(x) == <<Lit(VectorVal(x))>>
C(n) == Col(Name(n))
Where(n, op, v) == <<C(n), Sym(op), v>>
T == [name |-> "t", columns |-> <<Column(Name("n"), "Integer", FALSE), Column(Name("id"), "Integer", TRUE),
                                  Column(Name("m"), "Integer", FALSE),
                                  [Column(Name("v"), "Vector", FALSE) EXCEPT !.dims = 2]>>]
Loaded == <<WriteOp("Insert", 1, 1, <<IntVal(1), IntVal(1), IntVal(2), VectorVal(5)>>),
            WriteOp("Insert", 1, 2, <<NullValue, IntVal(2), IntVal(1), NullValue>>)>>
Opened == <<[kind |-> "CreateTable", id |-> 1, schema |-> T], [kind |-> "CreateIndex", id |-> 1, column |-> "n"],
           [kind |-> "CreateIndex", id |-> 1, column |-> "v"], [kind |-> "Commit", ops |-> Loaded]>>
Twice == Append(Opened, [kind |-> "Commit", ops |-> <<WriteOp("Insert", 1, 1, <<IntVal(3), IntVal(1), IntVal(2), NullValue>>)>>])
\* Vectors of two components and of three.
MCLength(x) == IF x \in {5, 9} THEN 2 ELSE 3
MCAlphabet == <<"items", "t", "u">>
MCLogs == {Opened, Twice, <<>>}
Prompt(words, named, vector) == [sql |-> <<>>, words |-> words, names |-> named, vector |-> vector]
MCPrompts == {
  Prompt({"tables"}, {}, 0), Prompt({"similar"}, {"t"}, 7), Prompt({"vector", "how many"}, {"u"}, 0),
  Prompt({"count"}, {}, 0), Prompt({"older than"}, {}, 0), Prompt({"top"}, {"items"}, 0), Prompt({}, {"t"}, 0),
  [Prompt({}, {}, 0) EXCEPT !.sql = <<Delete("t", Where("m", "<", C("n")))>>] }
MCStatements == {
  Sent([kind |-> "CreateTable", name |-> "u", columns |-> <<
    ColumnDef("a", {"TIMESTAMP", "INT"}, {}, <<"NotNull">>), ColumnDef("k", {"INT"}, {8}, <<"PrimaryKey", "Null">>), ColumnDef("b", {"BOOL"}, {}, <<"Default">>),
    ColumnDef("c", {"DOUBLE", "REAL"}, {}, <<>>), ColumnDef("d", {"VECTOR"}, {}, <<>>), ColumnDef("e", {"VECTOR"}, {2}, <<>>), ColumnDef("f", {}, {}, <<>>)>>]),
  Sent(Index("by_m", "t", <<"m">>)), Sent(Index("by_n", "t", <<"lower(n)", "m">>)), Sent(Index("by_d", "u", <<"d">>)),
  Sent(Index("", "t", <<"m">>)), Sent([kind |-> "Drop"]), Sent([Delete("t", <<>>) EXCEPT !.from = <<>>]),
  Sent(Insert("t", <<>>, <<<<I(4), I(3), I(1), Vec(6)>>>>)),
  Sent(Insert("u", <<"k", "d", "a">>, <<<<I(1), Vec(1), I(5)>>>>)),
  Prepared(Insert("t", <<"id", "n">>, <<<<I(-1), <<Placeholder(0)>>>>, <<I(3), <<Placeholder(0)>>>>>>), <<IntVal(1), NullValue>>),
  Sent(Insert("t", <<"id", "n">>, <<<<I(7), I(1)>>, <<I(8), I(1) \o <<Sym("+")>> \o I(1)>>>>)),
  Sent(Update("t", <<<<"n", <<C("m")>>>>, <<"m", <<C("n")>>>>>>, Where("n", ">=", Lit(IntVal(1))))),
  Prepared(Update("t", <<<<"n", <<C("n"), Sym("+"), Placeholder(2)>>>>>>, Where("id", "=", Placeholder(1))), <<IntVal(1), IntVal(3)>>),
  Sent(Update("t", <<<<"v", Vec(9)>>>>, <<>>)),
  Sent(Update("t", <<<<"id", I(9)>>>>, <<>>)),
  Sent(Update("t", <<<<"m", <<C("m"), Sym("+"), C("v")>>>>>>, <<>>)),
  Sent(Delete("t", Where("n", "=", Lit(IntVal(1))))), Sent(Delete("t", Where("id", "=", Lit(IntVal(-1))))),
  Sent(Delete("t", Where("m", "<", C("n")))), Sent(Delete("t", Where("n", "=", Placeholder(0)))) }
=============================================================================
