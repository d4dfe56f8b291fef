---------------------------- MODULE QueryExecutor ----------------------------
(* QueryExecutor::execute_sql, prepare and execute_prepared for a SELECT     *)
(* (execution/executor.rs): binding, the count of placeholders, planning,    *)
(* and the walk over the plan, one action per node.  Every table is scanned  *)
(* under a read snapshot of its own, so other connections may commit         *)
(* between two scans; one statement of this connection runs at a time.       *)
EXTENDS Relational

CONSTANTS Catalog,      \* table name -> its schema, a sequence of columns
          Contents,     \* table name -> the contents it may be committed with:
                        \*   functions from row ids to rows
          Selects,      \* the statements: [tree, params, ...], tree of a SELECT
          IndexedBy,    \* the <<table, column>> pairs CREATE INDEX may name
          MaxCommits    \* commits and CREATE INDEX / ANALYZE together

Tables == DOMAIN Catalog

VARIABLES
  db,        \* db[table]: the committed rows
  ids,       \* ids[table]: the row ids ever entered into the primary-key index
  indexes,   \* <<table, column>> -> the <<value, id>> entries of its index
  stats,     \* <<table, column>> -> distribution
  commits,   \* how many commits and maintenance statements have run
  phase,     \* "idle", "prepared", "running", "answered", "refused", "unbound", "panicked"
  select,    \* the statement: its syntax tree and its parameters
  plan,      \* the nodes still to run
  schema,    \* current: the schema and the rows the next node works on
  rows,
  prefix,    \* current_qualifier
  candidates, \* <<ids, contents>>: the row ids an index gave for the Scan that is
              \*   running and, history, what the table held then; <<>> for none
  read       \* history: <<qualifier, contents>> as they were scanned

vars == <<db, ids, indexes, stats, commits, phase, select, plan, schema, rows, prefix, candidates, read>>
world == <<db, ids, indexes, stats, commits>>
statement == <<phase, select, plan, schema, rows, prefix, candidates, read>>
result == <<schema, rows, prefix, candidates, read>>

NotAsked == <<>>
NoFunction == [x \in {} |-> NullValue]

Init ==
  /\ db \in [Tables -> UNION {Contents[t] : t \in Tables}]
  /\ \A t \in Tables : db[t] \in Contents[t]
  /\ ids = [t \in Tables |-> DOMAIN db[t]]
  /\ indexes = NoFunction /\ stats = NoFunction
  /\ commits = 0
  /\ phase = "idle" /\ select \in Selects
  /\ plan = <<>> /\ schema = <<>> /\ rows = <<>> /\ prefix = ""
  /\ candidates = NotAsked /\ read = <<>>

(* ------------------- Other connections and maintenance ------------------- *)
Entries(contents, at) == {<<contents[id][at], id>> : id \in DOMAIN contents}
PositionOf(x) == Position(Catalog[x[1]], <<"", x[2]>>)

\* A write of another connection: index entries are added, never removed.
Commit(table, contents) ==
  /\ commits < MaxCommits /\ contents # db[table]
  /\ db' = [db EXCEPT ![table] = contents]
  /\ ids' = [ids EXCEPT ![table] = @ \cup DOMAIN contents]
  /\ indexes' = [x \in DOMAIN indexes |->
       IF x[1] = table THEN indexes[x] \cup Entries(contents, PositionOf(x)) ELSE indexes[x]]
  /\ commits' = commits + 1
  /\ UNCHANGED stats /\ UNCHANGED statement

\* CREATE INDEX: built from the rows there are now.
CreateIndex(x) ==
  /\ commits < MaxCommits /\ x \notin DOMAIN indexes
  /\ indexes' = (x :> Entries(db[x[1]], PositionOf(x))) @@ indexes
  /\ commits' = commits + 1
  /\ UNCHANGED <<db, ids, stats>> /\ UNCHANGED statement

AnalyzeErrorBound == 16
Distribution(table, at) ==
  LET values == [k \in 1..Cardinality(DOMAIN db[table]) |-> db[table][SetToSeq(DOMAIN db[table])[k]][at]]
      type   == Catalog[table][at].type
      numbers == SelectSeq(values, IsNumber)
      words  == SelectSeq(values, LAMBDA v : v.t \in {"String", "Boolean"})
  IN CASE type \in {"Integer", "Float"} /\ numbers # <<>> ->
            {BuildNumeric([k \in DOMAIN numbers |-> AsHalves(numbers[k])], AnalyzeErrorBound)}
       [] type \in {"String", "Boolean"} /\ words # <<>> ->
            {BuildCategorical([k \in DOMAIN words |-> words[k].v])}
       [] OTHER -> {}

\* ANALYZE: a distribution of the values of every column; NULLs are skipped.
Analyze(table) ==
  LET found == {<<table, Catalog[table][at].name[2], d>> :
                  <<at, d>> \in {<<a, e>> \in (DOMAIN Catalog[table]) \X UNION {Distribution(table, a) :
                                   a \in DOMAIN Catalog[table]} : e \in Distribution(table, a)}}
      kept  == {x \in DOMAIN stats : x[1] # table}
  IN /\ commits < MaxCommits
     /\ stats' = [x \in kept \cup {<<f[1], f[2]>> : f \in found} |->
                    IF x \in kept THEN stats[x] ELSE (CHOOSE f \in found : f[2] = x[2])[3]]
     /\ commits' = commits + 1
     /\ UNCHANGED <<db, ids, indexes>> /\ UNCHANGED statement

(* --------------------------- Binding and plans --------------------------- *)
\* Binder::bind: the FROM table and the bare columns of the SELECT list.
Binds(text) ==
  /\ text.from \in Tables
  /\ \A c \in ToSet(text.columns) :
       c.f = "" /\ c.arg[1] = "" => Position(Catalog[text.from], c.arg) # 0

\* scan_statement_placeholders: the ON conditions, WHERE, HAVING.
Fields(text) == [i \in DOMAIN text.joins |-> text.joins[i].cond] \o <<text.where, text.having>>

BindNode(node, params, next) ==
  CASE node.kind = "Filter"    -> [node EXCEPT !.predicate = Substitute(@, params, next)]
    [] node.kind = "Join"      -> [node EXCEPT !.join.cond = Substitute(@, params, next)]
    [] node.kind = "Aggregate" -> [node EXCEPT !.having = Substitute(@, params, next)]
    [] OTHER -> node
NodeTokens(node) == CASE node.kind = "Filter" -> node.predicate [] node.kind = "Join" -> node.join.cond
                      [] node.kind = "Aggregate" -> node.having [] OTHER -> <<>>
\* execute_prepared: one counter of ? runs through the nodes in plan order.
BindPlan(nodes, params) ==
  [i \in DOMAIN nodes |-> BindNode(nodes[i], params,
     Len(PlaceholdersOf(FlattenSeq([k \in 1..(i - 1) |-> NodeTokens(nodes[k])]), TRUE)))]

ParamCount(text) == ScanPlaceholders(Fields(text))

\* What SQLParser::parse made of the statement, if anything.
Parses == ConvertQuery(select.tree)
Text == CHOOSE text \in Parses : TRUE

End(how) == phase' = how /\ UNCHANGED <<select, plan>> /\ UNCHANGED result
Refuse == End("refused")
Start(p) == /\ plan' = p /\ phase' = "running"
            /\ UNCHANGED select /\ UNCHANGED result

Prepare ==
  LET text == Text IN
  /\ phase = "idle" /\ UNCHANGED world
  /\ IF Parses # {} /\ Binds(text) /\ ParamCount(text) # {} /\ Plans(text, stats) # {}
     THEN /\ plan' \in Plans(text, stats)
          /\ phase' = "prepared"
          /\ UNCHANGED select /\ UNCHANGED result
     ELSE Refuse

ExecutePrepared ==
  /\ phase = "prepared" /\ UNCHANGED world
  /\ IF \E n \in ParamCount(Text) : Len(select.params) >= n
     THEN Start(BindPlan(plan, select.params))
     ELSE Refuse

\* execute_sql: the same in one call; it refuses a statement with parameters.
ExecuteSql ==
  LET text == Text IN
  /\ phase = "idle" /\ UNCHANGED world
  /\ CASE Parses = {} -> Refuse
       [] Parses # {} /\ (~Binds(text) \/ ParamCount(text) = {}) -> Refuse
       [] Parses # {} /\ Binds(text) /\ ParamCount(text) \notin {{}, {0}} ->
            End("unbound")
       [] OTHER -> IF Plans(text, stats) = {} THEN Refuse ELSE \E p \in Plans(text, stats) : Start(p)

(* ------------------------------- The nodes ------------------------------- *)
Running(kind) == phase = "running" /\ plan # <<>> /\ Head(plan).kind = kind
Fail == Refuse
Continue(s, r, p, rest) ==
  /\ schema' = s /\ rows' = r /\ prefix' = p /\ plan' = rest
  /\ UNCHANGED <<phase, select>>

\* scan_table_tuples: the rows of a hash map, in any order.
TableOrders(contents) == {[k \in DOMAIN o |-> contents[o[k]]] : o \in SetToSeqs(DOMAIN contents)}
Record(q, contents) == read' = Append(read, <<q, contents>>)

PkColumn(table) == LET at == {i \in DOMAIN Catalog[table] : Catalog[table][i].pk}
                   IN IF at = {} THEN 0 ELSE Min(at)
\* index_range between the f64 bounds of the comparison.
PkIds(table, op, v) == {id \in ids[table] : Holds(op, id, v)}

\* try_pk_index_scan applies to a comparison of the key with an integer.
UsesPk(table, ts) ==
  LET pk == PkColumn(table) IN
  /\ pk # 0 /\ ts[1].k = "column" /\ ts[1].n = Catalog[table][pk].name
  /\ ParseValue(ts[3], Catalog[table][pk].type).t = "Integer"
  /\ ts[2].n[2] \in IndexedOps

UsesSecondary(table, ts) ==
  /\ ts[1].k = "column" /\ ts[1].n[1] = "" /\ <<table, ts[1].n[2]>> \in DOMAIN indexes
  /\ ts[2].n[2] \in IndexedOps

\* secondary_index_candidates: what does not parse is NULL.
SecondaryIds(table, ts) ==
  LET x == <<table, ts[1].n[2]>>
      v == ParseValue(ts[3], Catalog[table][PositionOf(x)].type)
  IN {e[2] : e \in {f \in indexes[x] : KeyHolds(ts[2].n[2], f[1], v)}}

\* try_indexed_scan_split is asked when a comparison follows the scan.
IndexPath(table) ==
  LET next == plan[2]
  IN IF Len(plan) < 2 \/ plan[2].kind # "Filter" \/ ~IsComparison(plan[2].predicate) THEN "none"
     ELSE IF UsesPk(table, next.predicate) THEN "pk"
     ELSE IF UsesSecondary(table, next.predicate) THEN "secondary" ELSE "none"

NodeQualifier(node) == IF node.alias # "" THEN node.alias ELSE node.table

Scanned(node, contents, rest) ==
  /\ \E r \in TableOrders(contents) : Continue(Catalog[node.table], r, NodeQualifier(node), rest)
  /\ candidates' = NotAsked /\ UNCHANGED world

FullScan ==
  LET node == Head(plan) IN
  /\ Running("Scan") /\ candidates = NotAsked /\ IndexPath(node.table) = "none"
  /\ Scanned(node, db[node.table], Tail(plan)) /\ Record(NodeQualifier(node), db[node.table])

\* The index is asked before the snapshot is taken.
AskIndex ==
  LET table == Head(plan).table  ts == plan[2].predicate IN
  /\ Running("Scan") /\ candidates = NotAsked /\ IndexPath(table) # "none"
  /\ candidates' = <<IF IndexPath(table) = "pk" THEN PkIds(table, ts[2].n[2], ts[3].v.v)
                     ELSE SecondaryIds(table, ts), db[table]>>
  /\ UNCHANGED <<phase, select, plan, schema, rows, prefix, read>> /\ UNCHANGED world

\* Each candidate is read at the snapshot; only a secondary index is stale and
\* the predicate is evaluated again.  The Filter node is skipped.
FetchCandidates ==
  LET node == Head(plan)  contents == db[node.table]
      compiled == Compile(plan[2].predicate, Catalog[node.table])
      Kept(id) == UsesPk(node.table, plan[2].predicate) \/ (compiled.ok /\ Eval(compiled, contents[id]))
      Of(found) == Restrict(contents, found \cap DOMAIN contents)
  IN /\ Running("Scan") /\ candidates # NotAsked
     /\ Scanned(node, Restrict(Of(candidates[1]), {id \in DOMAIN Of(candidates[1]) : Kept(id)}), Tail(Tail(plan)))
     /\ Record(NodeQualifier(node), IF contents = candidates[2] THEN contents ELSE Of(candidates[1]))

FilterNode ==
  LET compiled == Compile(Head(plan).predicate, schema) IN
  /\ Running("Filter") /\ UNCHANGED world
  /\ IF compiled.ok
     THEN Continue(schema, SelectSeq(rows, LAMBDA r : Eval(compiled, r)), prefix, Tail(plan)) /\ UNCHANGED <<candidates, read>>
     ELSE Fail

\* The right table is scanned under a fresh snapshot; ON must compare two
\* columns; an equality of one column of each side is a hash join.
JoinNode ==
  LET join == Head(plan).join
      right == Catalog[join.table]
      rp == OwnQualifier(join)
      cond == JoinCondition(join, schema, prefix, right, rp)
      merged == MergeSchemas(schema, prefix, right, rp)
      lw == Len(schema)
      a == Position(merged, cond.tokens[1].n)
      b == Position(merged, cond.tokens[3].n)
      fits == \/ cond.tokens = <<>>
              \/ IsComparison(cond.tokens) /\ cond.tokens[1].k = "column" /\ cond.tokens[3].k = "column"
                 /\ a # 0 /\ b # 0
      hashed == cond.tokens # <<>> /\ IsSym(cond.tokens[2], "=") /\ ((a <= lw) # (b <= lw))
      compiled == IF cond.tokens = <<>> THEN Reject ELSE Compile(cond.tokens, merged)
  IN /\ Running("Join")
     /\ IF join.table \notin Tables THEN Fail
        ELSE IF ~cond.ok \/ ~fits \/ (cond.tokens # <<>> /\ ~hashed /\ ~compiled.ok) THEN Fail
        ELSE /\ \E r \in TableOrders(db[join.table]) :
                  Continue(merged,
                    IF hashed THEN HashJoin(rows, Min({a, b}), r, Max({a, b}) - lw, join.kind, lw, Len(right))
                    ELSE NestedLoop(rows, r, compiled, join.kind, lw, Len(right)),
                    "", Tail(plan))
             /\ Record(rp, db[join.table]) /\ UNCHANGED candidates
     /\ UNCHANGED world

\* The schema stays the one before the aggregation.
AggregateNode ==
  LET node == Head(plan)
      calls == Calls(node.having)
      compiled == IF node.having = <<>> THEN Reject
                  ELSE Compile(RewriteCalls(node.having), SynthSchema(schema, node.group, calls))
  IN /\ Running("Aggregate") /\ UNCHANGED world
     /\ IF (\E g \in ToSet(node.group) : Position(schema, g) = 0) \/ (node.having # <<>> /\ ~compiled.ok)
        THEN Fail
        ELSE Continue(schema, AggregateRows(node.columns, node.group, schema, rows, compiled, calls),
                      prefix, Tail(plan)) /\ UNCHANGED <<candidates, read>>

ProjectNode ==
  LET node == Head(plan)
      at == [k \in DOMAIN node.columns |-> IF node.columns[k].f = "" THEN Position(schema, node.columns[k].arg) ELSE 0]
  IN /\ Running("Project") /\ UNCHANGED world
     /\ IF 0 \in ToSet(at) THEN Fail
        ELSE Continue([k \in DOMAIN at |-> schema[at[k]]],
                      [r \in DOMAIN rows |-> [k \in DOMAIN at |-> rows[r][at[k]]]],
                      prefix, Tail(plan)) /\ UNCHANGED <<candidates, read>>

\* A column, or a column, a distance operator and a vector; at is 0 for the rest.
SortKey(key) ==
  LET e == key.expr
      metric == IF Len(e) = 5 /\ e[2].n[2] \in {"<=>", "<->", "<#>"} /\ e[4].v.t = "Vector" THEN e[2].n[2] ELSE ""
  IN [at |-> IF e[1].k = "column" /\ (Len(e) = 1 \/ metric # "") THEN Position(schema, e[1].n) ELSE 0,
      metric |-> metric, target |-> IF metric = "" THEN 0 ELSE e[4].v.v, asc |-> key.asc]

\* A key that is no column of the schema is an error; a key past the end of
\* the row is an index out of bounds, as soon as two rows are compared that the
\* keys before it leave equal.
SortNode ==
  LET keys == [k \in DOMAIN Head(plan).keys |-> SortKey(Head(plan).keys[k])]
      beyond == {k \in DOMAIN keys : rows # <<>> /\ keys[k].at > Len(rows[1])}
      within == IF beyond = {} THEN keys ELSE SubSeq(keys, 1, Min(beyond) - 1)
      tied == \E i, j \in DOMAIN rows : i < j /\ ~Before(rows[i], rows[j], within) /\ ~Before(rows[j], rows[i], within)
  IN /\ Running("Sort") /\ UNCHANGED world
     /\ IF \E k \in DOMAIN keys : keys[k].at = 0 THEN Fail
        ELSE IF beyond # {} /\ tied THEN End("panicked")
        ELSE Continue(schema, SortRows(rows, within), prefix, Tail(plan)) /\ UNCHANGED <<candidates, read>>

DistinctNode ==
  /\ Running("Distinct") /\ UNCHANGED world
  /\ Continue(schema, DistinctRows(rows), prefix, Tail(plan)) /\ UNCHANGED <<candidates, read>>

LimitNode ==
  /\ Running("Limit") /\ UNCHANGED world
  /\ Continue(schema, LimitRows(rows, Head(plan).limit, Head(plan).offset), prefix, Tail(plan))
  /\ UNCHANGED <<candidates, read>>

Answer ==
  /\ phase = "running" /\ plan = <<>> /\ UNCHANGED world
  /\ End("answered")

Step == \/ FullScan \/ AskIndex \/ FetchCandidates \/ FilterNode \/ JoinNode \/ AggregateNode
        \/ ProjectNode \/ SortNode \/ DistinctNode \/ LimitNode \/ Answer

Next == \/ \E t \in Tables : \E c \in Contents[t] : Commit(t, c)
        \/ \E x \in IndexedBy : CreateIndex(x)
        \/ \E t \in Tables : Analyze(t)
        \/ Prepare \/ ExecutePrepared \/ ExecuteSql
        \/ Step

Spec == Init /\ [][Next]_vars
=============================================================================
