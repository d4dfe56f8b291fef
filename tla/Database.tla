------------------------------ MODULE Database -------------------------------
(* QueryExecutor as a database: open and recovery (execution/recovery.rs),   *)
(* the catalog, CREATE TABLE, CREATE INDEX, INSERT, UPDATE and DELETE on     *)
(* typed rows, with and without prepared parameters, a crash at any moment   *)
(* and failed log appends.  A statement runs in the steps other sessions can *)
(* come between at this level; the transaction of a write statement is one   *)
(* step (its own concurrency is the subject of OLTPEngine, DurableEngine and *)
(* SqlStatements).                                                           *)
EXTENDS SqlParser, Functions, TLC

CONSTANTS Sessions,
          Statements,      \* what sessions may send: [tree, prepared, params]
          InitialLogs,     \* what the log may hold when the database is first opened
          MaxStatements, MaxCrashes,
          Faults,          \* outcomes of a failed append: "fail" wrote nothing,
                           \*   "sync" wrote the record and failed afterwards
          Expressions,     \* the names among those in statements that are no simple
                           \*   identifiers: the binder lets them pass
          TwoTo64,         \* a small stand-in for 2^64
          Length(_)        \* of the payload of a Vector value: its number of components

ASSUME DatabaseAssumption == Faults \subseteq {"fail", "sync"} /\ TwoTo64 \in Nat \ {0}

\* What sqlparser hands over are sequences, and the integers in it integers.
IsSeq(s) == s \in Seq(ToSet(s))
IsInt(value) == value.t = "Integer" => value.v \in Int
IsText(tokens) == IsSeq(tokens) /\ \A token \in ToSet(tokens) : IsInt(token.v)
IsTree(tree) ==
  CASE tree.kind = "Insert" -> IsSeq(tree.columns) /\ (tree.source.kind = "Values" =>
         IsSeq(tree.source.rows) /\ \A row \in ToSet(tree.source.rows) :
           IsSeq(row) /\ \A field \in ToSet(row) : IsText(field))
    [] tree.kind = "Update"      -> IsSeq(tree.set) /\ (\A a \in ToSet(tree.set) : IsText(a[2])) /\ IsText(tree.where)
    [] tree.kind = "Delete"      -> IsText(tree.where)
    [] tree.kind = "CreateTable" -> IsSeq(tree.columns)
    [] OTHER -> TRUE
ASSUME StatementsAssumption ==
  \A sent \in Statements : IsTree(sent.tree) /\ \A value \in ToSet(sent.params) : IsInt(value)

VARIABLES
  log,       \* the records of the write-ahead log
  open,      \* the process runs
  catalog,   \* table id -> [name, columns]
  names,     \* table_names: name -> table id
  store,     \* table id -> row id -> the live versions of the row, newest last
  indexes,   \* <<table id, column>> -> {<<value, row id>>}
  vectors,   \* <<table id, column>> -> row id -> vector
  session,   \* what each session is doing
  issued, crashes,
  last,      \* history: the last write statement, with the table before and after
  raced      \* history: a table was written while an index on it was built

volatile == <<catalog, names, store, indexes, vectors, session>>
vars == <<log, open, volatile, issued, crashes, last, raced>>

Idle == [at |-> "idle", stmt |-> <<>>, id |-> 0, rows |-> <<>>, seen |-> <<>>]
Empty == [x \in {} |-> 0]
\* HashMap::insert
Put(map, key, value) == [k \in DOMAIN map \cup {key} |-> IF k = key THEN value ELSE map[k]]
AsU64(i) == i % TwoTo64
Name(c) == <<"", c>>

(* -------------------------- Schemas and the catalog ---------------------- *)
\* map_ddl_type: the first of these words that the DDL type contains; a raw
\* type stands here for the set of the words it contains.
MapDdlType(words) ==
  CASE "VECTOR" \in words -> "Vector"
    [] "VECTOR" \notin words /\ "BOOL" \in words -> "Boolean"
    [] words \cap {"VECTOR", "BOOL"} = {} /\ words \cap {"TIMESTAMP", "DATE"} # {} -> "Timestamp"
    [] words \cap {"VECTOR", "BOOL", "TIMESTAMP", "DATE"} = {} /\ "INT" \in words -> "Integer"
    [] words \cap {"VECTOR", "BOOL", "TIMESTAMP", "DATE", "INT"} = {} /\
       words \cap {"FLOAT", "DOUBLE", "DECIMAL", "NUMERIC", "REAL"} # {} -> "Float"
    [] OTHER -> "String"

\* The number in brackets, a set that is empty without one; only a vector's
\* counts, and a vector without one has 3 dimensions.
Dims(size) == IF size = {} THEN 3 ELSE CHOOSE n \in size : TRUE
NewSchema(stmt) == [name |-> stmt.table,
  columns |-> [i \in DOMAIN stmt.columns |->
                 LET c == stmt.columns[i] IN
                 [Column(Name(c.name), MapDdlType(c.type), c.pk) EXCEPT !.dims = Dims(c.size)]]]
TableNamed(name) == catalog[names[name]].columns
PkOf(schema) == LET at == {i \in DOMAIN schema : schema[i].pk} IN IF at = {} THEN 0 ELSE Min(at)

\* register_table: in both maps.
RegisterTable(c, id, schema) ==
  [c EXCEPT !.catalog = Put(@, id, schema), !.names = Put(@, schema.name, id)]
NextTableId == Max({0} \cup DOMAIN catalog) + 1

(* --------------------------- Rows and write sets ------------------------- *)
Contents(tables, id) == IF id \in DOMAIN tables THEN [r \in DOMAIN tables[id] |-> Last(tables[id][r])] ELSE Empty
WriteOp(op, id, r, row) == [op |-> op, table |-> id, id |-> r, row |-> row]
Versions(table, r) == IF r \in DOMAIN table THEN table[r] ELSE <<>>

\* An INSERT pushes a version, an UPDATE ends the newest and pushes one, a
\* DELETE ends the newest.
ApplyOp(table, w) ==
  LET old == Versions(table, w.id)
      new == CASE w.op = "Insert" -> Append(old, w.row)
               [] w.op = "Update" -> Append(IF old = <<>> THEN old ELSE Front(old), w.row)
               [] OTHER           -> IF old = <<>> THEN old ELSE Front(old)
  IN IF new = <<>> THEN Restrict(table, DOMAIN table \ {w.id}) ELSE Put(table, w.id, new)

\* apply_write_set skips what belongs to no table.
ApplyTo(tables, w) ==
  IF w.table \in DOMAIN tables THEN [tables EXCEPT ![w.table] = ApplyOp(@, w)] ELSE tables
ApplyWriteSet(tables, ops) ==
  LET after[i \in Nat] == IF i = 0 THEN tables ELSE ApplyTo(after[i - 1], ops[i]) IN after[Len(ops)]

CreateInStore(tables, id) == IF id \in DOMAIN tables THEN tables ELSE Put(tables, id, Empty)

(* -------------------------------- The log -------------------------------- *)
\* append: the outcomes are the record, nothing or the record with an error.
Append1(record) == log' = Append(log, record)
AppendFails(record) == \/ "fail" \in Faults /\ UNCHANGED log
                       \/ "sync" \in Faults /\ Append1(record)

Nothing == [catalog |-> Empty, names |-> Empty, store |-> Empty, specs |-> <<>>]
Redo(s, r) ==
  CASE r.kind = "CreateTable" -> RegisterTable([s EXCEPT !.store = CreateInStore(@, r.id)], r.id, r.schema)
    [] r.kind = "CreateIndex" -> [s EXCEPT !.specs = Append(@, <<r.id, r.column>>)]
    [] OTHER -> [s EXCEPT !.store = ApplyWriteSet(@, r.ops)]
Replay(records) ==
  LET after[i \in Nat] == IF i = 0 THEN Nothing ELSE Redo(after[i - 1], records[i]) IN after[Len(records)]

\* A rebuild fails for a table or a column that is not there, and open with it.
Rebuildable(s, x) == x[1] \in DOMAIN s.catalog /\ Position(s.catalog[x[1]].columns, Name(x[2])) # 0
IsVector(schema, c) == schema[Position(schema, Name(c))].type = "Vector"

At(schema, c) == Position(schema, Name(c))
Entries(contents, at) == {<<contents[r][at], r>> : r \in DOMAIN contents}

\* HNSWIndex::insert returns an error for a vector that has not the dimension
\* of the column; both callers ignore it, and the row is not entered.
HasDims(row, schema, c) == row[At(schema, c)].t = "Vector" /\ Length(row[At(schema, c)].v) = schema[At(schema, c)].dims
BuildVectors(contents, schema, c) ==
  [r \in {x \in DOMAIN contents : HasDims(contents[x], schema, c)} |-> contents[r][At(schema, c)]]

\* open: replay in log order, then rebuild every index ever created.
Recover ==
  LET s == Replay(log)
      Schema(x) == s.catalog[x[1]].columns
      Of(vector) == {x \in ToSet(s.specs) : IsVector(Schema(x), x[2]) = vector}
  IN /\ ~open /\ \A x \in ToSet(s.specs) : Rebuildable(s, x)
     /\ open' = TRUE /\ catalog' = s.catalog /\ names' = s.names /\ store' = s.store
     /\ indexes' = [x \in Of(FALSE) |-> Entries(Contents(s.store, x[1]), At(Schema(x), x[2]))]
     /\ vectors' = [x \in Of(TRUE) |-> BuildVectors(Contents(s.store, x[1]), Schema(x), x[2])]
     /\ session' = [c \in Sessions |-> Idle] /\ raced' = FALSE
     /\ UNCHANGED <<log, issued, crashes, last>>

Crash ==
  /\ open /\ crashes < MaxCrashes
  /\ open' = FALSE /\ crashes' = crashes + 1
  /\ catalog' = Empty /\ names' = Empty /\ store' = Empty /\ indexes' = Empty /\ vectors' = Empty
  /\ session' = [c \in Sessions |-> Idle]
  /\ UNCHANGED <<log, issued, last, raced>>

(* ------------------------- Binding and parameters ------------------------ *)
Fields(stmt) == FlattenSeq(stmt.rows) \o [i \in DOMAIN stmt.set |-> stmt.set[i][2]] \o <<stmt.where>>
Target(stmt) == IF stmt.kind = "insert" THEN stmt.columns
                ELSE IF stmt.kind = "index" THEN stmt.columns ELSE [i \in DOMAIN stmt.set |-> stmt.set[i][1]]

IsSimple(c) == c \notin Expressions
Binds(stmt) ==
  IF stmt.kind = "create" THEN stmt.table \notin DOMAIN names
  ELSE /\ stmt.table \in DOMAIN names
       /\ \A c \in ToSet(Target(stmt)) : IsSimple(c) => At(TableNamed(stmt.table), c) # 0
       /\ stmt.kind = "insert" => \A row \in ToSet(stmt.rows) :
            Len(row) = Len(IF stmt.columns = <<>> THEN TableNamed(stmt.table) ELSE stmt.columns)

\* execute_sql refuses placeholders; execute_prepared wants enough parameters.
ParametersFit(stmt) ==
  \E n \in ScanPlaceholders(Fields(stmt)) :
    IF stmt.prepared THEN stmt.kind \notin {"create", "index"} /\ Len(stmt.params) >= n ELSE n = 0

\* One counter of ? runs through the values, the assignments and WHERE.
Bind(stmt) ==
  LET fields == Fields(stmt)
      Before(k) == Len(PlaceholdersOf(FlattenSeq(SubSeq(fields, 1, k - 1)), TRUE))
      New(field, k) == Substitute(field, stmt.params, Before(k))
      values == Len(FlattenSeq(stmt.rows))
      Offset(i) == Len(FlattenSeq(SubSeq(stmt.rows, 1, i - 1)))
  IN [stmt EXCEPT !.rows = [i \in DOMAIN @ |-> [j \in DOMAIN @[i] |-> New(@[i][j], Offset(i) + j)]],
                  !.set = [i \in DOMAIN @ |-> <<@[i][1], New(@[i][2], values + i)>>],
                  !.where = New(@, Len(fields))]

\* execute_sql, or prepare and execute_prepared: parse, bind, count parameters.
Accepted(sent) ==
  LET parsed == {[p EXCEPT !.prepared = sent.prepared, !.params = sent.params] : p \in ConvertStatement(sent.tree)}
      fit == {p \in parsed : Binds(p) /\ ParametersFit(p)}
  IN IF fit = {} THEN Idle ELSE [Idle EXCEPT !.at = "bound", !.stmt = Bind(CHOOSE p \in fit : TRUE)]

Receive(c, sent) ==
  /\ open /\ session[c].at = "idle" /\ issued < MaxStatements
  /\ issued' = issued + 1 /\ session' = [session EXCEPT ![c] = Accepted(sent)]
  /\ UNCHANGED <<log, open, catalog, names, store, indexes, vectors, crashes, last, raced>>

Bound(c, kind) == session[c].at = "bound" /\ session[c].stmt.kind = kind
Become(c, s) == session' = [session EXCEPT ![c] = s]
counters == <<open, issued, crashes>>

(* ------------------------------ CREATE TABLE ----------------------------- *)
CreateTable_NoRecheck(c) ==
  LET stmt == session[c].stmt  record == [kind |-> "CreateTable", id |-> NextTableId, schema |-> NewSchema(stmt)]
      new == RegisterTable([catalog |-> catalog, names |-> names], record.id, record.schema)
  IN /\ Bound(c, "create") /\ Append1(record)
     /\ catalog' = new.catalog /\ names' = new.names
     /\ Become(c, [Idle EXCEPT !.at = "store", !.id = record.id])
     /\ UNCHANGED <<store, indexes, vectors, last, raced>> /\ UNCHANGED counters

\* Under the catalog's write lock: the name is checked again, the schema
\* logged, then registered.  The table of the store follows outside the lock.
CreateTable(c) ==
  LET stmt == session[c].stmt  record == [kind |-> "CreateTable", id |-> NextTableId, schema |-> NewSchema(stmt)]
      new == RegisterTable([catalog |-> catalog, names |-> names], record.id, record.schema)
  IN /\ Bound(c, "create")
     /\ \/ /\ stmt.table \notin DOMAIN names /\ Append1(record)
           /\ catalog' = new.catalog /\ names' = new.names
           /\ Become(c, [Idle EXCEPT !.at = "store", !.id = record.id])
        \/ /\ \/ stmt.table \in DOMAIN names /\ UNCHANGED log
              \/ stmt.table \notin DOMAIN names /\ AppendFails(record)
           /\ Become(c, Idle) /\ UNCHANGED <<catalog, names>>
     /\ UNCHANGED <<store, indexes, vectors, last, raced>> /\ UNCHANGED counters

StoreTable_Replaces(c) ==
  /\ session[c].at = "store" /\ Become(c, Idle)
  /\ store' = Put(store, session[c].id, Empty)
  /\ UNCHANGED <<log, catalog, names, indexes, vectors, last, raced>> /\ UNCHANGED counters

StoreTable(c) ==
  /\ session[c].at = "store" /\ Become(c, Idle)
  /\ store' = CreateInStore(store, session[c].id)
  /\ UNCHANGED <<log, catalog, names, indexes, vectors, last, raced>> /\ UNCHANGED counters

(* ------------------------------ CREATE INDEX ----------------------------- *)
LogIndex_Unchecked(c) ==
  LET stmt == session[c].stmt  record == [kind |-> "CreateIndex", id |-> names[stmt.table], column |-> stmt.columns[1]]
  IN /\ Bound(c, "index") /\ Append1(record)
     /\ Become(c, IF At(TableNamed(stmt.table), record.column) = 0 THEN Idle
                  ELSE [session[c] EXCEPT !.at = "build", !.id = record.id])
     /\ UNCHANGED <<catalog, names, store, indexes, vectors, last, raced>> /\ UNCHANGED counters

\* The column is looked up before anything is logged.
LogIndex(c) ==
  LET stmt == session[c].stmt  record == [kind |-> "CreateIndex", id |-> names[stmt.table], column |-> stmt.columns[1]]
      known == At(TableNamed(stmt.table), record.column) # 0
  IN /\ Bound(c, "index")
     /\ \/ known /\ Append1(record) /\ Become(c, [session[c] EXCEPT !.at = "build", !.id = record.id])
        \/ known /\ AppendFails(record) /\ Become(c, Idle)
        \/ ~known /\ UNCHANGED log /\ Become(c, Idle)
     /\ UNCHANGED <<catalog, names, store, indexes, vectors, last, raced>> /\ UNCHANGED counters

\* The scan of the rebuild, into an index nobody sees yet.
ScanForIndex(c) ==
  /\ session[c].at = "build"
  /\ Become(c, [session[c] EXCEPT !.at = "register", !.seen = Contents(store, session[c].id)])
  /\ UNCHANGED <<log, catalog, names, store, indexes, vectors, last, raced>> /\ UNCHANGED counters

RegisterIndex(c) ==
  LET s == session[c]  x == <<s.id, s.stmt.columns[1]>>  schema == catalog[s.id].columns
  IN /\ s.at = "register" /\ Become(c, Idle)
     /\ IF IsVector(schema, x[2])
        THEN vectors' = Put(vectors, x, BuildVectors(s.seen, schema, x[2])) /\ UNCHANGED indexes
        ELSE indexes' = Put(indexes, x, Entries(s.seen, At(schema, x[2]))) /\ UNCHANGED vectors
     /\ raced' = (raced \/ s.seen # Contents(store, s.id))
     /\ UNCHANGED <<log, catalog, names, store, last>> /\ UNCHANGED counters

(* --------------------------------- INSERT -------------------------------- *)
\* parse_literal_checked over a whole value: a set, empty for an expression.
Literal(ts, type) == IF Len(ts) = 1 THEN ParseLiteralChecked(ts[1], type) ELSE {}

\* order_insert_row: the values by position or by name, NULL for the rest.
OrderInsertRow(stmt, schema, row) ==
  LET Source(i) == IF stmt.columns = <<>> THEN {i}
                   ELSE {k \in DOMAIN stmt.columns : Name(stmt.columns[k]) = schema[i].name}
      Values(i) == IF Source(i) = {} THEN {NullValue} ELSE Literal(row[Max(Source(i))], schema[i].type)
  IN IF /\ \A i \in DOMAIN schema : Values(i) # {}
        /\ \A c \in ToSet(stmt.columns) : At(schema, c) # 0
     THEN {[i \in DOMAIN schema |-> CHOOSE v \in Values(i) : TRUE]} ELSE {}

\* The row id is the primary key, as an unsigned integer.
RowId(row, schema) ==
  IF PkOf(schema) # 0 /\ row[PkOf(schema)].t = "Integer" THEN {AsU64(row[PkOf(schema)].v)} ELSE {}

InsertOps(stmt, schema, id) ==
  LET Ops(values) == UNION {{WriteOp("Insert", id, r, row) : r \in RowId(row, schema)} :
                              row \in OrderInsertRow(stmt, schema, values)}
  IN IF PkOf(schema) # 0 /\ \A k \in DOMAIN stmt.rows : Ops(stmt.rows[k]) # {}
     THEN {[k \in DOMAIN stmt.rows |-> CHOOSE w \in Ops(stmt.rows[k]) : TRUE]} ELSE {}

(* --------------------------- UPDATE and DELETE --------------------------- *)
\* candidate_rows_for_write: a point read of the key, the candidates of an
\* index, or every row.
Candidates(stmt, schema, id, contents) ==
  LET ts == stmt.where
      compared == IsComparison(ts) /\ ts[1].k = "column"
      key == ParseValue(ts[3], schema[PkOf(schema)].type)
      x == <<id, ts[1].n[2]>>
      literal == ParseValue(ts[3], schema[At(schema, x[2])].type)
      isKey == compared /\ PkOf(schema) # 0 /\ ts[2].n[2] = "=" /\ ts[1].n = schema[PkOf(schema)].name /\ key.t = "Integer"
      isIndexed == compared /\ x \in DOMAIN indexes /\ ts[2].n[2] \in IndexedOps
  IN CASE isKey -> {AsU64(key.v)} \cap DOMAIN contents
       [] isIndexed /\ ~isKey ->
            {e[2] : e \in {f \in indexes[x] : KeyHolds(ts[2].n[2], f[1], literal)}} \cap DOMAIN contents
       [] OTHER -> DOMAIN contents

Supported(stmt, schema) == stmt.where = <<>> \/ Compile(stmt.where, schema).ok
Matching_Trusts(stmt, schema, id, contents) == Candidates(stmt, schema, id, contents)

\* WHERE is evaluated on every candidate, whichever way it was found.
Matching(stmt, schema, id, contents) ==
  {r \in Candidates(stmt, schema, id, contents) :
     stmt.where = <<>> \/ Eval(Compile(stmt.where, schema), contents[r])}

Assignments_AnyColumn(stmt, schema) ==
  [i \in DOMAIN stmt.set |->
     LET at == At(schema, stmt.set[i][1])
     IN IF at = 0 THEN {} ELSE CompileAssignment(stmt.set[i][2], schema, schema[at].type)]

\* The primary key cannot be assigned to.
Assignments(stmt, schema) ==
  [i \in DOMAIN stmt.set |->
     LET at == At(schema, stmt.set[i][1])
     IN IF at \in {0, PkOf(schema)} THEN {} ELSE CompileAssignment(stmt.set[i][2], schema, schema[at].type)]

\* Every assignment sees the row as it was; a type error fails the statement.
Assign(row, set, schema, values) ==
  LET after[i \in Nat] == IF i = 0 THEN row
        ELSE [after[i - 1] EXCEPT ![At(schema, set[i][1])] = CHOOSE x \in values[i] : TRUE]
  IN after[Len(set)]
NewRow(stmt, schema, row) ==
  LET compiled == Assignments(stmt, schema)
      values == [i \in DOMAIN stmt.set |-> EvalAssignment(CHOOSE a \in compiled[i] : TRUE, row)]
  IN IF {} \in ToSet(values) THEN {} ELSE {Assign(row, stmt.set, schema, values)}

UpdateOps(stmt, schema, id, contents) ==
  LET rows == SetToSeq(Matching(stmt, schema, id, contents))
  IN IF /\ \A i \in DOMAIN stmt.set : Assignments(stmt, schema)[i] # {}
        /\ Supported(stmt, schema)
        /\ \A r \in ToSet(rows) : NewRow(stmt, schema, contents[r]) # {}
     THEN {[k \in DOMAIN rows |-> WriteOp("Update", id, rows[k],
              CHOOSE x \in NewRow(stmt, schema, contents[rows[k]]) : TRUE)]} ELSE {}

DeleteOps(stmt, schema, id, contents) ==
  LET rows == SetToSeq(Matching(stmt, schema, id, contents))
  IN IF Supported(stmt, schema) THEN {[k \in DOMAIN rows |-> WriteOp("Delete", id, rows[k], <<>>)]} ELSE {}

WriteSets(stmt, schema, id, contents) ==
  CASE stmt.kind = "insert" -> InsertOps(stmt, schema, id)
    [] stmt.kind = "update" -> UpdateOps(stmt, schema, id, contents)
    [] OTHER                -> DeleteOps(stmt, schema, id, contents)

\* create_table runs after the first checks of the statement.
PassesFirst(stmt, schema) ==
  CASE stmt.kind = "insert" -> PkOf(schema) # 0
    [] stmt.kind = "update" -> \A i \in DOMAIN stmt.set : Assignments(stmt, schema)[i] # {}
    [] OTHER                -> TRUE

\* The transaction: log the write set unless it is empty, apply it.  What fails
\* before, or in the append, leaves nothing behind but the table of the store.
Write(c) ==
  LET s == session[c]  id == names[s.stmt.table]  schema == catalog[id].columns
      created == IF PassesFirst(s.stmt, schema) THEN CreateInStore(store, id) ELSE store
      before == Contents(created, id)
      sets == WriteSets(s.stmt, schema, id, before)
      Fails == Become(c, Idle) /\ store' = created /\ UNCHANGED last
      Succeeds(ops) ==
        /\ store' = ApplyWriteSet(created, ops)
        /\ last' = [stmt |-> s.stmt, id |-> id, schema |-> schema, before |-> created[id], after |-> store'[id],
                    indexed |-> {x[2] : x \in {y \in DOMAIN indexes : y[1] = id}},
                    lagging |-> raced \/ \E d \in Sessions : session[d].at = "enter" /\ session[d].rows # <<>>]
        /\ Become(c, [s EXCEPT !.at = "enter", !.id = id, !.rows = IF s.stmt.kind = "delete" THEN <<>> ELSE ops])
  IN /\ s.at = "bound" /\ s.stmt.kind \in {"insert", "update", "delete"}
     /\ \/ sets = {} /\ Fails /\ UNCHANGED log
        \/ \E ops \in sets :
             \/ ops = <<>> /\ Succeeds(ops) /\ UNCHANGED log
             \/ /\ ops # <<>>
                /\ \/ Append1([kind |-> "Commit", ops |-> ops]) /\ Succeeds(ops)
                   \/ AppendFails([kind |-> "Commit", ops |-> ops]) /\ Fails
     /\ UNCHANGED <<catalog, names, indexes, vectors, raced>> /\ UNCHANGED counters

EnterRow_ScalarOnly(c) ==
  LET s == session[c]  w == Head(s.rows)  schema == catalog[s.id].columns IN
  /\ s.at = "enter" /\ s.rows # <<>>
  /\ indexes' = [x \in DOMAIN indexes |->
       IF x[1] = s.id THEN indexes[x] \cup {<<w.row[At(schema, x[2])], w.id>>} ELSE indexes[x]]
  /\ Become(c, [s EXCEPT !.rows = Tail(@)])
  /\ UNCHANGED <<log, catalog, names, store, vectors, last, raced>> /\ UNCHANGED counters

\* After the commit, row by row: the secondary indexes get the new value; the
\* vector index refuses a vector of another dimension and an id it has (the
\* error is ignored) and keeps the old.
EnterRow(c) ==
  LET s == session[c]  w == Head(s.rows)  schema == catalog[s.id].columns IN
  /\ s.at = "enter" /\ s.rows # <<>>
  /\ indexes' = [x \in DOMAIN indexes |->
       IF x[1] = s.id THEN indexes[x] \cup {<<w.row[At(schema, x[2])], w.id>>} ELSE indexes[x]]
  /\ vectors' = [x \in DOMAIN vectors |->
       IF x[1] = s.id /\ HasDims(w.row, schema, x[2]) /\ w.id \notin DOMAIN vectors[x]
       THEN Put(vectors[x], w.id, w.row[At(schema, x[2])]) ELSE vectors[x]]
  /\ Become(c, [s EXCEPT !.rows = Tail(@)])
  /\ UNCHANGED <<log, catalog, names, store, last, raced>> /\ UNCHANGED counters

Return(c) ==
  /\ session[c].at = "enter" /\ session[c].rows = <<>> /\ Become(c, Idle)
  /\ UNCHANGED <<log, catalog, names, store, indexes, vectors, last, raced>> /\ UNCHANGED counters

Init ==
  /\ log \in InitialLogs /\ open = FALSE
  /\ catalog = Empty /\ names = Empty /\ store = Empty /\ indexes = Empty /\ vectors = Empty
  /\ session = [c \in Sessions |-> Idle]
  /\ issued = 0 /\ crashes = 0 /\ last = <<>> /\ raced = FALSE

Next == \/ Recover \/ Crash
        \/ \E c \in Sessions :
             \/ \E stmt \in Statements : Receive(c, stmt)
             \/ CreateTable(c) \/ StoreTable(c)
             \/ LogIndex(c) \/ ScanForIndex(c) \/ RegisterIndex(c)
             \/ Write(c) \/ EnterRow(c) \/ Return(c)

Spec == Init /\ [][Next]_vars

(* ---------------------------- What logs may hold ------------------------- *)
Agree(cat, nm) == {nm[n] : n \in DOMAIN nm} = DOMAIN cat /\ \A n \in DOMAIN nm : cat[nm[n]].name = n
IsSchema(columns) == IsSeq(columns) /\ \A column \in ToSet(columns) : column.name = Name(column.name[2])
KeyedBy(row, schema, r) ==
  DOMAIN row = DOMAIN schema /\ (\A i \in DOMAIN row : IsInt(row[i])) /\ RowId(row, schema) = {r} /\ r < TwoTo64
Keyed(table, schema) ==
  /\ IsFiniteSet(DOMAIN table)
  /\ \A r \in DOMAIN table : /\ IsSeq(table[r]) /\ table[r] # <<>>
                             /\ \A row \in ToSet(table[r]) : KeyedBy(row, schema, r)

Consistent(s) ==
  /\ s = [catalog |-> s.catalog, names |-> s.names, store |-> s.store, specs |-> s.specs]
  /\ IsFiniteSet(DOMAIN s.catalog) /\ DOMAIN s.catalog \subseteq Nat
  /\ Agree(s.catalog, s.names) /\ DOMAIN s.store = DOMAIN s.catalog
  /\ \A id \in DOMAIN s.catalog : IsSchema(s.catalog[id].columns) /\ Keyed(s.store[id], s.catalog[id].columns)
  /\ IsSeq(s.specs) /\ \A x \in ToSet(s.specs) : Rebuildable(s, x)

\* The first log is empty or of an earlier life of the database.
ASSUME LogAssumption == \A l \in InitialLogs : IsSeq(l) /\ Consistent(Replay(l))

(* ------------------------------- Properties ------------------------------ *)
\* Two sessions may both have passed the binder with the same new name; names
\* and ids still correspond one to one, in the catalog and after every replay.
NamesAndIdsAgree == Agree(catalog, names) /\ Agree(Replay(log).catalog, Replay(log).names)

\* At every moment the log alone gives the catalog and the rows the process
\* has: what a crash takes away recovery brings back, and nothing more.  A table
\* is in the catalog and not in the store only while its CREATE TABLE runs.
LogIsTheDatabase ==
  open => /\ Replay(log).catalog = catalog /\ Replay(log).names = names
          /\ DOMAIN store \subseteq DOMAIN catalog
          /\ \A id \in DOMAIN catalog \ DOMAIN store : \E c \in Sessions : session[c].at = "store" /\ session[c].id = id
          /\ \A id \in DOMAIN catalog : Contents(Replay(log).store, id) = Contents(store, id)

\* Every index the process uses is in the log, and the other way round when
\* nobody is building one; and open, which returns an error when one logged
\* index cannot be rebuilt, never does: no statement, also one that is refused,
\* leaves such a record behind.
IndexesAreLogged ==
  LET used == DOMAIN indexes \cup DOMAIN vectors  s == Replay(log)
  IN /\ \A x \in ToSet(s.specs) : Rebuildable(s, x)
     /\ open => used \subseteq ToSet(s.specs)
     /\ open /\ (\A c \in Sessions : session[c].at \notin {"build", "register"}) => used = ToSet(s.specs)

\* A row id is the row's primary key for ever, through updates and recovery:
\* the point reads of SELECT, UPDATE and DELETE rely on it.
RowIdIsTheKey ==
  \A id \in DOMAIN store : \A r \in DOMAIN store[id] : \A row \in ToSet(store[id][r]) :
    r < TwoTo64 /\ RowId(row, catalog[id].columns) = {r} /\ AsU64(row[PkOf(catalog[id].columns)].v) = r

\* A DELETE ends the newest version: of a key inserted twice the older is back.
Uncovered(records, id, r) ==
  \E k \in DOMAIN records :
    /\ records[k].kind = "Commit"
    /\ \E w \in ToSet(records[k].ops) : w.op = "Delete" /\ w.table = id /\ w.id = r
    /\ r \in DOMAIN Contents(Replay(SubSeq(records, 1, k)).store, id)

\* Every row that no session is still entering is found through the indexes
\* of its table, whether they were built, maintained or recovered, unless a
\* DELETE has uncovered an older version of it; through a vector index, though,
\* only a row whose vector has the dimension of its column: a literal of any
\* length is stored, against catalog.rs on Vector(384), and not indexed.
IndexesCoverRows ==
  ~raced => \A id \in DOMAIN store : \A r \in {x \in DOMAIN store[id] : ~Uncovered(log, id, x)} :
    LET row == Last(store[id][r])  schema == catalog[id].columns
        entering == \E c \in Sessions : session[c].at = "enter" /\ session[c].id = id /\
                      \E w \in ToSet(session[c].rows) : w.id = r
    IN entering \/
         /\ \A x \in DOMAIN indexes : x[1] = id => <<row[At(schema, x[2])], r>> \in indexes[x]
         /\ \A x \in DOMAIN vectors : x[1] = id /\ HasDims(row, schema, x[2]) => r \in DOMAIN vectors[x]

(* What a write statement w means, without row ids, indexes or candidates:   *)
(* the rows WHERE is true for change, all from their old values, the others  *)
(* stay.                                                                     *)
Chosen(w, row) == w.stmt.where = <<>> \/ EvalTri(Compile(w.stmt.where, w.schema).expr, row) = "True"
Value(w, row, i) ==
  LET set == w.stmt.set  assigned == {k \in DOMAIN set : set[k][1] = w.schema[i].name[2]}
  IN IF assigned = {} THEN {row[i]}
     ELSE UNION {EvalAssignment(a, row) : a \in CompileAssignment(set[Max(assigned)][2], w.schema, w.schema[i].type)}
ChangedAsMeant(w, r) ==
  LET row == w.before[r][1]  kind == w.stmt.kind
  IN CASE kind = "insert" \/ ~Chosen(w, row) -> Versions(w.after, r) = <<row>>
       [] kind = "delete" /\ Chosen(w, row) -> r \notin DOMAIN w.after
       [] OTHER -> /\ Len(Versions(w.after, r)) = 1
                   /\ \A i \in DOMAIN w.schema : w.after[r][1][i] \in Value(w, row, i)

\* Not meant: a key that is inserted twice.
Meant(w, r) == Len(w.before[r]) = 1 /\ Len(Versions(w.after, r)) <= 1

(* Nor an indexed column compared with anything but a literal of its type,   *)
(* where it holds a value of another type, or while a row has still to enter *)
(* the index; nor two columns of one name.                                   *)
Named(schema) == \A i, j \in DOMAIN schema : schema[i].name = schema[j].name => i = j
Searchable(w, records, r) ==
  IsComparison(w.stmt.where) /\ w.stmt.where[1].n[2] \in w.indexed =>
    LET i == At(w.schema, w.stmt.where[1].n[2])
    IN /\ ~w.lagging /\ ~Uncovered(records, w.id, r)
       /\ ParseLiteralChecked(w.stmt.where[3], w.schema[i].type) # {}
       /\ w.before[r][1][i].t \in {"Null", ValueType(w.schema[i].type)}

WritesMeanWhatTheySay ==
  last # <<>> /\ Named(last.schema) => \A r \in DOMAIN last.before :
    Meant(last, r) /\ Searchable(last, log, r) => ChangedAsMeant(last, r)
=============================================================================
