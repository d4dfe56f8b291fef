---------------------------- MODULE SqlStatements -----------------------------
(***************************************************************************)
(* SQL statements of QueryExecutor (src/src/execution/executor.rs) running *)
(* concurrently over OLTPEngine, with the table's primary-key index and    *)
(* one secondary index (secondary_index.rs) on one column.                 *)
(*                                                                         *)
(* Every transaction but Loader is one statement, autocommitted, driven by *)
(* one thread.  at[t] is what the executor does next for it; the engine's  *)
(* own steps (pc) run below it:                                            *)
(*   start    not called            begin    OLTPEngine::begin             *)
(*   lookup   choose the row source fetch    read the candidates one by one*)
(*   scan     read the whole table  write    lock and write row after row  *)
(*   error    abort                 end      commit or abort is running    *)
(*   index    after a commit: secondary-index entries, row after row       *)
(*   register CREATE INDEX: put the new index in place                     *)
(*   returned                                                              *)
(* A row is its primary key (the row id) and the value of the indexed      *)
(* column, which is what Data stands for.                                  *)
(***************************************************************************)
EXTENDS OLTPEngine, SequencesExt, FiniteSets

CONSTANTS Loader,      \* a transaction that has inserted Loaded before we start
          Loaded,      \* Loaded[r]: the value it inserted, or NoRow
          Statements,  \* the statements clients may issue, see Statement
          EvalError    \* a SET expression that cannot be computed

ASSUME LoaderAssumption == Loader \in Tx /\ MaxTs > 0
(* Row ids are u64; an INSERT stores rows, never their absence. *)
ASSUME RowsAssumption == IsFiniteSet(Row) /\ Loaded \in [Row -> Data \cup {NoRow}]
ASSUME DataAssumption == Data \subseteq Nat /\ EvalError \notin Data

(* WHERE: the rows and the values that satisfy it, and its shape: a
   comparison of the primary key, a comparison of the indexed column, or
   anything else (no WHERE, AND, OR, another column). *)
Where == [access : {"pk", "column", "other"}, rows : SUBSET Row, values : SUBSET Data]

Statement ==
         [kind : {"select", "delete"}, where : Where]
    \cup [kind : {"update"}, where : Where, set : [Data -> Data \cup {EvalError}]]
    \cup [kind : {"insert"}, rows : Seq(Row \X Data)]
    \cup [kind : {"createindex"}]

ASSUME StatementsAssumption == Statements \subseteq Statement

VARIABLES
    stmt,        \* stmt[t]: the statement of t
    at,          \* at[t]: see above
    todo,        \* todo[t]: the candidate rows still to be read
    rows,        \* rows[t]: <<row, value>> pairs read that satisfy WHERE, or to insert
    indexed,     \* indexed[t]: <<row, value>> pairs to enter into the indexes
    affected,    \* affected[t]: the number the statement reports
    index,       \* index[d]: the rows entered under d, in order of entry
    hasIndex,    \* an index is registered
    built,       \* built[t]: CREATE INDEX: the index under construction
    before,      \* history: before[t], what had returned when t was called
    raced        \* history: a writing statement overlapped a CREATE INDEX

sqlVars == <<stmt, at, todo, rows, indexed, affected, index, hasIndex, built, before, raced>>
allVars == <<vars, sqlVars>>

Clients == Tx \ {Loader}
Pairs == Row \X Data
EmptyIndex == [d \in Data |-> <<>>]

(* The state that Loader's INSERT has left: one commit, at timestamp 1. *)
LoadedRows == {r \in Row : Loaded[r] # NoRow}
LoaderOps == SetToSeq({[kind |-> "insert", row |-> r, data |-> Loaded[r]] : r \in LoadedRows})
LoadedChain(r) == IF r \in LoadedRows THEN PushVersion(EmptyChain, 1, Loaded[r]) ELSE EmptyChain

EngineInit ==
    /\ clock = 1
    /\ snapshots = {}
    /\ snap = [t \in Tx |-> 0]
    /\ ops = [t \in Tx |-> IF t = Loader THEN LoaderOps ELSE <<>>]
    /\ status = [t \in Tx |-> IF t = Loader THEN "committed" ELSE "none"]
    /\ Lock!Init
    /\ chain = [r \in Row |-> LoadedChain(r)]
    /\ pkIndex = LoadedRows
    /\ pc = [t \in Tx |-> IF t = Loader THEN "done" ELSE "new"]
    /\ cts = [t \in Tx |-> IF t = Loader THEN 1 ELSE 0]
    /\ cur = [t \in Tx |-> 1]
    /\ horizon = [t \in Tx |-> 0]
    /\ overtaken = [t \in Tx |-> FALSE]

SqlInit ==
    /\ EngineInit
    /\ stmt \in [Clients -> Statements]
    /\ at = [t \in Clients |-> "start"]
    /\ todo = [t \in Clients |-> <<>>]
    /\ rows = [t \in Clients |-> <<>>]
    /\ indexed = [t \in Clients |-> <<>>]
    /\ affected = [t \in Clients |-> 0]
    /\ index = EmptyIndex
    /\ hasIndex = FALSE
    /\ built = [t \in Clients |-> EmptyIndex]
    /\ before = [t \in Clients |-> {}]
    /\ raced = FALSE

Kind(t) == stmt[t].kind
IsWriter(t) == Kind(t) \in {"insert", "update", "delete"}
GoTo(t, place) == at' = [at EXCEPT ![t] = place]
Returned == {t \in Clients : at[t] = "returned"}

------------------------------------------------------------------------------
(* Row sources. *)
Matches(where, r, d) == d # NoRow /\ r \in where.rows /\ d \in where.values

(* scan_table at the snapshot, in the order of a hash map: any. *)
Scanned(t, where) ==
    {p \in Pairs : p[2] = Read(chain[p[1]], snap[t]) /\ Matches(where, p[1], p[2])}

(* SecondaryIndex::equals and ::range: the ids of every value in the range,
   each as often as it was entered. *)
Candidates(values) ==
    LET ascending == SetToSortSeq(values, <)
    IN FlattenSeq([i \in 1 .. Len(ascending) |-> index[ascending[i]]])

FoundRows_ExclusiveUpper(where) ==
    IF where.access = "pk" THEN pkIndex \cap where.rows
    ELSE UNION {ToSet(index[d]) : d \in {v \in where.values : \E w \in where.values : v < w}}

(* The ids a SELECT gets from the primary-key index (index_range), or from
   equals and range; it makes them a set. *)
FoundRows(where) ==
    IF where.access = "pk" THEN pkIndex \cap where.rows
    ELSE UNION {ToSet(index[d]) : d \in where.values}

(* A statement is called: a SELECT looks into an index first, without a
   transaction (try_pk_index_scan, try_secondary_index_scan). *)
SelectLookUp(t) ==
    LET where == stmt[t].where IN
    /\ at[t] = "start"
    /\ Kind(t) = "select"
    /\ where.access = "pk" \/ (where.access = "column" /\ hasIndex)
    /\ \E order \in SetToSeqs(FoundRows(where)) : todo' = [todo EXCEPT ![t] = order]
    /\ before' = [before EXCEPT ![t] = Returned]
    /\ GoTo(t, "fetch")
    /\ UNCHANGED <<vars, stmt, rows, indexed, affected, index, hasIndex, built, raced>>

(* Everything else begins its transaction first. *)
CallAndBegin(t) ==
    /\ at[t] = "start"
    /\ Kind(t) = "select" => ~ (\/ stmt[t].where.access = "pk"
                                \/ stmt[t].where.access = "column" /\ hasIndex)
    /\ BeginLoad(t)
    /\ before' = [before EXCEPT ![t] = Returned]
    /\ GoTo(t, "begin")
    /\ UNCHANGED <<stmt, todo, rows, indexed, affected, index, hasIndex, built, raced>>

BeginAfterLookUp(t) ==
    /\ at[t] = "fetch"
    /\ Begin(t)
    /\ UNCHANGED sqlVars

(* What follows begin; an INSERT has its rows from order_insert_row. *)
BeginReturns(t) ==
    /\ at[t] = "begin"
    /\ BeginRegister(t)
    /\ GoTo(t, CASE Kind(t) \in {"update", "delete"} -> "lookup"
                 [] Kind(t) = "insert" -> "write"
                 [] OTHER -> "scan")
    /\ rows' = IF Kind(t) = "insert" THEN [rows EXCEPT ![t] = stmt[t].rows] ELSE rows
    /\ UNCHANGED <<stmt, todo, indexed, affected, index, hasIndex, built, before, raced>>

(* candidate_rows_for_write: a point read, the index's candidates, or a scan. *)
WriteLookUp(t) ==
    LET where == stmt[t].where IN
    /\ at[t] = "lookup"
    /\ \/ /\ where.access = "pk" /\ Cardinality(where.rows) = 1
          /\ todo' = [todo EXCEPT ![t] = SetToSeq(where.rows)]
          /\ GoTo(t, "fetch")
          /\ UNCHANGED rows
       \/ /\ where.access = "column" /\ hasIndex
          /\ todo' = [todo EXCEPT ![t] = Candidates(where.values)]
          /\ GoTo(t, "fetch")
          /\ UNCHANGED rows
       \/ /\ ~ (where.access = "pk" /\ Cardinality(where.rows) = 1)
          /\ ~ (where.access = "column" /\ hasIndex)
          /\ \E order \in SetToSeqs(Scanned(t, where)) : rows' = [rows EXCEPT ![t] = order]
          /\ GoTo(t, "write")
          /\ UNCHANGED todo
    /\ UNCHANGED <<vars, stmt, indexed, affected, index, hasIndex, built, before, raced>>

(* A point read at the snapshot, and WHERE against what it returns. *)
Fetch(t) ==
    LET r == Head(todo[t])  d == Read(chain[r], snap[t]) IN
    /\ at[t] = "fetch" /\ pc[t] = "active"
    /\ todo[t] # <<>>
    /\ todo' = [todo EXCEPT ![t] = Tail(@)]
    /\ rows' = IF Matches(stmt[t].where, r, d) THEN [rows EXCEPT ![t] = Append(@, <<r, d>>)]
                                               ELSE rows
    /\ UNCHANGED <<vars, stmt, at, indexed, affected, index, hasIndex, built, before, raced>>

FetchEnds(t) ==
    /\ at[t] = "fetch" /\ pc[t] = "active"
    /\ todo[t] = <<>>
    /\ IF Kind(t) = "select" THEN Abort(t) /\ GoTo(t, "end")
                             ELSE UNCHANGED vars /\ GoTo(t, "write")
    /\ UNCHANGED <<stmt, todo, rows, indexed, affected, index, hasIndex, built, before, raced>>

(* A read-only statement scans inside with_read_snapshot, which aborts. *)
SelectScan(t) ==
    /\ at[t] = "scan" /\ Kind(t) = "select"
    /\ Abort(t)
    /\ rows' = [rows EXCEPT ![t] = SetToSeq(Scanned(t, stmt[t].where))]
    /\ GoTo(t, "end")
    /\ UNCHANGED <<stmt, todo, indexed, affected, index, hasIndex, built, before, raced>>

(* rebuild_secondary_index: the scan, into an index nobody sees yet. *)
BuildIndex(t) ==
    /\ at[t] = "scan" /\ Kind(t) = "createindex"
    /\ Abort(t)
    /\ built' = [built EXCEPT ![t] =
          [d \in Data |-> SetToSeq({r \in Row : Read(chain[r], snap[t]) = d})]]
    /\ GoTo(t, "end")
    /\ UNCHANGED <<stmt, todo, rows, indexed, affected, index, hasIndex, before, raced>>

------------------------------------------------------------------------------
(* Writing, row after row. *)
Next1(t) == rows' = [rows EXCEPT ![t] = Tail(@)]
Wrote(t, r, d) ==
    /\ affected' = [affected EXCEPT ![t] = @ + 1]
    /\ indexed' = IF d = NoRow THEN indexed ELSE [indexed EXCEPT ![t] = Append(@, <<r, d>>)]

InsertRow(t) ==
    LET r == Head(rows[t])[1]  d == Head(rows[t])[2] IN
    /\ at[t] = "write" /\ Kind(t) = "insert" /\ rows[t] # <<>>
    /\ Write(t, [kind |-> "insert", row |-> r, data |-> d])
    /\ Wrote(t, r, d)
    /\ Next1(t)
    /\ UNCHANGED <<stmt, at, todo, index, hasIndex, built, before, raced>>

UpdateRow_FromSnapshot(t) ==
    LET r == Head(rows[t])[1]  d == stmt[t].set[Head(rows[t])[2]] IN
    /\ at[t] = "write" /\ Kind(t) = "update" /\ rows[t] # <<>>
    /\ d # EvalError
    /\ Write(t, [kind |-> "update", row |-> r, data |-> d])
    /\ Wrote(t, r, d)
    /\ Next1(t)
    /\ UNCHANGED <<stmt, at, todo, index, hasIndex, built, before, raced>>

(* execute_update: the lock, the row's latest committed value, WHERE again,
   and SET computed from that value.  What happens between taking the lock
   and buffering the write cannot be told apart from one step: the row's
   last committed value is fixed while the lock is held. *)
UpdateRow(t) ==
    LET r == Head(rows[t])[1]
        now == Read(chain[r], clock)
        d == stmt[t].set[now]
    IN
    /\ at[t] = "write" /\ Kind(t) = "update" /\ rows[t] # <<>>
    /\ Matches(stmt[t].where, r, now)
    /\ d # EvalError
    /\ Write(t, [kind |-> "update", row |-> r, data |-> d])
    /\ Wrote(t, r, d)
    /\ Next1(t)
    /\ UNCHANGED <<stmt, at, todo, index, hasIndex, built, before, raced>>

(* The row is gone or no longer matches: locked, and left alone. *)
UpdateSkips(t) ==
    LET r == Head(rows[t])[1] IN
    /\ at[t] = "write" /\ Kind(t) = "update" /\ rows[t] # <<>>
    /\ ~ Matches(stmt[t].where, r, Read(chain[r], clock))
    /\ LockRow(t, r)
    /\ Next1(t)
    /\ UNCHANGED <<stmt, at, todo, indexed, affected, index, hasIndex, built, before, raced>>

(* SET cannot be computed: the lock is taken, the statement is aborted. *)
UpdateFails(t) ==
    LET r == Head(rows[t])[1]
        now == Read(chain[r], clock)
    IN
    /\ at[t] = "write" /\ Kind(t) = "update" /\ rows[t] # <<>>
    /\ Matches(stmt[t].where, r, now)
    /\ stmt[t].set[now] = EvalError
    /\ LockRow(t, r)
    /\ GoTo(t, "error")
    /\ UNCHANGED <<stmt, todo, rows, indexed, affected, index, hasIndex, built, before, raced>>

(* execute_delete writes what matched in the snapshot. *)
DeleteRow(t) ==
    LET r == Head(rows[t])[1] IN
    /\ at[t] = "write" /\ Kind(t) = "delete" /\ rows[t] # <<>>
    /\ Write(t, [kind |-> "delete", row |-> r, data |-> NoRow])
    /\ Wrote(t, r, NoRow)
    /\ Next1(t)
    /\ UNCHANGED <<stmt, at, todo, index, hasIndex, built, before, raced>>

(* acquire_exclusive can time out only while somebody else has the row. *)
LockTimesOut(t) ==
    /\ at[t] = "write" /\ rows[t] # <<>>
    /\ owner[Head(rows[t])[1]] \notin {NoTx, t}
    /\ GoTo(t, "error")
    /\ UNCHANGED <<vars, stmt, todo, rows, indexed, affected, index, hasIndex, built, before, raced>>

AbortStatement(t) ==
    /\ at[t] = "error"
    /\ Abort(t)
    /\ GoTo(t, "end")
    /\ UNCHANGED <<stmt, todo, rows, indexed, affected, index, hasIndex, built, before, raced>>

CommitStatement(t) ==
    /\ at[t] = "write" /\ rows[t] = <<>>
    /\ Commit(t)
    /\ GoTo(t, "end")
    /\ UNCHANGED <<stmt, todo, rows, indexed, affected, index, hasIndex, built, before, raced>>

(* The engine's own steps. *)
EngineStep(t) == Finish(t) /\ UNCHANGED sqlVars

StatementEnds_SkipsIndex(t) ==
    /\ at[t] = "end" /\ pc[t] = "done"
    /\ GoTo(t, IF Kind(t) = "createindex" THEN "register" ELSE "returned")
    /\ UNCHANGED <<vars, stmt, todo, rows, indexed, affected, index, hasIndex, built, before, raced>>

(* commit or abort has returned. *)
StatementEnds(t) ==
    /\ at[t] = "end" /\ pc[t] = "done"
    /\ GoTo(t, IF Kind(t) = "createindex" THEN "register"
               ELSE IF status[t] = "committed" /\ indexed[t] # <<>> THEN "index" ELSE "returned")
    /\ UNCHANGED <<vars, stmt, todo, rows, indexed, affected, index, hasIndex, built, before, raced>>

(* index_row_in_secondary_indexes: nothing to do without an index. *)
IndexRow(t) ==
    LET r == Head(indexed[t])[1]  d == Head(indexed[t])[2] IN
    /\ at[t] = "index"
    /\ index' = IF hasIndex THEN [index EXCEPT ![d] = Append(@, r)] ELSE index
    /\ indexed' = [indexed EXCEPT ![t] = Tail(@)]
    /\ GoTo(t, IF Len(indexed[t]) = 1 THEN "returned" ELSE "index")
    /\ UNCHANGED <<vars, stmt, todo, rows, affected, hasIndex, built, before, raced>>

(* The index built is put in place of whatever was there. *)
Register(t) ==
    /\ at[t] = "register"
    /\ index' = built[t]
    /\ hasIndex' = TRUE
    /\ raced' = (raced \/ \E u \in Clients : IsWriter(u) /\ at[u] # "start" /\ u \notin before[t])
    /\ GoTo(t, "returned")
    /\ UNCHANGED <<vars, stmt, todo, rows, indexed, affected, built, before>>

SqlNext == \E t \in Clients :
    \/ SelectLookUp(t) \/ CallAndBegin(t) \/ BeginAfterLookUp(t) \/ BeginReturns(t)
    \/ WriteLookUp(t) \/ Fetch(t) \/ FetchEnds(t) \/ SelectScan(t) \/ BuildIndex(t)
    \/ InsertRow(t) \/ UpdateRow(t) \/ UpdateSkips(t) \/ UpdateFails(t) \/ DeleteRow(t)
    \/ LockTimesOut(t) \/ AbortStatement(t) \/ CommitStatement(t) \/ EngineStep(t)
    \/ StatementEnds(t) \/ IndexRow(t) \/ Register(t)

SqlSpec == SqlInit /\ [][SqlNext]_allVars

------------------------------------------------------------------------------
Committed(t) == t \in Clients /\ status[t] = "committed"

(* No lost update: what an UPDATE leaves in a row is its SET applied to the
   value committed immediately before it, which satisfied its WHERE, however
   many UPDATEs and DELETEs ran on the row meanwhile (execute_update reads
   the row again under its lock). *)
UpdatesFollowTheirPredecessor ==
    \A t \in Clients : Committed(t) /\ Kind(t) = "update" =>
        \A i \in DOMAIN ops[t] :
            LET r == ops[t][i].row
                previous == CommittedValue(r, cts[t] - 1)
            IN /\ Matches(stmt[t].where, r, previous)
               /\ ops[t][i].data = stmt[t].set[previous]

(* No statement that has written r, or is about to enter r into the indexes,
   is still running. *)
Settled(r) == \A u \in Clients : Writes(u, r) => at[u] = "returned"

(* secondary_index.rs: the index is "maintained incrementally": the entries
   under a row's value lead to the row. *)
IndexFindsRows ==
    hasIndex => \A r \in Row :
        LET d == Read(chain[r], clock)
        IN Settled(r) /\ d # NoRow => r \in ToSet(index[d])

(* This holds unless a writing statement overlapped a CREATE INDEX: no order
   of commits and index entries of concurrent statements loses a row. *)
IndexFindsRowsUnlessRaced == ~ raced => IndexFindsRows

(* A SELECT, whichever way it finds its rows, returns a row once if it
   matches and not at all if not, provided that every statement that wrote
   the row had returned before the SELECT was called: stale, duplicate and
   missing index entries do not show. *)
SelectSeesReturned ==
    \A t \in Clients : at[t] = "returned" /\ Kind(t) = "select" /\ ~ raced =>
        \A r \in Row :
            LET d == CommittedValue(r, clock)
                found == {i \in DOMAIN rows[t] : rows[t][i][1] = r}
            IN (\A u \in Clients : Writes(u, r) => u \in before[t])
               => IF Matches(stmt[t].where, r, d)
                    THEN Cardinality(found) = 1 /\ \A i \in found : rows[t][i] = <<r, d>>
                    ELSE found = {}
==============================================================================
