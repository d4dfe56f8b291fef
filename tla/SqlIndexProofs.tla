---------------------------- MODULE SqlIndexProofs ----------------------------
(***************************************************************************)
(* Proofs about the secondary index of SqlStatements and about what a      *)
(* SELECT returns, for any table, any statements and any number of         *)
(* clients: no order of commits, index entries and CREATE INDEX hides a    *)
(* row, unless a CREATE INDEX overlaps a writer, and stale or duplicate    *)
(* entries do not show.                                                    *)
(***************************************************************************)
EXTENDS SqlStatementsProofs

------------------------------------------------------------------------------
(* Where a statement is, and where its transaction is then. *)
Places == {"start", "begin", "lookup", "fetch", "scan", "write", "error", "end", "index",
           "register", "returned"}
InStep(t) ==
    /\ at[t] = "start" => pc[t] = "new"
    /\ at[t] = "begin" => pc[t] = "loaded"
    /\ at[t] = "fetch" => pc[t] \in {"new", "loaded", "active"}
    /\ at[t] \in {"lookup", "scan", "write", "error"} => pc[t] = "active"
    /\ at[t] = "end" => pc[t] \notin {"new", "loaded", "active"}
    /\ at[t] \in {"index", "register", "returned"} => pc[t] = "done"
    /\ at[t] = "index" => indexed[t] # <<>>
OfKind(t) ==
    /\ at[t] \in {"write", "error", "index"} => IsWriter(t)
    /\ at[t] = "register" => Kind(t) = "createindex"
    /\ at[t] = "lookup" => Kind(t) \in {"update", "delete"}
    /\ at[t] = "scan" => Kind(t) \in {"select", "createindex"}
    /\ (ops[t] # <<>> \/ indexed[t] # <<>>) => IsWriter(t)
Shaped ==
    /\ at \in [Clients -> Places]
    /\ indexed \in [Clients -> Seq(Pairs)]
    /\ index \in [Data -> Seq(Row)]
    /\ built \in [Clients -> [Data -> Seq(Row)]]
    /\ DOMAIN todo = Clients /\ DOMAIN before = Clients
    /\ pc[Loader] = "done"
Running == Shaped /\ \A t \in Clients : InStep(t) /\ OfKind(t)

(* What a writer still has to enter is everything it has written. *)
Listed(t) ==
    at[t] \notin {"index", "register", "returned"} =>
        \A i \in DOMAIN ops[t] :
            ops[t][i].data # NoRow => <<ops[t][i].row, ops[t][i].data>> \in ToSet(indexed[t])

(* Calls come after returns. *)
CalledAfter == \A t \in Clients : before[t] \subseteq Returned

(* A row that can be read is in the index, or on its way into it. *)
Owes(u, r, d) == /\ Done(u, r) # {}
                 /\ at[u] \in {"end", "index"}
                 /\ <<r, d>> \in ToSet(indexed[u])
EntriesAreThere ==
    hasIndex /\ ~ raced =>
        \A r \in Row, d \in Data :
            Read(chain[r], clock) = d =>
                r \in ToSet(index[d]) \/ \E u \in Clients : Owes(u, r, d)

(* Nobody can have written since the CREATE INDEX c was called. *)
NoWriterSince(c) ==
    \A u \in Clients : IsWriter(u) /\ at[u] # "start" => u \in before[c]
BuiltIsCurrent ==
    \A c \in Clients : Kind(c) = "createindex" /\ NoWriterSince(c) =>
        /\ at[c] \in {"begin", "scan"} => snap[c] = clock
        /\ at[c] \in {"end", "register"} =>
               \A r \in Row, d \in Data :
                   Read(chain[r], clock) = d => r \in ToSet(built[c][d])

(* A transaction's snapshot is not before what had returned when it was called. *)
SnapshotsFollowReturns ==
    \A t \in Clients : pc[t] \in {"loaded", "active"} =>
        \A u \in before[t] \cup {Loader} : cts[u] <= snap[t]

(* A SELECT reads each candidate once ... *)
ReadsOnce ==
    \A t \in Clients : Kind(t) = "select" =>
        /\ at[t] \in {"start", "begin", "scan"} => rows[t] = <<>>
        /\ rows[t] \in Seq(Pairs)
        /\ \A i, j \in DOMAIN rows[t] : rows[t][i][1] = rows[t][j][1] => i = j
        /\ at[t] = "fetch" =>
               /\ todo[t] \in Seq(Row) /\ IsInjective(todo[t])
               /\ \A i \in DOMAIN rows[t] : rows[t][i][1] \notin ToSet(todo[t])

(* ... and of the rows that nobody else writes has what is there, no more
   and, once it has read its candidates, no less. *)
AllBefore(t, r) == \A u \in Clients : Done(u, r) # {} => u \in before[t]
Sees(t, r) ==
    LET d == Read(chain[r], clock) IN
    /\ Matches(stmt[t].where, r, d) =>
           \/ <<r, d>> \in ToSet(rows[t])
           \/ at[t] = "fetch" /\ r \in ToSet(todo[t])
    /\ \A i \in DOMAIN rows[t] : rows[t][i][1] = r =>
           rows[t][i] = <<r, d>> /\ Matches(stmt[t].where, r, d)
SelectsSee ==
    \A t \in Clients : Kind(t) = "select" /\ at[t] \in {"fetch", "end", "returned"} /\ ~ raced =>
        \A r \in Row : AllBefore(t, r) => Sees(t, r)

------------------------------------------------------------------------------
(* Reads at or after everything that was written to a chain see one value. *)
LEMMA LiveReads ==
    ASSUME NEW c \in VersionChain, NEW n \in Ts, NEW s \in Ts, n <= s, UpTo(c, n)
    PROVE  Read(c, s) = Read(c, n)
<1>1. ASSUME NEW v \in c.versions PROVE VisibleAt(v, s) <=> VisibleAt(v, n)
  <2>1. /\ v.begin_ts \in Nat /\ v.end_ts \in Nat /\ v.begin_ts <= n
        /\ v.end_ts <= n \/ v.end_ts = TS_INFINITY
    BY MaxTsAssumption DEF VersionChain, RowVersion, Ts, TS_INFINITY, UpTo
  <2> QED
    BY <2>1, MaxTsAssumption DEF VisibleAt, Ts, TS_INFINITY
<1>2. Visible(c, s) = Visible(c, n)
  BY <1>1 DEF Visible
<1> QED
  BY <1>2 DEF Read

LEMMA ChainsUpToClock ==
    ASSUME Reading, NEW r \in Row
    PROVE  UpTo(chain[r], clock) /\ chain[r] \in VersionChain /\ clock \in Ts
<1>0. /\ TypeOK /\ Stages /\ chain[r] \in VersionChain /\ clock \in Ts
      /\ \A u \in Tx : cts[u] \in Nat /\ cts[u] <= clock
  BY DEF Reading, SweepInv, Typed, TypeOK, Stages, Ts
<1> SUFFICES ASSUME NEW v \in chain[r].versions
             PROVE  v.begin_ts <= clock /\ (v.end_ts <= clock \/ v.end_ts = TS_INFINITY)
  BY <1>0 DEF UpTo
<1>1. PICK u \in Tx : v.begin_ts <= cts[u] /\ (v.end_ts <= cts[u] \/ v.end_ts = TS_INFINITY)
  BY DEF Reading, ChainsArePast
<1>2. v.begin_ts \in Nat /\ v.end_ts \in Nat /\ clock \in Nat
  BY <1>0, MaxTsAssumption DEF VersionChain, RowVersion, Ts, TS_INFINITY
<1> QED
  BY <1>0, <1>1, <1>2

LEMMA ClockMoves ==
    ASSUME TypeOK, [Next]_vars
    PROVE  clock' = clock \/ \E t \in Tx : Commit(t) /\ clock' = clock + 1
BY DEF Next, Begin, BeginLoad, BeginRegister, Write, LockRow, Commit, Abort, Finish,
   LogWrites, LogFails, ApplyOp, IndexInsert, Applied, Release, Unsnap, ComputeHorizon, Sweep, SkipSweep,
   CommitReturns, vars, engine

(* ApplyOp is the step that adds to what has been applied. *)
LEMMA ApplyCounts ==
    ASSUME Reading, NEW t \in Tx, ApplyOp(t)
    PROVE  /\ AppliedCount(t) = cur[t] - 1 /\ AppliedCount(t)' = cur[t] /\ ops' = ops
           /\ \A u \in Tx \ {t} : AppliedCount(u)' = AppliedCount(u)
<1>0. /\ TypeOK /\ Stages /\ pc[t] = "apply" /\ status[t] # "committed"
      /\ ops' = ops /\ cts' = cts /\ status' = status
  BY DEF Reading, SweepInv, Typed, ApplyOp, Stages
<1>1. \/ pc' = [pc EXCEPT ![t] = "index"] /\ cur' = cur
      \/ pc' = pc /\ cur' = [cur EXCEPT ![t] = @ + 1]
  BY DEF ApplyOp, Goto
<1>2. /\ \A u \in Tx \ {t} : pc'[u] = pc[u] /\ cur'[u] = cur[u]
      /\ cur[t] \in Nat
      /\ \/ pc'[t] = "index" /\ cur'[t] = cur[t]
         \/ pc'[t] = "apply" /\ cur'[t] = cur[t] + 1
  BY <1>0, <1>1 DEF TypeOK
<1> QED
  BY <1>0, <1>2 DEF AppliedCount

LEMMA DoneGrows ==
    ASSUME Reading, [Next]_vars, NEW u \in Tx, NEW r \in Row, Done(u, r) # {}
    PROVE  Done(u, r)' # {}
<1>1. CASE ~ \E t \in Tx : ApplyOp(t)
  BY <1>1, DoneStays DEF Reading, SweepInv
<1>2. ASSUME NEW t \in Tx, ApplyOp(t) PROVE Done(u, r)' # {}
  <2>1. /\ ops' = ops /\ cur[t] \in Nat
        /\ \A i \in OwnOps(u, r) : i \in Nat
    BY <1>2 DEF ApplyOp, Reading, SweepInv, Typed, TypeOK, OwnOps
  <2>2. u # t => AppliedCount(u)' = AppliedCount(u)
    BY <1>2, ApplyCounts
  <2>3. u = t => AppliedCount(u) = cur[t] - 1 /\ AppliedCount(u)' = cur[t]
    BY <1>2, ApplyCounts
  <2>4. PICK i \in OwnOps(u, r) : i <= AppliedCount(u)
    BY DEF Done
  <2>5. i <= AppliedCount(u)'
    BY <2>1, <2>2, <2>3, <2>4
  <2>6. i \in OwnOps(u, r)'
    BY <2>1, <2>4 DEF OwnOps
  <2> QED
    BY <2>5, <2>6 DEF Done
<1> QED
  BY <1>1, <1>2

(* Only the application of a write changes what a row is now. *)
LEMMA CurrentReads ==
    ASSUME UniqueKeys, Reading, [Next]_vars, NEW r \in Row
    PROVE  \/ Read(chain[r], clock)' = Read(chain[r], clock)
           \/ \E t \in Tx : /\ ApplyOp(t) /\ r = ops[t][cur[t]].row
                            /\ Read(chain[r], clock)' = ops[t][cur[t]].data
                            /\ cur[t] \in OwnOps(t, r)
                            /\ Done(t, r)' # {}
<1>0. /\ TypeOK /\ SweepInv /\ Typed' /\ clock' \in Ts /\ clock \in Nat
      /\ UpTo(chain[r], clock) /\ chain[r] \in VersionChain /\ clock \in Ts
  <2>1. Reading'
    BY ReadingStep
  <2>2. Typed' /\ clock' \in Ts
    BY <2>1 DEF Reading, SweepInv, Typed, TypeOK
  <2>3. TypeOK /\ SweepInv /\ clock \in Ts /\ clock \in Nat
    BY DEF Reading, SweepInv, Typed, TypeOK, Ts
  <2> QED
    BY <2>2, <2>3, ChainsUpToClock
<1>1. CASE ~ \E t \in Tx : ApplyOp(t)
  <2>1. clock <= clock'
    BY <1>0, ClockMoves
  <2>2. Read(chain'[r], clock') = Read(chain[r], clock')
    BY <1>0, <1>1, <2>1, ReadsStay DEF Protected
  <2>3. Read(chain[r], clock') = Read(chain[r], clock)
    BY <1>0, <2>1, LiveReads
  <2> QED
    BY <2>2, <2>3
<1>2. ASSUME NEW t \in Tx, ApplyOp(t)
      PROVE  \/ Read(chain[r], clock)' = Read(chain[r], clock)
             \/ /\ r = ops[t][cur[t]].row
                /\ Read(chain[r], clock)' = ops[t][cur[t]].data
                /\ cur[t] \in OwnOps(t, r)
                /\ Done(t, r)' # {}
  <2> DEFINE op == ops[t][cur[t]]
  <2>1. clock' = clock /\ chain' = [chain EXCEPT ![op.row] = Apply(chain[op.row], op, cts[t])]
    BY <1>2 DEF ApplyOp
  <2>2. CASE r # op.row
    <3>1. chain'[r] = chain[r]
      BY <1>0, <2>1, <2>2 DEF TypeOK
    <3> QED
      BY <2>1, <3>1
  <2>3. CASE r = op.row
    <3>1. /\ op \in Op /\ cts[t] \in Ts /\ cur[t] \in OwnOps(t, r)
          /\ PosBounded(chain[r]) /\ Disjoint(chain[r]) /\ UpTo(chain[r], cts[t])
          /\ op.kind = "insert" => NoneLive(chain[r])
      BY <1>2, <2>3, ApplyOpFinds
    <3>2. cts[t] <= clock
      BY DEF Reading, Stages
    <3>3. chain'[r] = Apply(chain[r], op, cts[t])
      BY <1>0, <2>1, <2>3 DEF TypeOK
    <3>4. Read(chain'[r], clock) = op.data
      <4> HIDE DEF op
      <4>1. Read(Apply(chain[r], op, cts[t]), clock) = op.data
        BY <1>0, <3>1, <3>2, ApplyReads
      <4> QED
        BY <3>3, <4>1
    <3>5. Done(t, r)' # {}
      <4>1. AppliedCount(t)' = cur[t] /\ ops' = ops
        BY <1>2, ApplyCounts
      <4>2. cur[t] \in OwnOps(t, r)' /\ cur[t] \in Nat
        BY <1>0, <3>1, <4>1 DEF OwnOps, TypeOK
      <4> QED
        BY <4>1, <4>2 DEF Done
    <3> QED
      BY <2>1, <2>3, <3>1, <3>4, <3>5
  <2> QED
    BY <2>2, <2>3
<1> QED
  BY <1>1, <1>2

------------------------------------------------------------------------------
(* A step is one client's, and leaves alone what belongs to the others. *)
ClientStep(t) ==
    \/ SelectLookUp(t) \/ CallAndBegin(t) \/ BeginAfterLookUp(t) \/ BeginReturns(t)
    \/ WriteLookUp(t) \/ Fetch(t) \/ FetchEnds(t) \/ SelectScan(t) \/ BuildIndex(t)
    \/ InsertRow(t) \/ UpdateRow(t) \/ UpdateSkips(t) \/ UpdateFails(t) \/ DeleteRow(t)
    \/ LockTimesOut(t) \/ AbortStatement(t) \/ CommitStatement(t) \/ EngineStep(t)
    \/ StatementEnds(t) \/ IndexRow(t) \/ Register(t)
EngineApart(t) ==
    \A u \in Tx \ {t} : /\ pc'[u] = pc[u] /\ ops'[u] = ops[u] /\ cur'[u] = cur[u]
                        /\ cts'[u] = cts[u] /\ snap'[u] = snap[u]
StatementApart(t) ==
    \A u \in Clients \ {t} : /\ at'[u] = at[u] /\ todo'[u] = todo[u] /\ rows'[u] = rows[u]
                             /\ indexed'[u] = indexed[u] /\ built'[u] = built[u]
                             /\ before'[u] = before[u]

LEMMA EngineStepsApart ==
    ASSUME TypeOK, NEW t \in Tx,
           \/ Begin(t) \/ Commit(t) \/ Abort(t) \/ Finish(t)
           \/ \E op \in Op : Write(t, op)
           \/ \E op : Write(t, op)
           \/ \E r : LockRow(t, r)
           \/ UNCHANGED vars
    PROVE  EngineApart(t)
<1> USE DEF EngineApart, TypeOK, Goto
<1>1. CASE Begin(t) \/ Commit(t) \/ Abort(t)
  BY <1>1 DEF Begin, BeginLoad, BeginRegister, Commit, Abort
<1>2. CASE (\E op : Write(t, op)) \/ \E r : LockRow(t, r)
  BY <1>2 DEF Write, LockRow
<1>3. CASE LogWrites(t) \/ LogFails(t) \/ ApplyOp(t) \/ IndexInsert(t) \/ Applied(t)
  BY <1>3 DEF LogWrites, LogFails, ApplyOp, IndexInsert, Applied, engine
<1>4. CASE Release(t) \/ Unsnap(t)
  BY <1>4 DEF Release, Unsnap
<1>5. CASE ComputeHorizon(t) \/ Sweep(t) \/ SkipSweep(t) \/ CommitReturns(t)
  BY <1>5 DEF ComputeHorizon, Sweep, SkipSweep, CommitReturns, engine
<1>6. CASE UNCHANGED vars
  BY <1>6 DEF vars, engine
<1> QED
  BY <1>1, <1>2, <1>3, <1>4, <1>5, <1>6 DEF Finish

LEMMA StepsApart ==
    ASSUME TypeOK, PairsInHand, Shaped, [SqlNext]_allVars
    PROVE  UNCHANGED allVars \/ \E t \in Clients : ClientStep(t) /\ EngineApart(t) /\ StatementApart(t)
<1>1. CASE UNCHANGED allVars
  BY <1>1
<1>2. ASSUME NEW t \in Clients, ClientStep(t) PROVE EngineApart(t)
  <2>1. t \in Tx
    BY DEF Clients
  <2>2. CASE CallAndBegin(t) \/ BeginAfterLookUp(t) \/ BeginReturns(t)
    BY <2>1, <2>2, EngineStepsApart DEF CallAndBegin, BeginAfterLookUp, BeginReturns, Begin
  <2>3. CASE FetchEnds(t) \/ SelectScan(t) \/ BuildIndex(t) \/ AbortStatement(t) \/ CommitStatement(t)
    BY <2>1, <2>3, EngineStepsApart DEF FetchEnds, SelectScan, BuildIndex, AbortStatement, CommitStatement
  <2>4. CASE InsertRow(t) \/ UpdateRow(t) \/ UpdateSkips(t) \/ UpdateFails(t) \/ DeleteRow(t)
    BY <2>1, <2>4, EngineStepsApart DEF InsertRow, UpdateRow, UpdateSkips, UpdateFails, DeleteRow
  <2>5. CASE EngineStep(t)
    BY <2>1, <2>5, EngineStepsApart DEF EngineStep
  <2>6. CASE \/ SelectLookUp(t) \/ WriteLookUp(t) \/ Fetch(t) \/ LockTimesOut(t)
             \/ StatementEnds(t) \/ IndexRow(t) \/ Register(t)
    BY <2>1, <2>6, EngineStepsApart
    DEF SelectLookUp, WriteLookUp, Fetch, LockTimesOut, StatementEnds, IndexRow, Register
  <2> QED
    BY <1>2, <2>2, <2>3, <2>4, <2>5, <2>6 DEF ClientStep
<1>3. ASSUME NEW t \in Clients, ClientStep(t) PROVE StatementApart(t)
  <2> USE DEF StatementApart, Shaped, PairsInHand, GoTo, Next1, Wrote, sqlVars
  <2>1. CASE \/ SelectLookUp(t) \/ CallAndBegin(t) \/ BeginAfterLookUp(t) \/ BeginReturns(t)
    BY <2>1 DEF SelectLookUp, CallAndBegin, BeginAfterLookUp, BeginReturns
  <2>2. CASE WriteLookUp(t) \/ Fetch(t) \/ FetchEnds(t) \/ SelectScan(t) \/ BuildIndex(t)
    BY <2>2 DEF WriteLookUp, Fetch, FetchEnds, SelectScan, BuildIndex
  <2>3. CASE InsertRow(t) \/ UpdateRow(t) \/ UpdateSkips(t) \/ UpdateFails(t) \/ DeleteRow(t)
    BY <2>3 DEF InsertRow, UpdateRow, UpdateSkips, UpdateFails, DeleteRow
  <2>4. CASE LockTimesOut(t) \/ AbortStatement(t) \/ CommitStatement(t) \/ EngineStep(t)
    BY <2>4 DEF LockTimesOut, AbortStatement, CommitStatement, EngineStep
  <2>5. CASE StatementEnds(t) \/ IndexRow(t) \/ Register(t)
    BY <2>5 DEF StatementEnds, IndexRow, Register
  <2> QED
    BY <1>3, <2>1, <2>2, <2>3, <2>4, <2>5 DEF ClientStep
<1> QED
  BY <1>1, <1>2, <1>3 DEF SqlNext, ClientStep

------------------------------------------------------------------------------
(* Statements and their transactions move together. *)
LEMMA WritersHold ==
    ASSUME PairsInHand, NEW t \in Clients, InsertRow(t) \/ UpdateRow(t) \/ DeleteRow(t)
    PROVE  \E op \in Op : /\ Write(t, op) /\ ops' = [ops EXCEPT ![t] = Append(ops[t], op)]
                          /\ Wrote(t, op.row, op.data)
                          /\ (op.data = NoRow) <=> (Kind(t) = "delete")
                          /\ op.data # NoRow => <<op.row, op.data>> \in Pairs
<1>1. IsWriter(t) /\ rows[t] # <<>> /\ rows[t] \in Seq(Pairs)
  BY DEF InsertRow, UpdateRow, DeleteRow, IsWriter, PairsInHand
<1>2. Head(rows[t])[1] \in Row /\ Head(rows[t])[2] \in Data
  BY <1>1 DEF Pairs
<1>3. CASE InsertRow(t)
  <2>1. [kind |-> "insert", row |-> Head(rows[t])[1], data |-> Head(rows[t])[2]] \in Op
    BY <1>2 DEF Op
  <2> QED
    BY <1>2, <1>3, <2>1, NoRowAssumption DEF InsertRow, Write, Pairs
<1>4. CASE DeleteRow(t)
  <2>1. [kind |-> "delete", row |-> Head(rows[t])[1], data |-> NoRow] \in Op
    BY <1>2 DEF Op
  <2> QED
    BY <1>4, <2>1 DEF DeleteRow, Write
<1>5. CASE UpdateRow(t)
  <2> DEFINE r == Head(rows[t])[1]
             now == Read(chain[r], clock)
             d == stmt[t].set[now]
  <2>1. d \in Data
    <3>1. stmt[t] \in Statement /\ stmt[t].kind = "update"
      BY <1>5 DEF UpdateRow, PairsInHand, Kind
    <3>2. stmt[t].where \in Where /\ stmt[t].set \in [Data -> Data \cup {EvalError}]
      BY <3>1 DEF Statement
    <3>3. now \in Data
      BY <1>5, <3>2 DEF UpdateRow, Matches, Where
    <3> QED
      BY <1>5, <3>2, <3>3 DEF UpdateRow
  <2>2. [kind |-> "update", row |-> r, data |-> d] \in Op
    BY <1>2, <2>1 DEF Op
  <2>3. /\ Write(t, [kind |-> "update", row |-> r, data |-> d]) /\ Wrote(t, r, d)
        /\ Kind(t) = "update"
    BY <1>5 DEF UpdateRow
  <2> HIDE DEF d
  <2> QED
    BY <1>2, <2>1, <2>2, <2>3, NoRowAssumption DEF Write, Pairs
<1> QED
  BY <1>3, <1>4, <1>5

LEMMA MoverRuns ==
    ASSUME Running, PairsInHand, TypeOK, NEW t \in Clients, ClientStep(t)
    PROVE  InStep(t)' /\ OfKind(t)'
<1>0. /\ t \in Tx /\ InStep(t) /\ OfKind(t) /\ DOMAIN at = Clients
      /\ Kind(t) \in {"select", "insert", "update", "delete", "createindex"}
      /\ ops[t] \in Seq(Op) /\ pc[t] \in {"new", "loaded", "active", "log", "apply", "index",
                      "release", "unsnap", "horizon", "sweep", "done"}
  BY DEF Running, PairsInHand, Clients, Statement, Kind, TypeOK
<1> DEFINE Moves(place, stage) == /\ at'[t] = place /\ pc'[t] = stage /\ stmt' = stmt
                                  /\ indexed'[t] = indexed[t]
                                  /\ ops'[t] = ops[t] \/ ops'[t] = <<>>
<1>1. ASSUME NEW place, NEW stage, Moves(place, stage),
             \/ place = "start" /\ stage = "new"
             \/ place = "begin" /\ stage = "loaded"
             \/ place = "fetch" /\ stage \in {"new", "loaded", "active"}
             \/ place = "lookup" /\ stage = "active" /\ Kind(t) \in {"update", "delete"}
             \/ place = "scan" /\ stage = "active" /\ Kind(t) \in {"select", "createindex"}
             \/ place \in {"write", "error"} /\ stage = "active" /\ IsWriter(t)
             \/ place = "end" /\ stage \notin {"new", "loaded", "active"}
             \/ place = "register" /\ stage = "done" /\ Kind(t) = "createindex"
             \/ place = "index" /\ stage = "done" /\ IsWriter(t) /\ indexed[t] # <<>>
             \/ place = "returned" /\ stage = "done"
      PROVE  InStep(t)' /\ OfKind(t)'
  BY <1>0, <1>1 DEF InStep, OfKind, IsWriter, Kind
<1> HIDE DEF Moves
<1>2. CASE SelectLookUp(t)
  <2>1. Moves("fetch", "new")
    BY <1>0, <1>2 DEF SelectLookUp, GoTo, Moves, vars, engine, InStep
  <2> QED
    BY <1>1, <2>1
<1>3. CASE CallAndBegin(t)
  <2>1. Moves("begin", "loaded")
    BY <1>0, <1>3 DEF CallAndBegin, BeginLoad, GoTo, Goto, Moves, TypeOK
  <2> QED
    BY <1>1, <2>1
<1>4. CASE BeginAfterLookUp(t)
  <2>1. \E stage \in {"loaded", "active"} : Moves("fetch", stage)
    BY <1>0, <1>4 DEF BeginAfterLookUp, Begin, BeginLoad, BeginRegister, Goto, Moves, TypeOK, sqlVars
  <2> QED
    BY <1>1, <2>1
<1>5. CASE BeginReturns(t)
  <2>1. \E place \in {"lookup", "scan", "write"} :
            /\ Moves(place, "active")
            /\ place = "lookup" => Kind(t) \in {"update", "delete"}
            /\ place = "scan" => Kind(t) \in {"select", "createindex"}
            /\ place = "write" => IsWriter(t)
    BY <1>0, <1>5 DEF BeginReturns, BeginRegister, GoTo, Goto, Moves, TypeOK, IsWriter
  <2> QED
    BY <1>1, <2>1
<1>6. CASE WriteLookUp(t)
  <2>1. IsWriter(t) /\ (Moves("fetch", "active") \/ Moves("write", "active"))
    BY <1>0, <1>6 DEF WriteLookUp, GoTo, Moves, vars, engine, InStep, OfKind, IsWriter
  <2> QED
    BY <1>1, <2>1
<1>7. CASE Fetch(t)
  <2>1. Moves("fetch", "active")
    BY <1>0, <1>7 DEF Fetch, Moves, vars, engine
  <2> QED
    BY <1>1, <2>1
<1>8. CASE FetchEnds(t)
  <2>1. IF Kind(t) = "select" THEN Moves("end", "release") ELSE Moves("write", "active") /\ IsWriter(t)
    BY <1>0, <1>8 DEF FetchEnds, Abort, GoTo, Goto, Moves, vars, engine, TypeOK, PairsInHand, IsWriter
  <2> QED
    BY <1>1, <2>1
<1>9. CASE SelectScan(t) \/ BuildIndex(t) \/ AbortStatement(t)
  <2>1. Moves("end", "release")
    BY <1>0, <1>9 DEF SelectScan, BuildIndex, AbortStatement, Abort, GoTo, Goto, Moves, TypeOK
  <2> QED
    BY <1>1, <2>1
<1>10. CASE CommitStatement(t)
  <2>1. Moves("end", "log")
    BY <1>0, <1>10 DEF CommitStatement, Commit, GoTo, Goto, Moves, TypeOK
  <2> QED
    BY <1>1, <2>1
<1>11. CASE InsertRow(t) \/ UpdateRow(t) \/ DeleteRow(t)
  BY <1>0, <1>11 DEF InsertRow, UpdateRow, DeleteRow, Write, InStep, OfKind, IsWriter, Kind
<1>12. CASE UpdateSkips(t)
  <2>1. Moves("write", "active") /\ IsWriter(t)
    BY <1>0, <1>12 DEF UpdateSkips, LockRow, Moves, IsWriter
  <2> QED
    BY <1>1, <2>1
<1>13. CASE UpdateFails(t) \/ LockTimesOut(t)
  <2>1. Moves("error", "active") /\ IsWriter(t)
    BY <1>0, <1>13 DEF UpdateFails, LockTimesOut, LockRow, GoTo, Moves, vars, engine, InStep, OfKind, IsWriter
  <2> QED
    BY <1>1, <2>1
<1>14. CASE EngineStep(t)
  <2>1. /\ at' = at /\ stmt' = stmt /\ indexed' = indexed
        /\ pc[t] \notin {"new", "loaded", "active", "done"}
    BY <1>14 DEF EngineStep, Finish, LogWrites, LogFails, ApplyOp, IndexInsert, Applied, Release, Unsnap,
       ComputeHorizon, Sweep, SkipSweep, CommitReturns, sqlVars
  <2>2. at[t] = "end"
    BY <1>0, <2>1 DEF InStep, Running, Shaped, Places
  <2>3. ops' = ops /\ pc'[t] \notin {"new", "loaded", "active"}
    <3>1. CASE LogWrites(t) \/ LogFails(t) \/ ApplyOp(t) \/ IndexInsert(t) \/ Applied(t)
      BY <1>0, <3>1 DEF LogWrites, LogFails, ApplyOp, IndexInsert, Applied, Goto, engine, TypeOK
    <3>2. CASE Release(t) \/ Unsnap(t)
      BY <1>0, <3>2 DEF Release, Unsnap, Goto, TypeOK
    <3>3. CASE ComputeHorizon(t) \/ Sweep(t) \/ SkipSweep(t) \/ CommitReturns(t)
      BY <1>0, <3>3 DEF ComputeHorizon, Sweep, SkipSweep, CommitReturns, Goto, engine, TypeOK
    <3> QED
      BY <1>14, <3>1, <3>2, <3>3 DEF EngineStep, Finish
  <2>4. Moves("end", pc'[t])
    BY <2>1, <2>2, <2>3 DEF Moves
  <2> QED
    BY <1>1, <2>3, <2>4
<1>15. CASE StatementEnds(t)
  <2>1. \E place \in {"register", "index", "returned"} :
            /\ Moves(place, "done")
            /\ place = "register" => Kind(t) = "createindex"
            /\ place = "index" => status[t] = "committed" /\ indexed[t] # <<>>
    BY <1>0, <1>15 DEF StatementEnds, GoTo, Moves, vars, engine
  <2>2. indexed[t] # <<>> => IsWriter(t)
    BY <1>0 DEF OfKind
  <2> QED
    BY <1>1, <2>1, <2>2
<1>16. CASE IndexRow(t)
  <2>1. /\ at'[t] \in {"index", "returned"} /\ pc' = pc /\ ops' = ops /\ stmt' = stmt
        /\ at'[t] = "index" => Tail(indexed[t]) # <<>> /\ indexed'[t] = Tail(indexed[t])
    <3>1. indexed[t] \in Seq(Pairs) /\ indexed[t] # <<>> /\ DOMAIN indexed = Clients
      BY <1>0, <1>16 DEF Running, Shaped, InStep, IndexRow
    <3>2. ASSUME NEW s \in Seq(Pairs), s # <<>>, Len(s) # 1 PROVE Tail(s) # <<>>
      <4>1. Len(s) \in Nat /\ Len(s) # 0 /\ Len(Tail(s)) = Len(s) - 1
        BY <3>2
      <4>2. Len(Tail(s)) # 0
        BY <3>2, <4>1
      <4>3. Len(<<>>) = 0
        OBVIOUS
      <4> QED
        BY <4>2, <4>3
    <3> QED
      BY <1>0, <1>16, <3>1, <3>2 DEF IndexRow, GoTo, vars, engine
  <2> QED
    BY <1>0, <1>16, <2>1 DEF IndexRow, InStep, OfKind, IsWriter, Kind
<1>17. CASE Register(t)
  <2>1. Moves("returned", "done")
    BY <1>0, <1>17 DEF Register, GoTo, Moves, vars, engine, InStep
  <2> QED
    BY <1>1, <2>1
<1> QED
  BY <1>2, <1>3, <1>4, <1>5, <1>6, <1>7, <1>8, <1>9, <1>10, <1>11, <1>12, <1>13, <1>14, <1>15, <1>16, <1>17
  DEF ClientStep

LEMMA MoverStarts ==
    ASSUME Running, NEW t \in Clients, ClientStep(t)
    PROVE  /\ at'[t] # "start" /\ at[t] # "returned"
           /\ at[t] \in {"index", "register"} => at'[t] \in {"index", "returned"}
<1>0. InStep(t) /\ at \in [Clients -> Places]
  BY DEF Running, Shaped
<1> USE DEF GoTo
<1>1. CASE SelectLookUp(t) \/ CallAndBegin(t) \/ BeginAfterLookUp(t) \/ BeginReturns(t)
  BY <1>0, <1>1 DEF SelectLookUp, CallAndBegin, BeginAfterLookUp, BeginReturns, sqlVars
<1>2. CASE WriteLookUp(t) \/ Fetch(t) \/ FetchEnds(t) \/ SelectScan(t) \/ BuildIndex(t)
  BY <1>0, <1>2 DEF WriteLookUp, Fetch, FetchEnds, SelectScan, BuildIndex
<1>3. CASE InsertRow(t) \/ UpdateRow(t) \/ UpdateSkips(t) \/ UpdateFails(t) \/ DeleteRow(t)
  BY <1>0, <1>3 DEF InsertRow, UpdateRow, UpdateSkips, UpdateFails, DeleteRow
<1>4. CASE LockTimesOut(t) \/ AbortStatement(t) \/ CommitStatement(t)
  BY <1>0, <1>4 DEF LockTimesOut, AbortStatement, CommitStatement
<1>5. CASE EngineStep(t)
  <2>1. at' = at /\ pc[t] \notin {"new", "done"}
    BY <1>5 DEF EngineStep, Finish, LogWrites, LogFails, ApplyOp, IndexInsert, Applied, Release, Unsnap,
       ComputeHorizon, Sweep, SkipSweep, CommitReturns, sqlVars
  <2> QED
    BY <1>0, <2>1 DEF InStep
<1>6. CASE StatementEnds(t) \/ IndexRow(t) \/ Register(t)
  BY <1>0, <1>6 DEF StatementEnds, IndexRow, Register
<1> QED
  BY <1>1, <1>2, <1>3, <1>4, <1>5, <1>6 DEF ClientStep

(* An index entry is a row; a new index, too, is made of rows. *)
LEMMA ShapedStep ==
    ASSUME Running, PairsInHand, TypeOK, [SqlNext]_allVars
    PROVE  Shaped'
<1>0. Shaped
  BY DEF Running
<1>1. CASE UNCHANGED allVars
  BY <1>0, <1>1 DEF Shaped, allVars, sqlVars, vars, engine
<1>2. ASSUME NEW t \in Clients, ClientStep(t), EngineApart(t), StatementApart(t)
      PROVE  Shaped'
  <2>0. t \in Tx /\ Loader \notin Clients /\ Loader \in Tx /\ Loader # t
    BY LoaderAssumption DEF Clients
  <2>1. pc'[Loader] = "done"
    BY <1>0, <1>2, <2>0 DEF EngineApart, Shaped
  <2>2. at' \in [Clients -> Places]
    <3> USE <1>0 DEF Shaped, GoTo, Places
    <3>1. CASE SelectLookUp(t) \/ CallAndBegin(t) \/ BeginAfterLookUp(t) \/ BeginReturns(t)
      BY <3>1 DEF SelectLookUp, CallAndBegin, BeginAfterLookUp, BeginReturns, sqlVars
    <3>2. CASE WriteLookUp(t) \/ Fetch(t) \/ FetchEnds(t) \/ SelectScan(t) \/ BuildIndex(t)
      BY <3>2 DEF WriteLookUp, Fetch, FetchEnds, SelectScan, BuildIndex
    <3>3. CASE InsertRow(t) \/ UpdateRow(t) \/ UpdateSkips(t) \/ UpdateFails(t) \/ DeleteRow(t)
      BY <3>3 DEF InsertRow, UpdateRow, UpdateSkips, UpdateFails, DeleteRow
    <3>4. CASE LockTimesOut(t) \/ AbortStatement(t) \/ CommitStatement(t) \/ EngineStep(t)
      BY <3>4 DEF LockTimesOut, AbortStatement, CommitStatement, EngineStep, sqlVars
    <3>5. CASE StatementEnds(t) \/ IndexRow(t) \/ Register(t)
      BY <3>5 DEF StatementEnds, IndexRow, Register
    <3> QED
      BY <1>2, <3>1, <3>2, <3>3, <3>4, <3>5 DEF ClientStep
  <2>3. CASE InsertRow(t) \/ UpdateRow(t) \/ DeleteRow(t)
    <3>1. PICK op \in Op : /\ Wrote(t, op.row, op.data)
                           /\ op.data # NoRow => <<op.row, op.data>> \in Pairs
      BY <2>3, WritersHold
    <3>2. indexed' \in [Clients -> Seq(Pairs)]
      BY <1>0, <3>1 DEF Wrote, Shaped
    <3>3. UNCHANGED <<todo, index, built, before>>
      BY <2>3 DEF InsertRow, UpdateRow, DeleteRow
    <3> QED
      BY <1>0, <2>1, <2>2, <3>2, <3>3 DEF Shaped
  <2>4. CASE BuildIndex(t)
    <3> DEFINE entries == [d \in Data |-> SetToSeq({r \in Row : Read(chain[r], snap[t]) = d})]
    <3>1. entries \in [Data -> Seq(Row)]
      <4> SUFFICES ASSUME NEW d \in Data
                   PROVE  SetToSeq({r \in Row : Read(chain[r], snap[t]) = d}) \in Seq(Row)
        OBVIOUS
      <4> DEFINE S == {r \in Row : Read(chain[r], snap[t]) = d}
      <4>1. IsFiniteSet(S) /\ S \subseteq Row
        BY RowsAssumption, FS_Subset
      <4> HIDE DEF S
      <4>2. SetToSeq(S) \in Seq(S)
        BY <4>1, SetToSeqOrders
      <4>3. SetToSeq(S) \in Seq(Row)
        BY <4>1, <4>2
      <4> QED
        BY <4>3 DEF S
    <3>2. built' = [built EXCEPT ![t] = entries] /\ UNCHANGED <<todo, indexed, index, before>>
      BY <2>4 DEF BuildIndex
    <3> HIDE DEF entries
    <3> QED
      BY <1>0, <2>1, <2>2, <3>1, <3>2 DEF Shaped
  <2>5. CASE IndexRow(t)
    <3>1. indexed[t] \in Seq(Pairs) /\ indexed[t] # <<>>
      BY <1>0, <2>5 DEF Shaped, Running, InStep, IndexRow
    <3>2. Head(indexed[t]) \in Pairs /\ Tail(indexed[t]) \in Seq(Pairs)
      BY <3>1
    <3>3. Head(indexed[t])[1] \in Row /\ Head(indexed[t])[2] \in Data
      BY <3>2 DEF Pairs
    <3>4. index' \in [Data -> Seq(Row)]
      BY <1>0, <2>5, <3>3 DEF IndexRow, Shaped
    <3>5. indexed' = [indexed EXCEPT ![t] = Tail(indexed[t])] /\ UNCHANGED <<todo, built, before>>
      BY <2>5 DEF IndexRow
    <3> QED
      BY <1>0, <2>1, <2>2, <3>2, <3>4, <3>5 DEF Shaped
  <2>6. CASE Register(t)
    BY <1>0, <2>1, <2>2, <2>6 DEF Shaped, Register
  <2>7. CASE \/ SelectLookUp(t) \/ CallAndBegin(t) \/ BeginAfterLookUp(t) \/ BeginReturns(t)
             \/ WriteLookUp(t) \/ Fetch(t) \/ FetchEnds(t) \/ SelectScan(t) \/ UpdateSkips(t)
             \/ UpdateFails(t) \/ LockTimesOut(t) \/ AbortStatement(t) \/ CommitStatement(t)
             \/ EngineStep(t) \/ StatementEnds(t)
    <3>1. UNCHANGED <<indexed, index, built>> /\ DOMAIN todo' = DOMAIN todo /\ DOMAIN before' = DOMAIN before
      BY <2>7 DEF SelectLookUp, CallAndBegin, BeginAfterLookUp, BeginReturns, WriteLookUp, Fetch, FetchEnds,
         SelectScan, UpdateSkips, UpdateFails, LockTimesOut, AbortStatement, CommitStatement, EngineStep,
         StatementEnds, sqlVars
    <3> QED
      BY <1>0, <2>1, <2>2, <3>1 DEF Shaped
  <2> QED
    BY <1>2, <2>3, <2>4, <2>5, <2>6, <2>7 DEF ClientStep
<1> QED
  BY <1>0, <1>1, <1>2, StepsApart

LEMMA RunningStep ==
    ASSUME Running, PairsInHand, TypeOK, [SqlNext]_allVars
    PROVE  Running'
<1>0. Shaped' /\ Shaped
  BY ShapedStep DEF Running
<1>1. CASE UNCHANGED allVars
  BY <1>0, <1>1 DEF Running, InStep, OfKind, IsWriter, Kind, allVars, sqlVars, vars, engine
<1>2. ASSUME NEW t \in Clients, ClientStep(t), EngineApart(t), StatementApart(t), NEW u \in Clients
      PROVE  InStep(u)' /\ OfKind(u)'
  <2>1. CASE u = t
    BY <1>2, <2>1, MoverRuns
  <2>2. CASE u # t
    <3>1. /\ at'[u] = at[u] /\ pc'[u] = pc[u] /\ ops'[u] = ops[u] /\ indexed'[u] = indexed[u]
          /\ stmt' = stmt
      BY <1>2, <2>2, StatementsStay DEF EngineApart, StatementApart, Clients
    <3>2. InStep(u) /\ OfKind(u)
      BY DEF Running
    <3> QED
      BY <3>1, <3>2 DEF InStep, OfKind, IsWriter, Kind
  <2> QED
    BY <2>1, <2>2
<1> QED
  BY <1>0, <1>1, <1>2, StepsApart DEF Running

(* What has returned stays as it is. *)
LEMMA CalledAfterStep ==
    ASSUME Running, PairsInHand, TypeOK, CalledAfter, [SqlNext]_allVars
    PROVE  CalledAfter' /\ Returned \subseteq Returned'
<1>0. Shaped
  BY DEF Running
<1>1. CASE UNCHANGED allVars
  BY <1>1 DEF CalledAfter, Returned, allVars, sqlVars
<1>2. ASSUME NEW t \in Clients, ClientStep(t), EngineApart(t), StatementApart(t)
      PROVE  CalledAfter' /\ Returned \subseteq Returned'
  <2>1. at[t] # "returned"
    BY <1>2, MoverStarts
  <2>2. Returned \subseteq Returned'
    BY <1>2, <2>1 DEF StatementApart, Returned
  <2>3. before'[t] = before[t] \/ before'[t] = Returned
    <3>1. CASE SelectLookUp(t) \/ CallAndBegin(t)
      BY <1>0, <3>1 DEF SelectLookUp, CallAndBegin, Shaped
    <3>2. CASE ~ (SelectLookUp(t) \/ CallAndBegin(t))
      BY <1>2, <3>2 DEF ClientStep, BeginAfterLookUp, BeginReturns, WriteLookUp, Fetch, FetchEnds, SelectScan,
         BuildIndex, InsertRow, UpdateRow, UpdateSkips, UpdateFails, DeleteRow, LockTimesOut,
         AbortStatement, CommitStatement, EngineStep, StatementEnds, IndexRow, Register, sqlVars
    <3> QED
      BY <3>1, <3>2
  <2> QED
    BY <1>2, <2>2, <2>3 DEF CalledAfter, StatementApart
<1> QED
  BY <1>0, <1>1, <1>2, StepsApart

(* A writer's list of entries grows with its writes. *)
LEMMA ListedStep ==
    ASSUME Running, PairsInHand, TypeOK, \A u \in Clients : Listed(u), [SqlNext]_allVars
    PROVE  \A u \in Clients : Listed(u)'
<1>0. Shaped
  BY DEF Running
<1>1. CASE UNCHANGED allVars
  BY <1>1 DEF Listed, allVars, sqlVars, vars, engine
<1>2. ASSUME NEW t \in Clients, ClientStep(t), EngineApart(t), StatementApart(t)
      PROVE  Listed(t)'
  <2>0. t \in Tx /\ Listed(t) /\ ops[t] \in Seq(Op) /\ indexed[t] \in Seq(Pairs) /\ DOMAIN indexed = Clients
    BY <1>0 DEF Clients, TypeOK, Shaped
  <2>1. CASE InsertRow(t) \/ UpdateRow(t) \/ DeleteRow(t)
    <3>1. PICK op \in Op : /\ ops' = [ops EXCEPT ![t] = Append(ops[t], op)]
                           /\ Wrote(t, op.row, op.data)
                           /\ op.data # NoRow => <<op.row, op.data>> \in Pairs
      BY <2>1, WritersHold
    <3>2. ops'[t] = Append(ops[t], op)
      BY <2>0, <3>1 DEF TypeOK
    <3>3. /\ op.data = NoRow => indexed'[t] = indexed[t]
          /\ op.data # NoRow => indexed'[t] = Append(indexed[t], <<op.row, op.data>>)
      BY <2>0, <3>1 DEF Wrote
    <3>4. /\ ToSet(indexed[t]) \subseteq ToSet(indexed'[t])
          /\ op.data # NoRow => <<op.row, op.data>> \in ToSet(indexed'[t])
      <4>1. ASSUME NEW x \in Pairs
            PROVE  /\ ToSet(indexed[t]) \subseteq ToSet(Append(indexed[t], x))
                   /\ x \in ToSet(Append(indexed[t], x))
        <5>1. /\ \A i \in DOMAIN indexed[t] :
                    i \in DOMAIN Append(indexed[t], x) /\ Append(indexed[t], x)[i] = indexed[t][i]
              /\ Len(indexed[t]) + 1 \in DOMAIN Append(indexed[t], x)
              /\ Append(indexed[t], x)[Len(indexed[t]) + 1] = x
          BY <2>0
        <5> QED
          BY <5>1 DEF ToSet
      <4> QED
        BY <3>1, <3>3, <4>1
    <3>5. at' = at
      BY <2>1 DEF InsertRow, UpdateRow, DeleteRow
    <3>6. \A i \in DOMAIN ops'[t] : ops'[t][i] = op \/ (i \in DOMAIN ops[t] /\ ops'[t][i] = ops[t][i])
      BY <2>0, <3>2
    <3>7. ASSUME at'[t] \notin {"index", "register", "returned"}, NEW i \in DOMAIN ops'[t],
                 ops'[t][i].data # NoRow
          PROVE  <<ops'[t][i].row, ops'[t][i].data>> \in ToSet(indexed'[t])
      <4>1. CASE ops'[t][i] = op
        BY <3>4, <3>7, <4>1
      <4>2. CASE i \in DOMAIN ops[t] /\ ops'[t][i] = ops[t][i]
        <5>1. <<ops[t][i].row, ops[t][i].data>> \in ToSet(indexed[t])
          BY <2>0, <3>5, <3>7, <4>2 DEF Listed
        <5> QED
          BY <3>4, <4>2, <5>1
      <4> QED
        BY <3>6, <3>7, <4>1, <4>2
    <3> QED
      BY <3>7 DEF Listed
  <2>2. CASE ~ (InsertRow(t) \/ UpdateRow(t) \/ DeleteRow(t))
    <3>1. ops'[t] = ops[t] \/ ops'[t] = <<>>
      <4> USE <2>0 DEF TypeOK
      <4>1. CASE CallAndBegin(t) \/ BeginAfterLookUp(t) \/ BeginReturns(t) \/ CommitStatement(t)
                 \/ UpdateSkips(t) \/ UpdateFails(t)
        BY <4>1 DEF CallAndBegin, BeginAfterLookUp, BeginReturns, CommitStatement, Begin, BeginLoad,
           BeginRegister, Commit, UpdateSkips, UpdateFails, LockRow
      <4>2. CASE FetchEnds(t) \/ SelectScan(t) \/ BuildIndex(t) \/ AbortStatement(t)
        BY <4>2 DEF FetchEnds, SelectScan, BuildIndex, AbortStatement, Abort, vars, engine
      <4>3. CASE EngineStep(t)
        BY <4>3 DEF EngineStep, Finish, LogWrites, LogFails, ApplyOp, IndexInsert, Applied, Release,
           Unsnap, ComputeHorizon, Sweep, SkipSweep, CommitReturns, engine
      <4>4. CASE \/ SelectLookUp(t) \/ WriteLookUp(t) \/ Fetch(t) \/ LockTimesOut(t)
                 \/ StatementEnds(t) \/ IndexRow(t) \/ Register(t)
        BY <4>4 DEF SelectLookUp, WriteLookUp, Fetch, LockTimesOut, StatementEnds, IndexRow, Register, vars, engine
      <4> QED
        BY <1>2, <2>2, <4>1, <4>2, <4>3, <4>4 DEF ClientStep
    <3>2. CASE IndexRow(t)
      <4>1. at'[t] \in {"index", "returned"}
        BY <1>2, <3>2, MoverStarts DEF IndexRow
      <4> QED
        BY <4>1 DEF Listed
    <3>3. CASE ~ IndexRow(t)
      <4>1. indexed' = indexed
        BY <1>2, <2>2, <3>3 DEF ClientStep, SelectLookUp, CallAndBegin, BeginAfterLookUp, BeginReturns,
           WriteLookUp, Fetch, FetchEnds, SelectScan, BuildIndex, UpdateSkips, UpdateFails, LockTimesOut,
           AbortStatement, CommitStatement, EngineStep, StatementEnds, Register, sqlVars
      <4>2. at[t] \in {"index", "register", "returned"} => at'[t] \in {"index", "register", "returned"}
        BY <1>2, MoverStarts
      <4> QED
        BY <2>0, <3>1, <4>1, <4>2 DEF Listed
    <3> QED
      BY <3>2, <3>3
  <2> QED
    BY <2>1, <2>2
<1>3. ASSUME NEW t \in Clients, EngineApart(t), StatementApart(t), NEW u \in Clients \ {t}
      PROVE  Listed(u)'
  <2>1. at'[u] = at[u] /\ ops'[u] = ops[u] /\ indexed'[u] = indexed[u]
    BY <1>3 DEF EngineApart, StatementApart, Clients
  <2>2. Listed(u)
    OBVIOUS
  <2> QED
    BY <2>1, <2>2 DEF Listed
<1> QED
  BY <1>0, <1>1, <1>2, <1>3, StepsApart

(* What changes a row is a client that has its entry still to make, in a step
   that leaves all statements where they are. *)
LEMMA RowChanges ==
    ASSUME UniqueKeys, Reading, Running, PairsInHand, [SqlNext]_allVars, NEW r \in Row,
           Read(chain[r], clock)' # Read(chain[r], clock)
    PROVE  \E t \in Clients : /\ at[t] = "end" /\ IsWriter(t) /\ UNCHANGED sqlVars
                              /\ \E i \in OwnOps(t, r) : Read(chain[r], clock)' = ops[t][i].data
                              /\ Done(t, r)' # {}
<1>0. TypeOK /\ [Next]_vars /\ Shaped
  BY EngineSteps DEF Reading, SweepInv, Typed, Running
<1>1. PICK t \in Tx : /\ ApplyOp(t)
                      /\ Read(chain[r], clock)' = ops[t][cur[t]].data
                      /\ cur[t] \in OwnOps(t, r)
                      /\ Done(t, r)' # {}
  BY <1>0, CurrentReads
<1>2. pc[t] = "apply" /\ t \in Clients /\ ops[t] # <<>>
  BY <1>0, <1>1 DEF ApplyOp, Shaped, Clients, OwnOps
<1>3. at[t] = "end" /\ IsWriter(t)
  BY <1>0, <1>2 DEF Running, InStep, OfKind, Shaped, Places
<1>4. pc'[t] # pc[t] \/ cur'[t] # cur[t]
  BY <1>0, <1>1, <1>2 DEF ApplyOp, Goto, TypeOK
<1>5. ClientStep(t)
  BY <1>0, <1>1, <1>4, StepsApart DEF EngineApart, allVars, vars
<1>6. UNCHANGED sqlVars
  BY <1>2, <1>3, <1>5 DEF ClientStep, SelectLookUp, CallAndBegin, BeginAfterLookUp, BeginReturns,
     WriteLookUp, Fetch, FetchEnds, SelectScan, BuildIndex, InsertRow, UpdateRow, UpdateSkips, UpdateFails,
     DeleteRow, LockTimesOut, AbortStatement, CommitStatement, EngineStep, StatementEnds, IndexRow, Register
<1> QED
  BY <1>1, <1>2, <1>3, <1>6

(* The elements of a sequence that is built up and taken down. *)
LEMMA ToSetAppend ==
    ASSUME NEW S, NEW s \in Seq(S), NEW x \in S
    PROVE  ToSet(Append(s, x)) = ToSet(s) \cup {x}
<1>1. /\ DOMAIN Append(s, x) = DOMAIN s \cup {Len(s) + 1}
      /\ \A i \in DOMAIN s : Append(s, x)[i] = s[i]
      /\ Append(s, x)[Len(s) + 1] = x
  OBVIOUS
<1> QED
  BY <1>1 DEF ToSet

LEMMA ToSetTail ==
    ASSUME NEW S, NEW s \in Seq(S), s # <<>>
    PROVE  /\ ToSet(s) = {Head(s)} \cup ToSet(Tail(s))
           /\ Len(s) = 1 => ToSet(Tail(s)) = {}
           /\ IsInjective(s) => IsInjective(Tail(s)) /\ Head(s) \notin ToSet(Tail(s))
           /\ Head(s) \in S /\ Tail(s) \in Seq(S)
<1>1. /\ Len(s) \in Nat /\ Len(s) # 0 /\ DOMAIN s = 1 .. Len(s)
      /\ Tail(s) \in Seq(S) /\ Len(Tail(s)) = Len(s) - 1 /\ DOMAIN Tail(s) = 1 .. Len(s) - 1
      /\ \A i \in 1 .. Len(s) - 1 : Tail(s)[i] = s[i + 1]
      /\ Head(s) = s[1] /\ s[1] \in S
  OBVIOUS
<1> DEFINE n == Len(s)  h == Head(s)  q == Tail(s)
<1>2. n \in Nat /\ n # 0 /\ DOMAIN s = 1 .. n /\ DOMAIN q = 1 .. n - 1 /\ h = s[1]
      /\ \A i \in 1 .. n - 1 : q[i] = s[i + 1]
  BY <1>1
<1> HIDE DEF n, h, q
<1>3. ToSet(s) = {h} \cup ToSet(q)
  <2>1. ToSet(s) \subseteq {h} \cup ToSet(q)
    <3> SUFFICES ASSUME NEW i \in 1 .. n, i # 1 PROVE s[i] \in ToSet(q)
      BY <1>2 DEF ToSet
    <3>1. i - 1 \in 1 .. n - 1 /\ q[i - 1] = s[i]
      BY <1>2
    <3> QED
      BY <1>2, <3>1 DEF ToSet
  <2>2. {h} \cup ToSet(q) \subseteq ToSet(s)
    <3>1. 1 \in 1 .. n /\ \A i \in 1 .. n - 1 : i + 1 \in 1 .. n
      BY <1>2
    <3> QED
      BY <1>2, <3>1 DEF ToSet
  <2> QED
    BY <2>1, <2>2
<1>4. n = 1 => ToSet(q) = {}
  <2>1. n = 1 => DOMAIN q = {}
    BY <1>2
  <2> QED
    BY <2>1 DEF ToSet
<1>5. IsInjective(s) => IsInjective(q) /\ h \notin ToSet(q)
  <2> SUFFICES ASSUME \A a, b \in 1 .. n : s[a] = s[b] => a = b
               PROVE  /\ \A a, b \in 1 .. n - 1 : q[a] = q[b] => a = b
                      /\ \A a \in 1 .. n - 1 : q[a] # h
    BY <1>2 DEF IsInjective, ToSet
  <2>1. \A a \in 1 .. n - 1 : a \in Nat /\ a + 1 \in 1 .. n /\ a + 1 # 1 /\ q[a] = s[a + 1]
    BY <1>2
  <2>2. 1 \in 1 .. n
    BY <1>2
  <2>3. \A a \in 1 .. n - 1 : q[a] # h
    BY <1>2, <2>1, <2>2
  <2>4. ASSUME NEW a \in 1 .. n - 1, NEW b \in 1 .. n - 1, q[a] = q[b] PROVE a = b
    <3>1. a + 1 = b + 1
      BY <2>1, <2>4
    <3> QED
      BY <2>1, <3>1
  <2> QED
    BY <2>3, <2>4
<1> QED
  BY <1>1, <1>3, <1>4, <1>5 DEF n, h, q

(* The index loses no row: a writer that has not made its entry still has it
   in hand, and makes it before it returns. *)
LEMMA OwesStep ==
    ASSUME Reading, Running, PairsInHand, [SqlNext]_allVars, hasIndex, hasIndex',
           NEW u \in Clients, NEW r \in Row, NEW d \in Data, Owes(u, r, d)
    PROVE  Owes(u, r, d)' \/ r \in ToSet(index'[d])
<1>0. /\ TypeOK /\ Stages /\ Shaped /\ [Next]_vars /\ u \in Tx
      /\ InStep(u) /\ OfKind(u)
      /\ indexed[u] \in Seq(Pairs) /\ DOMAIN at = Clients /\ DOMAIN indexed = Clients
  BY EngineSteps DEF Reading, SweepInv, Typed, Running, Shaped, Clients
<1>1. Done(u, r)' # {}
  BY <1>0, DoneGrows DEF Owes
<1>2. CASE at'[u] = at[u] /\ indexed'[u] = indexed[u]
  BY <1>1, <1>2 DEF Owes
<1>3. CASE StatementEnds(u)
  <2>1. status[u] = "committed"
    <3>1. AppliedCount(u) # 0
      BY <1>0, AppliedHasStamp DEF Owes
    <3> QED
      BY <1>3, <3>1 DEF AppliedCount, StatementEnds
  <2>2. indexed[u] # <<>>
    BY DEF Owes, ToSet
  <2>3. Kind(u) # "createindex"
    BY <1>0, <2>2 DEF OfKind, IsWriter
  <2>4. at'[u] = "index" /\ indexed' = indexed
    BY <1>0, <1>3, <2>1, <2>2, <2>3 DEF StatementEnds, GoTo
  <2> QED
    BY <1>1, <2>4 DEF Owes
<1>4. CASE IndexRow(u)
  <2>1. indexed[u] # <<>>
    BY <1>0, <1>4 DEF InStep, IndexRow
  <2>2. /\ ToSet(indexed[u]) = {Head(indexed[u])} \cup ToSet(Tail(indexed[u]))
        /\ Len(indexed[u]) = 1 => ToSet(Tail(indexed[u])) = {}
        /\ indexed'[u] = Tail(indexed[u])
    BY <1>0, <1>4, <2>1, ToSetTail DEF IndexRow
  <2>3. CASE <<r, d>> = Head(indexed[u])
    <3>1. index' = [index EXCEPT ![d] = Append(index[d], r)]
      <4>1. Head(indexed[u])[1] = r /\ Head(indexed[u])[2] = d
        BY <2>3
      <4> QED
        BY <1>4, <4>1 DEF IndexRow
    <3>2. index'[d] = Append(index[d], r) /\ index[d] \in Seq(Row)
      BY <1>0, <3>1 DEF Shaped
    <3> QED
      BY <3>2, ToSetAppend
  <2>4. CASE <<r, d>> \in ToSet(Tail(indexed[u]))
    <3>1. at'[u] = "index"
      BY <1>0, <1>4, <2>2, <2>4 DEF IndexRow, GoTo
    <3> QED
      BY <1>1, <2>2, <2>4, <3>1 DEF Owes
  <2> QED
    BY <2>2, <2>3, <2>4 DEF Owes
<1>5. CASE EngineStep(u) \/ UNCHANGED allVars
  BY <1>2, <1>5 DEF EngineStep, sqlVars, allVars
<1>6. ASSUME ClientStep(u) PROVE StatementEnds(u) \/ IndexRow(u) \/ EngineStep(u)
  BY <1>0, <1>6 DEF Owes, ClientStep, SelectLookUp, CallAndBegin, BeginAfterLookUp, BeginReturns,
     WriteLookUp, Fetch, FetchEnds, SelectScan, BuildIndex, InsertRow, UpdateRow, UpdateSkips, UpdateFails,
     DeleteRow, LockTimesOut, AbortStatement, CommitStatement, StatementEnds, IndexRow, Register
<1>7. ASSUME NEW t \in Clients, t # u, StatementApart(t) PROVE at'[u] = at[u] /\ indexed'[u] = indexed[u]
  BY <1>7 DEF StatementApart
<1> QED
  BY <1>0, <1>2, <1>3, <1>4, <1>5, <1>6, <1>7, StepsApart

LEMMA EntriesAreThereStep ==
    ASSUME UniqueKeys, Reading, Running, PairsInHand, \A u \in Clients : Listed(u),
           EntriesAreThere, BuiltIsCurrent, [SqlNext]_allVars
    PROVE  EntriesAreThere'
<1>0. TypeOK /\ Shaped /\ [Next]_vars
  BY EngineSteps DEF Reading, SweepInv, Typed, Running
<1> SUFFICES ASSUME hasIndex', ~ raced', NEW r \in Row, NEW d \in Data, Read(chain[r], clock)' = d
             PROVE  r \in ToSet(index'[d]) \/ \E u \in Clients : Owes(u, r, d)'
  BY DEF EntriesAreThere
<1>1. ASSUME NEW c \in Clients, Register(c) PROVE r \in ToSet(index'[d])
  <2>1. Read(chain[r], clock) = d
    BY <1>1 DEF Register, vars, engine
  <2>2. NoWriterSince(c)
    BY <1>1 DEF Register, NoWriterSince
  <2>3. Kind(c) = "createindex" /\ at[c] = "register" /\ index' = built[c]
    BY <1>1 DEF Register, Running, OfKind
  <2> QED
    BY <2>1, <2>2, <2>3 DEF BuiltIsCurrent
<1>2. CASE ~ \E c \in Clients : Register(c)
  <2>1. hasIndex' = hasIndex /\ raced' = raced
    BY <1>2 DEF SqlNext, allVars, sqlVars, SelectLookUp, CallAndBegin, BeginAfterLookUp, BeginReturns,
       WriteLookUp, Fetch, FetchEnds, SelectScan, BuildIndex, InsertRow, UpdateRow, UpdateSkips, UpdateFails,
       DeleteRow, LockTimesOut, AbortStatement, CommitStatement, EngineStep, StatementEnds, IndexRow
  <2>2. ToSet(index[d]) \subseteq ToSet(index'[d])
    <3>1. CASE index' = index
      BY <3>1
    <3>2. ASSUME NEW u \in Clients, IndexRow(u) PROVE ToSet(index[d]) \subseteq ToSet(index'[d])
      <4> DEFINE q == Head(indexed[u])[1]
                 e == Head(indexed[u])[2]
      <4>1. q \in Row /\ index' = [index EXCEPT ![e] = Append(index[e], q)] /\ index \in [Data -> Seq(Row)]
        <5>1. indexed[u] \in Seq(Pairs) /\ indexed[u] # <<>>
          BY <1>0, <3>2 DEF Running, InStep, IndexRow, Shaped
        <5>2. Head(indexed[u]) \in Pairs
          BY <5>1
        <5> QED
          BY <1>0, <2>1, <3>2, <5>2 DEF IndexRow, Pairs, Shaped
      <4> HIDE DEF q, e
      <4>2. index'[d] = index[d] \/ index'[d] = Append(index[d], q)
        BY <4>1
      <4> QED
        BY <4>1, <4>2, ToSetAppend
    <3>3. (\E u \in Clients : IndexRow(u)) \/ index' = index
      BY <1>2 DEF SqlNext, allVars, sqlVars, SelectLookUp, CallAndBegin, BeginAfterLookUp, BeginReturns,
         WriteLookUp, Fetch, FetchEnds, SelectScan, BuildIndex, InsertRow, UpdateRow, UpdateSkips, UpdateFails,
         DeleteRow, LockTimesOut, AbortStatement, CommitStatement, EngineStep, StatementEnds
    <3> QED
      BY <3>1, <3>2, <3>3
  <2>3. CASE Read(chain[r], clock)' = Read(chain[r], clock)
    <3>1. r \in ToSet(index[d]) \/ \E u \in Clients : Owes(u, r, d)
      BY <2>1, <2>3 DEF EntriesAreThere
    <3> QED
      BY <2>1, <2>2, <3>1, OwesStep
  <2>4. CASE Read(chain[r], clock)' # Read(chain[r], clock)
    <3>1. PICK t \in Clients : /\ at[t] = "end" /\ UNCHANGED sqlVars
                               /\ \E i \in OwnOps(t, r) : Read(chain[r], clock)' = ops[t][i].data
                               /\ Done(t, r)' # {}
      BY <2>4, RowChanges
    <3>2. PICK i \in OwnOps(t, r) : d = ops[t][i].data
      BY <3>1
    <3>3. i \in DOMAIN ops[t] /\ ops[t][i].row = r
      BY <3>2 DEF OwnOps
    <3>4. <<r, d>> \in ToSet(indexed[t])
      BY <3>1, <3>2, <3>3, NoRowAssumption DEF Listed
    <3> QED
      BY <3>1, <3>4 DEF Owes, sqlVars
  <2> QED
    BY <2>3, <2>4
<1> QED
  BY <1>1, <1>2

(* While no writer can be under way, the table stands still, and the index
   that is being built of it stays current. *)
LEMMA BuiltIsCurrentStep ==
    ASSUME UniqueKeys, Reading, Running, PairsInHand, CalledAfter, BuiltIsCurrent, [SqlNext]_allVars
    PROVE  BuiltIsCurrent'
<1>0. TypeOK /\ Shaped /\ [Next]_vars /\ stmt' = stmt
  BY EngineSteps, StatementsStay DEF Reading, SweepInv, Typed, Running
<1> SUFFICES ASSUME NEW c \in Clients, Kind(c) = "createindex", NoWriterSince(c)'
             PROVE  /\ at'[c] \in {"begin", "scan"} => snap'[c] = clock'
                    /\ at'[c] \in {"end", "register"} =>
                          \A r \in Row, d \in Data : Read(chain[r], clock)' = d => r \in ToSet(built'[c][d])
  BY <1>0 DEF BuiltIsCurrent, Kind
<1>1. CASE UNCHANGED allVars
  BY <1>1 DEF BuiltIsCurrent, NoWriterSince, IsWriter, Kind, allVars, sqlVars, vars, engine
<1>2. CASE CallAndBegin(c)
  <2>1. at'[c] = "begin" /\ snap'[c] = clock /\ clock' = clock
    BY <1>0, <1>2 DEF CallAndBegin, BeginLoad, GoTo, Shaped, Clients, TypeOK
  <2> QED
    BY <2>1
<1>3. ASSUME NEW t \in Clients, ClientStep(t), EngineApart(t), StatementApart(t), ~ CallAndBegin(c)
      PROVE  /\ at'[c] \in {"begin", "scan"} => snap'[c] = clock'
             /\ at'[c] \in {"end", "register"} =>
                   \A r \in Row, d \in Data : Read(chain[r], clock)' = d => r \in ToSet(built'[c][d])
  <2>0. c \in Tx
    BY DEF Clients
  <2>1. before'[c] = before[c]
    <3>1. CASE c # t
      BY <1>3, <3>1 DEF StatementApart
    <3>2. CASE c = t
      BY <1>3, <3>2 DEF ClientStep, SelectLookUp, BeginAfterLookUp, BeginReturns,
         WriteLookUp, Fetch, FetchEnds, SelectScan, BuildIndex, InsertRow, UpdateRow, UpdateSkips, UpdateFails,
         DeleteRow, LockTimesOut, AbortStatement, CommitStatement, EngineStep, StatementEnds, IndexRow, Register,
         sqlVars
    <3> QED
      BY <3>1, <3>2
  <2>2. at'[t] # "start" /\ at[t] # "returned"
    BY <1>3, MoverStarts
  <2>3. \A u \in Clients : IsWriter(u) /\ (at[u] # "start" \/ u = t) => u \in before[c] /\ at[u] = "returned"
    <3>1. \A u \in Clients : at[u] # "start" \/ u = t => at'[u] # "start"
      BY <1>3, <2>2 DEF StatementApart
    <3>2. \A u \in Clients : IsWriter(u) /\ at'[u] # "start" => u \in before[c]
      BY <1>0, <2>1 DEF NoWriterSince, IsWriter, Kind
    <3> QED
      BY <3>1, <3>2 DEF CalledAfter, Returned
  <2>4. ~ IsWriter(t) /\ NoWriterSince(c)
    BY <2>2, <2>3 DEF NoWriterSince
  <2>5. \A r \in Row : Read(chain[r], clock)' = Read(chain[r], clock)
    BY <2>3, RowChanges
  <2>6. clock' = clock
    <3>1. CASE CommitStatement(t)
      BY <2>4, <3>1 DEF CommitStatement, Running, OfKind
    <3>2. CASE EngineStep(t)
      BY <3>2 DEF EngineStep, Finish, LogWrites, LogFails, ApplyOp, IndexInsert, Applied, Release, Unsnap,
         ComputeHorizon, Sweep, SkipSweep, CommitReturns, engine
    <3>3. CASE FetchEnds(t) \/ SelectScan(t) \/ BuildIndex(t) \/ AbortStatement(t)
      BY <3>3 DEF FetchEnds, SelectScan, BuildIndex, AbortStatement, Abort, vars, engine
    <3>4. CASE InsertRow(t) \/ UpdateRow(t) \/ UpdateSkips(t) \/ UpdateFails(t) \/ DeleteRow(t)
      BY <3>4 DEF InsertRow, UpdateRow, UpdateSkips, UpdateFails, DeleteRow, Write, LockRow
    <3>5. CASE CallAndBegin(t) \/ BeginAfterLookUp(t) \/ BeginReturns(t)
      BY <3>5 DEF CallAndBegin, BeginAfterLookUp, BeginReturns, Begin, BeginLoad, BeginRegister
    <3>6. CASE \/ SelectLookUp(t) \/ WriteLookUp(t) \/ Fetch(t) \/ LockTimesOut(t)
               \/ StatementEnds(t) \/ IndexRow(t) \/ Register(t)
      BY <3>6 DEF SelectLookUp, WriteLookUp, Fetch, LockTimesOut, StatementEnds, IndexRow, Register, vars, engine
    <3> QED
      BY <1>3, <3>1, <3>2, <3>3, <3>4, <3>5, <3>6 DEF ClientStep
  <2>7. CASE c # t
    <3>1. at'[c] = at[c] /\ built'[c] = built[c] /\ snap'[c] = snap[c]
      BY <1>3, <2>0, <2>7 DEF StatementApart, EngineApart
    <3> QED
      BY <2>4, <2>5, <2>6, <3>1 DEF BuiltIsCurrent
  <2>8. CASE c = t
    <3>1. ClientStep(c) /\ DOMAIN at = Clients
      BY <1>3, <2>8 DEF PairsInHand
    <3>2. CASE BeginReturns(c)
      <4>1. at'[c] = "scan" /\ at[c] = "begin" /\ snap' = snap
        BY <3>1, <3>2 DEF BeginReturns, BeginRegister, GoTo
      <4> QED
        BY <2>4, <2>6, <4>1 DEF BuiltIsCurrent
    <3>3. CASE BuildIndex(c)
      <4>1. at'[c] = "end" /\ snap[c] = clock
        BY <2>4, <3>1, <3>3 DEF BuildIndex, GoTo, BuiltIsCurrent
      <4>2. ASSUME NEW r \in Row, NEW d \in Data, Read(chain[r], clock)' = d
            PROVE  r \in ToSet(built'[c][d])
        <5> DEFINE S == {q \in Row : Read(chain[q], snap[c]) = d}
        <5>1. built'[c][d] = SetToSeq(S)
          BY <1>0, <3>3 DEF BuildIndex, Shaped
        <5>2. r \in S
          BY <2>5, <4>1, <4>2
        <5>3. IsFiniteSet(S)
          BY RowsAssumption, FS_Subset
        <5> HIDE DEF S
        <5> QED
          BY <5>1, <5>2, <5>3, SetToSeqOrders
      <4> QED
        BY <4>1, <4>2
    <3>4. CASE EngineStep(c) \/ StatementEnds(c)
      <4>1. at[c] = "end" /\ at'[c] \in {"end", "register"} /\ built' = built
        <5>1. CASE StatementEnds(c)
          BY <3>1, <5>1 DEF StatementEnds, GoTo
        <5>2. CASE EngineStep(c)
          <6>1. pc[c] \notin {"new", "loaded", "active", "done"} /\ UNCHANGED sqlVars
            BY <5>2 DEF EngineStep, Finish, LogWrites, LogFails, ApplyOp, IndexInsert, Applied, Release, Unsnap,
               ComputeHorizon, Sweep, SkipSweep, CommitReturns
          <6> QED
            BY <6>1 DEF Running, InStep, Shaped, Places, sqlVars
        <5> QED
          BY <3>4, <5>1, <5>2
      <4> QED
        BY <2>4, <2>5, <4>1 DEF BuiltIsCurrent
    <3>5. CASE IndexRow(c) \/ Register(c)
      BY <2>4, <2>8, <3>1, <3>5 DEF IndexRow, Register, GoTo, Running, OfKind
    <3>6. at[c] \notin {"write", "error", "lookup", "fetch"}
      BY <2>4, <2>8 DEF Running, OfKind, PairsInHand, IsWriter
    <3> QED
      BY <1>3, <3>1, <3>2, <3>3, <3>4, <3>5, <3>6 DEF ClientStep, SelectLookUp, BeginAfterLookUp,
         WriteLookUp, Fetch, FetchEnds, SelectScan, InsertRow, UpdateRow, UpdateSkips, UpdateFails,
         DeleteRow, LockTimesOut, AbortStatement, CommitStatement
  <2> QED
    BY <2>7, <2>8
<1> QED
  BY <1>0, <1>1, <1>2, <1>3, StepsApart

IndexInv == /\ PairsInHand /\ Reading /\ Running /\ CalledAfter
            /\ \A u \in Clients : Listed(u)
            /\ EntriesAreThere /\ BuiltIsCurrent

LEMMA IndexInvInit == SqlInit => IndexInv
<1> SUFFICES ASSUME SqlInit PROVE IndexInv
  OBVIOUS
<1>0. \A t \in Clients : t \in Tx /\ pc[t] = "new" /\ ops[t] = <<>>
  BY DEF SqlInit, EngineInit, Clients
<1>1. PairsInHand /\ Reading
  <2>1. PairsInHand
    BY StatementsAssumption DEF SqlInit, PairsInHand
  <2> QED
    BY <2>1, EngineInitReads DEF SqlInit
<1>2. Running
  <2>1. Shaped
    BY LoaderAssumption DEF SqlInit, EngineInit, Shaped, Places, EmptyIndex
  <2> QED
    BY <1>0, <2>1 DEF SqlInit, Running, InStep, OfKind
<1>3. CalledAfter /\ \A u \in Clients : Listed(u)
  BY <1>0 DEF SqlInit, CalledAfter, Returned, Listed
<1>4. EntriesAreThere /\ BuiltIsCurrent
  BY DEF SqlInit, EntriesAreThere, BuiltIsCurrent
<1> QED
  BY <1>1, <1>2, <1>3, <1>4 DEF IndexInv

LEMMA IndexInvStep ==
    ASSUME UniqueKeys, IndexInv, [SqlNext]_allVars
    PROVE  IndexInv'
<1>1. TypeOK /\ [Next]_vars
  BY EngineSteps DEF IndexInv, Reading, SweepInv, Typed
<1>2. PairsInHand' /\ Reading' /\ Running' /\ CalledAfter'
  BY <1>1, PairsInHandStep, ReadingStep, RunningStep, CalledAfterStep DEF IndexInv
<1>3. \A u \in Clients : Listed(u)'
  BY <1>1, ListedStep DEF IndexInv
<1>4. EntriesAreThere' /\ BuiltIsCurrent'
  BY EntriesAreThereStep, BuiltIsCurrentStep DEF IndexInv
<1> QED
  BY <1>2, <1>3, <1>4 DEF IndexInv

LEMMA ReadsAreData ==
    ASSUME Reading, NEW r \in Row
    PROVE  Read(chain[r], clock) \in Data \cup {NoRow}
<1>1. chain[r] \in VersionChain /\ Disjoint(chain[r]) /\ clock \in Ts
  BY DEF Reading, SweepInv, Typed, TypeOK, ChainsAreDisjoint
<1>2. CASE Visible(chain[r], clock) = {}
  BY <1>2 DEF Read
<1>3. ASSUME NEW v \in chain[r].versions, Visible(chain[r], clock) = {v}
      PROVE  Read(chain[r], clock) \in Data
  BY <1>1, <1>3, ReadOfOne DEF VersionChain, RowVersion
<1> QED
  BY <1>1, <1>2, <1>3, OneIsVisible

(* Once every statement that wrote a row has returned, the secondary index
   leads to the row under its present value, unless a writing statement
   overlapped a CREATE INDEX: no order of commits, of index entries and of
   index builds of other statements loses it (executor.rs enters a row with
   index_row_in_secondary_indexes only after the commit of its statement). *)
THEOREM IndexLosesNoRow == UniqueKeys => (SqlSpec => []IndexFindsRowsUnlessRaced)
<1> SUFFICES ASSUME UniqueKeys PROVE SqlSpec => []IndexFindsRowsUnlessRaced
  OBVIOUS
<1>1. IndexInv => IndexFindsRowsUnlessRaced
  <2> SUFFICES ASSUME IndexInv, ~ raced, hasIndex, NEW r \in Row, NEW d, d = Read(chain[r], clock),
                      Settled(r), d # NoRow
               PROVE  r \in ToSet(index[d])
    BY DEF IndexFindsRowsUnlessRaced, IndexFindsRows
  <2>1. d \in Data
    BY ReadsAreData DEF IndexInv
  <2>2. r \in ToSet(index[d]) \/ \E u \in Clients : Owes(u, r, d)
    BY <2>1 DEF IndexInv, EntriesAreThere
  <2>3. \A u \in Clients : ~ Owes(u, r, d)
    BY DEF Owes, Done, Settled, Writes
  <2> QED
    BY <2>2, <2>3
<1> QED
  BY <1>1, IndexInvInit, IndexInvStep, PTL DEF SqlSpec

------------------------------------------------------------------------------
(* What a SELECT returns.  The mover's steps by what they do to its rows. *)
LEMMA SelectMoves ==
    ASSUME Running, PairsInHand, NEW t \in Clients, ClientStep(t), Kind(t) = "select"
    PROVE  \/ SelectLookUp(t) \/ Fetch(t) \/ SelectScan(t)
           \/ /\ rows' = rows /\ todo' = todo
              /\ at'[t] \in {"begin", "scan"} => at[t] \in {"start", "begin"}
              /\ at'[t] = "fetch" => at[t] = "fetch"
              /\ at'[t] = "end" => at[t] = "end" \/ (at[t] = "fetch" /\ todo[t] = <<>>)
              /\ at'[t] = "returned" => at[t] = "end"
<1>0. /\ InStep(t) /\ OfKind(t) /\ at \in [Clients -> Places]
      /\ at[t] \notin {"write", "error", "index", "register", "lookup"}
  BY DEF Running, Shaped, OfKind, IsWriter
<1> USE DEF GoTo
<1>1. CASE CallAndBegin(t) \/ BeginReturns(t)
  BY <1>0, <1>1 DEF CallAndBegin, BeginReturns
<1>2. CASE BeginAfterLookUp(t)
  BY <1>0, <1>2 DEF BeginAfterLookUp, sqlVars
<1>3. CASE FetchEnds(t)
  BY <1>0, <1>3 DEF FetchEnds
<1>4. CASE EngineStep(t)
  <2>1. pc[t] \notin {"new", "loaded", "active", "done"} /\ UNCHANGED sqlVars
    BY <1>4 DEF EngineStep, Finish, LogWrites, LogFails, ApplyOp, IndexInsert, Applied, Release, Unsnap,
       ComputeHorizon, Sweep, SkipSweep, CommitReturns
  <2>2. at[t] = "end"
    BY <1>0, <2>1 DEF InStep, Places
  <2> QED
    BY <2>1, <2>2 DEF sqlVars
<1>5. CASE StatementEnds(t)
  BY <1>0, <1>5 DEF StatementEnds
<1>6. CASE \/ WriteLookUp(t) \/ BuildIndex(t) \/ InsertRow(t) \/ UpdateRow(t) \/ UpdateSkips(t)
           \/ UpdateFails(t) \/ DeleteRow(t) \/ LockTimesOut(t) \/ AbortStatement(t) \/ CommitStatement(t)
           \/ IndexRow(t) \/ Register(t)
  BY <1>0, <1>6 DEF WriteLookUp, BuildIndex, InsertRow, UpdateRow, UpdateSkips, UpdateFails, DeleteRow,
     LockTimesOut, AbortStatement, CommitStatement, IndexRow, Register
<1> QED
  BY <1>1, <1>2, <1>3, <1>4, <1>5, <1>6 DEF ClientStep

LEMMA FoundRowsAreRows ==
    ASSUME Shaped, NEW where \in Where
    PROVE  IsFiniteSet(FoundRows(where)) /\ FoundRows(where) \subseteq Row
<1>1. where.values \subseteq Data /\ where.rows \subseteq Row
  BY DEF Where
<1>2. \A d \in where.values : ToSet(index[d]) \subseteq Row
  <2>1. \A d \in where.values : index[d] \in Seq(Row)
    BY <1>1 DEF Shaped
  <2> QED
    BY <2>1 DEF ToSet
<1>3. FoundRows(where) \subseteq Row
  BY <1>1, <1>2 DEF FoundRows
<1> QED
  BY <1>3, RowsAssumption, FS_Subset

LEMMA ReadsOnceStep ==
    ASSUME Running, PairsInHand, TypeOK, ReadsOnce, [SqlNext]_allVars
    PROVE  ReadsOnce'
<1>0. Shaped /\ stmt' = stmt /\ DOMAIN rows = Clients /\ DOMAIN todo = Clients /\ DOMAIN at = Clients
  BY StatementsStay DEF Running, Shaped, PairsInHand
<1> DEFINE Once(t) == /\ at[t] \in {"start", "begin", "scan"} => rows[t] = <<>>
                      /\ rows[t] \in Seq(Pairs)
                      /\ \A i, j \in DOMAIN rows[t] : rows[t][i][1] = rows[t][j][1] => i = j
                      /\ at[t] = "fetch" =>
                             /\ todo[t] \in Seq(Row) /\ IsInjective(todo[t])
                             /\ \A i \in DOMAIN rows[t] : rows[t][i][1] \notin ToSet(todo[t])
<1> SUFFICES ASSUME NEW u \in Clients, Kind(u) = "select" PROVE Once(u)'
  BY <1>0 DEF ReadsOnce, Kind
<1>1. Once(u)
  BY DEF ReadsOnce
<1>2. CASE at'[u] = at[u] /\ rows'[u] = rows[u] /\ todo'[u] = todo[u]
  BY <1>1, <1>2
<1>3. CASE UNCHANGED allVars
  BY <1>2, <1>3 DEF allVars, sqlVars
<1>4. ASSUME NEW t \in Clients, StatementApart(t), t # u PROVE Once(u)'
  BY <1>2, <1>4 DEF StatementApart
<1>5. ASSUME ClientStep(u) PROVE Once(u)'
  <2> DEFINE where == stmt[u].where
  <2>0. where \in Where
    BY DEF PairsInHand, Statement, Kind
  <2>1. CASE SelectLookUp(u)
    <3>1. PICK order \in SetToSeqs(FoundRows(where)) : todo' = [todo EXCEPT ![u] = order]
      BY <2>1 DEF SelectLookUp
    <3>2. order \in Seq(FoundRows(where)) /\ IsInjective(order) /\ FoundRows(where) \subseteq Row
      BY <1>0, <2>0, FoundRowsAreRows, SetToSeqsOrder
    <3>3. order \in Seq(Row)
      BY <3>2
    <3>4. at'[u] = "fetch" /\ rows'[u] = <<>> /\ todo'[u] = order
      BY <1>0, <1>1, <2>1, <3>1 DEF SelectLookUp, GoTo
    <3> QED
      BY <3>2, <3>3, <3>4
  <2>2. CASE Fetch(u)
    <3> DEFINE r == Head(todo[u])
               d == Read(chain[r], snap[u])
    <3>1. /\ at[u] = "fetch" /\ at' = at /\ todo[u] # <<>> /\ todo'[u] = Tail(todo[u])
          /\ rows'[u] = rows[u] \/ (Matches(where, r, d) /\ rows'[u] = Append(rows[u], <<r, d>>))
      BY <1>0, <2>2 DEF Fetch
    <3>2. /\ ToSet(todo[u]) = {r} \cup ToSet(Tail(todo[u])) /\ r \in Row
          /\ IsInjective(Tail(todo[u])) /\ r \notin ToSet(Tail(todo[u])) /\ Tail(todo[u]) \in Seq(Row)
      BY <1>1, <3>1, ToSetTail
    <3>3. CASE rows'[u] = rows[u]
      BY <1>1, <3>1, <3>2, <3>3
    <3>4. CASE Matches(where, r, d) /\ rows'[u] = Append(rows[u], <<r, d>>)
      <4>1. <<r, d>> \in Pairs
        BY <2>0, <3>2, <3>4 DEF Matches, Where, Pairs
      <4> HIDE DEF r, d
      <4>2. /\ rows'[u] \in Seq(Pairs) /\ DOMAIN rows'[u] = DOMAIN rows[u] \cup {Len(rows[u]) + 1}
            /\ \A i \in DOMAIN rows[u] : rows'[u][i] = rows[u][i]
            /\ rows'[u][Len(rows[u]) + 1] = <<r, d>>
        BY <1>1, <3>4, <4>1
      <4>3. \A i \in DOMAIN rows[u] : rows[u][i][1] # r
        BY <1>1, <3>1, <3>2
      <4>4. \A i, j \in DOMAIN rows'[u] : rows'[u][i][1] = rows'[u][j][1] => i = j
        BY <1>1, <4>2, <4>3
      <4>5. \A i \in DOMAIN rows'[u] : rows'[u][i][1] \notin ToSet(Tail(todo[u]))
        BY <1>1, <3>1, <3>2, <4>2
      <4> QED
        BY <3>1, <3>2, <4>2, <4>4, <4>5
    <3> QED
      BY <3>1, <3>3, <3>4
  <2>3. CASE SelectScan(u)
    <3> DEFINE S == Scanned(u, where)
    <3>1. at'[u] = "end" /\ rows'[u] = SetToSeq(S)
      BY <1>0, <2>3 DEF SelectScan, GoTo
    <3>2. \A p, q \in S : p[1] = q[1] => p = q
      BY DEF Scanned, Pairs
    <3>3. IsFiniteSet(S) /\ S \subseteq Pairs
      BY ScannedIsFinite
    <3> HIDE DEF S
    <3>4. SetToSeq(S) \in Seq(S) /\ IsInjective(SetToSeq(S))
      BY <3>3, SetToSeqOrders
    <3>5. rows'[u] \in Seq(Pairs) /\ \A i \in DOMAIN rows'[u] : rows'[u][i] \in S
      BY <3>1, <3>3, <3>4
    <3>6. \A i, j \in DOMAIN rows'[u] : rows'[u][i] = rows'[u][j] => i = j
      BY <3>1, <3>4 DEF IsInjective
    <3> QED
      BY <3>1, <3>2, <3>5, <3>6
  <2>4. CASE /\ rows' = rows /\ todo' = todo
             /\ at'[u] \in {"begin", "scan"} => at[u] \in {"start", "begin"}
             /\ at'[u] = "fetch" => at[u] = "fetch"
    <3>1. at'[u] # "start"
      BY <1>5, MoverStarts
    <3> QED
      BY <1>1, <2>4, <3>1
  <2> QED
    BY <1>5, <2>1, <2>2, <2>3, <2>4, SelectMoves
<1> QED
  BY <1>0, <1>3, <1>4, <1>5, StepsApart

LEMMA SnapshotsFollowReturnsStep ==
    ASSUME Reading, Running, PairsInHand, CalledAfter, SnapshotsFollowReturns, [SqlNext]_allVars
    PROVE  SnapshotsFollowReturns'
<1>0. /\ TypeOK /\ Stages /\ Shaped /\ Loader \in Tx /\ Loader \notin Clients
      /\ \A t \in Clients : t \in Tx /\ InStep(t)
      /\ \A t \in Clients : before[t] \subseteq Returned /\ Returned \subseteq Clients
  BY LoaderAssumption DEF Reading, SweepInv, Typed, Running, Clients, CalledAfter, Returned
<1>1. CASE UNCHANGED allVars
  BY <1>1 DEF SnapshotsFollowReturns, allVars, sqlVars, vars, engine
<1>2. ASSUME NEW t \in Clients, ClientStep(t), EngineApart(t), StatementApart(t)
      PROVE  SnapshotsFollowReturns'
  <2>1. \A u \in Returned \cup {Loader} : cts'[u] = cts[u]
    <3>1. t \notin Returned /\ t # Loader
      BY <1>0, <1>2, MoverStarts DEF Returned
    <3> QED
      BY <1>0, <1>2, <3>1 DEF EngineApart
  <2>2. ASSUME NEW u \in Clients, u # t, pc'[u] \in {"loaded", "active"},
               NEW w \in before'[u] \cup {Loader}
        PROVE  cts'[w] <= snap'[u]
    <3>1. pc'[u] = pc[u] /\ before'[u] = before[u] /\ snap'[u] = snap[u]
      BY <1>0, <1>2, <2>2 DEF EngineApart, StatementApart
    <3>2. cts'[w] = cts[w]
      BY <1>0, <2>1, <2>2, <3>1
    <3> QED
      BY <2>2, <3>1, <3>2 DEF SnapshotsFollowReturns
  <2>3. ASSUME pc'[t] \in {"loaded", "active"}
        PROVE  /\ before'[t] = before[t] \/ before'[t] = Returned
               /\ \/ snap'[t] = clock
                  \/ snap'[t] = snap[t] /\ before'[t] = before[t] /\ pc[t] \in {"loaded", "active"}
    <3> USE <1>0 DEF TypeOK, Shaped, Goto
    <3>1. CASE CallAndBegin(t)
      BY <3>1 DEF CallAndBegin, BeginLoad
    <3>2. CASE BeginAfterLookUp(t) \/ BeginReturns(t)
      BY <3>2 DEF BeginAfterLookUp, BeginReturns, Begin, BeginLoad, BeginRegister, sqlVars
    <3>3. CASE SelectLookUp(t)
      BY <2>3, <3>3 DEF SelectLookUp, vars, engine, InStep
    <3>4. CASE FetchEnds(t) \/ SelectScan(t) \/ BuildIndex(t) \/ AbortStatement(t) \/ CommitStatement(t)
      BY <2>3, <3>4 DEF FetchEnds, SelectScan, BuildIndex, AbortStatement, CommitStatement, Abort, Commit,
         vars, engine
    <3>5. CASE InsertRow(t) \/ UpdateRow(t) \/ UpdateSkips(t) \/ UpdateFails(t) \/ DeleteRow(t)
      BY <2>3, <3>5 DEF InsertRow, UpdateRow, UpdateSkips, UpdateFails, DeleteRow, Write, LockRow
    <3>6. CASE \/ WriteLookUp(t) \/ Fetch(t) \/ LockTimesOut(t)
               \/ StatementEnds(t) \/ IndexRow(t) \/ Register(t)
      BY <2>3, <3>6 DEF WriteLookUp, Fetch, LockTimesOut, StatementEnds, IndexRow, Register, vars, engine
    <3>7. CASE EngineStep(t)
      <4>1. pc'[t] \notin {"loaded", "active"}
        <5>1. CASE LogWrites(t) \/ LogFails(t) \/ ApplyOp(t) \/ IndexInsert(t) \/ Applied(t)
          BY <5>1 DEF LogWrites, LogFails, ApplyOp, IndexInsert, Applied, engine
        <5>2. CASE Release(t) \/ Unsnap(t)
          BY <5>2 DEF Release, Unsnap
        <5>3. CASE ComputeHorizon(t) \/ Sweep(t) \/ SkipSweep(t) \/ CommitReturns(t)
          BY <5>3 DEF ComputeHorizon, Sweep, SkipSweep, CommitReturns, engine
        <5> QED
          BY <3>7, <5>1, <5>2, <5>3 DEF EngineStep, Finish
      <4> QED
        BY <2>3, <4>1
    <3> QED
      BY <1>2, <3>1, <3>2, <3>3, <3>4, <3>5, <3>6, <3>7 DEF ClientStep
  <2>4. ASSUME pc'[t] \in {"loaded", "active"}, NEW w \in before'[t] \cup {Loader}
        PROVE  cts'[w] <= snap'[t]
    <3>1. w \in Returned \cup {Loader} /\ w \in Tx
      BY <1>0, <2>3, <2>4
    <3>2. cts'[w] = cts[w] /\ cts[w] <= clock
      BY <1>0, <2>1, <3>1 DEF Stages
    <3> QED
      BY <2>3, <2>4, <3>2 DEF SnapshotsFollowReturns
  <2> QED
    BY <2>2, <2>4 DEF SnapshotsFollowReturns
<1> QED
  BY <1>0, <1>1, <1>2, StepsApart

(* If everybody who wrote a row had returned when a SELECT was called, the
   SELECT's snapshot sees the row as it is, and the row stays as it is. *)
LEMMA KnownRow ==
    ASSUME Reading, Running, SnapshotsFollowReturns, NEW t \in Clients, pc[t] \in {"loaded", "active"},
           NEW r \in Row, AllBefore(t, r)
    PROVE  Read(chain[r], snap[t]) = Read(chain[r], clock)
<1>0. /\ t \in Tx /\ TypeOK /\ chain[r] \in VersionChain /\ snap[t] \in Ts /\ clock \in Ts
      /\ snap[t] <= clock
      /\ \A u \in Tx : cts[u] \in Nat
  BY DEF Clients, Reading, SweepInv, Typed, TypeOK, SnapshotsArePast, Ts
<1>1. ASSUME NEW v \in chain[r].versions
      PROVE  v.begin_ts <= snap[t] /\ (v.end_ts <= snap[t] \/ v.end_ts = TS_INFINITY)
  <2>1. PICK u \in Tx : /\ Done(u, r) # {} /\ v.begin_ts <= cts[u]
                        /\ v.end_ts <= cts[u] \/ v.end_ts = TS_INFINITY
    BY DEF Reading, ChainsArePast
  <2>2. u \in before[t] \cup {Loader}
    BY <2>1 DEF AllBefore, Clients
  <2>3. cts[u] <= snap[t]
    BY <2>2 DEF SnapshotsFollowReturns
  <2>4. v.begin_ts \in Nat /\ v.end_ts \in Nat /\ snap[t] \in Nat
    BY <1>0, MaxTsAssumption DEF VersionChain, RowVersion, Ts, TS_INFINITY
  <2> QED
    BY <1>0, <2>1, <2>3, <2>4
<1>2. UpTo(chain[r], snap[t])
  BY <1>1 DEF UpTo
<1> QED
  BY <1>0, <1>2, LiveReads

LEMMA KnownRowStays ==
    ASSUME UniqueKeys, Reading, Running, PairsInHand, CalledAfter, [SqlNext]_allVars,
           NEW t \in Clients, at[t] # "start", NEW r \in Row, AllBefore(t, r)'
    PROVE  AllBefore(t, r) /\ Read(chain[r], clock)' = Read(chain[r], clock)
<1>0. TypeOK /\ Shaped /\ [Next]_vars
  BY EngineSteps DEF Reading, SweepInv, Typed, Running
<1>1. before'[t] = before[t]
  <2>1. CASE UNCHANGED allVars
    BY <2>1 DEF allVars, sqlVars
  <2>2. ASSUME NEW u \in Clients, ClientStep(u), StatementApart(u) PROVE before'[t] = before[t]
    <3>1. CASE u # t
      BY <2>2, <3>1 DEF StatementApart
    <3>2. CASE u = t
      BY <2>2, <3>2 DEF ClientStep, SelectLookUp, CallAndBegin, BeginAfterLookUp, BeginReturns, WriteLookUp,
         Fetch, FetchEnds, SelectScan, BuildIndex, InsertRow, UpdateRow, UpdateSkips, UpdateFails, DeleteRow,
         LockTimesOut, AbortStatement, CommitStatement, EngineStep, StatementEnds, IndexRow, Register, sqlVars
    <3> QED
      BY <3>1, <3>2
  <2> QED
    BY <1>0, <2>1, <2>2, StepsApart
<1>2. AllBefore(t, r)
  <2> SUFFICES ASSUME NEW u \in Clients, Done(u, r) # {} PROVE u \in before[t]
    BY DEF AllBefore
  <2>1. Done(u, r)' # {}
    BY <1>0, DoneGrows DEF Clients
  <2> QED
    BY <1>1, <2>1 DEF AllBefore
<1>3. Read(chain[r], clock)' = Read(chain[r], clock)
  <2> SUFFICES ASSUME Read(chain[r], clock)' # Read(chain[r], clock) PROVE FALSE
    OBVIOUS
  <2>1. PICK u \in Clients : at[u] = "end" /\ Done(u, r)' # {}
    BY RowChanges
  <2>2. u \in before[t]
    BY <1>1, <2>1 DEF AllBefore
  <2> QED
    BY <2>1, <2>2 DEF CalledAfter, Returned
<1> QED
  BY <1>2, <1>3

LEMMA LookUpFinds ==
    ASSUME Reading, Running, Indexing, EntriesAreThere, ~ raced, NEW where \in Where, NEW r \in Row,
           where.access = "pk" \/ (where.access = "column" /\ hasIndex),
           \A u \in Clients : Done(u, r) # {} => u \in Returned,
           Matches(where, r, Read(chain[r], clock))
    PROVE  r \in FoundRows(where)
<1> DEFINE d == Read(chain[r], clock)
<1>0. r \in where.rows /\ d \in where.values /\ d # NoRow /\ d \in Data
  BY DEF Matches, Where
<1>1. CASE where.access = "pk"
  <2> SUFFICES ASSUME r \notin pkIndex PROVE FALSE
    BY <1>0, <1>1 DEF FoundRows
  <2>1. PICK v \in chain[r].versions : TRUE
    BY <1>0 DEF Read, Visible
  <2>2. PICK u \in Tx : pc[u] = "index" /\ ops[u][cur[u]].row = r
    BY <2>1 DEF Indexing, PkIndexComplete
  <2>3. cur[u] \in DOMAIN ops[u]
    BY <2>2, CurrentOp DEF Indexing, Typed, IndexPending
  <2>4. AppliedCount(u) = cur[u] /\ cur[u] \in Nat
    BY <2>2 DEF AppliedCount, Reading, SweepInv, Stages, Typed, TypeOK
  <2>5. Done(u, r) # {}
    BY <2>2, <2>3, <2>4 DEF Done, OwnOps
  <2>6. u \in Clients
    BY <2>2 DEF Running, Shaped, Clients
  <2> QED
    BY <2>2, <2>5, <2>6 DEF Returned, Running, InStep
<1>2. CASE where.access = "column" /\ hasIndex
  <2>1. \A e \in Data : d = e => r \in ToSet(index[e]) \/ \E u \in Clients : Owes(u, r, e)
    BY <1>2 DEF EntriesAreThere
  <2>2. r \in ToSet(index[d])
    BY <1>0, <2>1 DEF Owes, Returned
  <2> QED
    BY <1>0, <1>2, <2>2 DEF FoundRows
<1> QED
  BY <1>1, <1>2

LEMMA SelectsSeeStep ==
    ASSUME UniqueKeys, Reading, Running, PairsInHand, CalledAfter, Indexing, EntriesAreThere,
           SnapshotsFollowReturns, ReadsOnce, SelectsSee, [SqlNext]_allVars
    PROVE  SelectsSee'
<1>0. /\ TypeOK /\ Shaped /\ stmt' = stmt
      /\ DOMAIN rows = Clients /\ DOMAIN todo = Clients /\ DOMAIN at = Clients /\ DOMAIN before = Clients
  BY StatementsStay DEF Reading, SweepInv, Typed, Running, Shaped, PairsInHand
<1> SUFFICES ASSUME NEW t \in Clients, Kind(t) = "select", at'[t] \in {"fetch", "end", "returned"},
                    ~ raced', NEW r \in Row, AllBefore(t, r)'
             PROVE  Sees(t, r)'
  BY <1>0 DEF SelectsSee, Kind
<1> DEFINE where == stmt[t].where
           d == Read(chain[r], clock)
<1>1. /\ where \in Where /\ t \in Tx /\ ~ raced
      /\ rows[t] \in Seq(Pairs)
      /\ at[t] = "fetch" => todo[t] \in Seq(Row)
      /\ at[t] \in {"start", "begin", "scan"} => rows[t] = <<>>
  <2>1. raced => raced'
    BY DEF SqlNext, allVars, sqlVars, SelectLookUp, CallAndBegin, BeginAfterLookUp, BeginReturns,
       WriteLookUp, Fetch, FetchEnds, SelectScan, BuildIndex, InsertRow, UpdateRow, UpdateSkips, UpdateFails,
       DeleteRow, LockTimesOut, AbortStatement, CommitStatement, EngineStep, StatementEnds, IndexRow, Register
  <2> QED
    BY <2>1 DEF PairsInHand, Statement, Kind, Clients, ReadsOnce
<1>2. CASE SelectLookUp(t)
  <2>1. PICK order \in SetToSeqs(FoundRows(where)) : todo' = [todo EXCEPT ![t] = order]
    BY <1>2 DEF SelectLookUp
  <2>2. ToSet(order) = FoundRows(where)
    BY <1>0, <1>1, FoundRowsAreRows, SetToSeqsOrder
  <2>3. /\ at'[t] = "fetch" /\ rows'[t] = <<>> /\ todo'[t] = order /\ before'[t] = Returned
        /\ where.access = "pk" \/ (where.access = "column" /\ hasIndex)
        /\ UNCHANGED vars
    BY <1>0, <1>1, <1>2, <2>1 DEF SelectLookUp, GoTo
  <2>4. \A u \in Clients : Done(u, r) # {} => u \in Returned
    BY <2>3 DEF AllBefore, Done, OwnOps, AppliedCount, vars, engine
  <2>5. Matches(where, r, d) => r \in ToSet(todo'[t])
    BY <1>1, <2>2, <2>3, <2>4, LookUpFinds
  <2>6. chain' = chain /\ clock' = clock
    BY <2>3 DEF vars, engine
  <2> QED
    BY <1>0, <2>3, <2>5, <2>6 DEF Sees
<1>3. CASE at[t] = "start" /\ ~ SelectLookUp(t)
  <2>1. CASE UNCHANGED allVars
    BY <1>3, <2>1 DEF allVars, sqlVars
  <2>2. ASSUME NEW u \in Clients, u # t, StatementApart(u) PROVE FALSE
    BY <1>3, <2>2 DEF StatementApart
  <2>3. CASE ClientStep(t)
    BY <1>0, <1>3, <2>3, SelectMoves DEF Fetch, SelectScan, MoverStarts
  <2> QED
    BY <1>0, <2>1, <2>2, <2>3, StepsApart
<1>4. CASE at[t] # "start"
  <2>1. AllBefore(t, r) /\ d' = d
    BY <1>4, KnownRowStays
  <2>2. at[t] \in {"fetch", "end", "returned"} => Sees(t, r)
    BY <1>1, <2>1 DEF SelectsSee
  <2>3. CASE at'[t] = at[t] /\ rows'[t] = rows[t] /\ todo'[t] = todo[t]
    BY <1>0, <2>1, <2>2, <2>3 DEF Sees
  <2>4. CASE UNCHANGED allVars
    BY <2>3, <2>4 DEF allVars, sqlVars
  <2>5. ASSUME NEW u \in Clients, u # t, StatementApart(u) PROVE Sees(t, r)'
    BY <2>3, <2>5 DEF StatementApart
  <2>6. CASE Fetch(t)
    <3> DEFINE q == Head(todo[t])
               e == Read(chain[q], snap[t])
    <3>1. /\ at[t] = "fetch" /\ at' = at /\ todo[t] # <<>> /\ todo'[t] = Tail(todo[t]) /\ pc[t] = "active"
          /\ IF Matches(where, q, e) THEN rows'[t] = Append(rows[t], <<q, e>>) ELSE rows'[t] = rows[t]
      BY <1>0, <2>6 DEF Fetch
    <3>2. ToSet(todo[t]) = {q} \cup ToSet(Tail(todo[t])) /\ q \in Row
      BY <1>1, <3>1, ToSetTail
    <3>3. q = r => e = d
      BY <2>1, <3>1, KnownRow
    <3>4. Matches(where, q, e) => <<q, e>> \in Pairs
      BY <1>1, <3>2 DEF Matches, Where, Pairs
    <3>5. Sees(t, r)
      BY <2>2, <3>1
    <3> HIDE DEF q, e, d, where
    <3>6. /\ Matches(where, r, d) => <<r, d>> \in ToSet(rows[t]) \/ r \in ToSet(todo[t])
          /\ \A i \in DOMAIN rows[t] : rows[t][i][1] = r => rows[t][i] = <<r, d>> /\ Matches(where, r, d)
      BY <3>5 DEF Sees, d, where
    <3>7. ~ Matches(where, q, e) \/ rows'[t] = Append(rows[t], <<q, e>>)
      BY <3>1
    <3>8. ASSUME Matches(where, q, e)
          PROVE  /\ ToSet(rows'[t]) = ToSet(rows[t]) \cup {<<q, e>>}
                 /\ \A i \in DOMAIN rows'[t] :
                       rows'[t][i] = <<q, e>> \/ (i \in DOMAIN rows[t] /\ rows'[t][i] = rows[t][i])
      <4>1. rows'[t] = Append(rows[t], <<q, e>>) /\ <<q, e>> \in Pairs
        BY <3>1, <3>4, <3>8
      <4> QED
        BY <1>1, <4>1, ToSetAppend
    <3>9. Matches(where, r, d) => <<r, d>> \in ToSet(rows'[t]) \/ r \in ToSet(todo'[t])
      <4>1. CASE Matches(where, q, e)
        BY <3>1, <3>2, <3>3, <3>6, <3>8, <4>1
      <4>2. CASE ~ Matches(where, q, e)
        BY <3>1, <3>2, <3>3, <3>6, <4>2
      <4> QED
        BY <4>1, <4>2
    <3>10. ASSUME NEW i \in DOMAIN rows'[t], rows'[t][i][1] = r
           PROVE  rows'[t][i] = <<r, d>> /\ Matches(where, r, d)
      <4>1. CASE i \in DOMAIN rows[t] /\ rows'[t][i] = rows[t][i]
        BY <3>6, <3>10, <4>1
      <4>2. CASE Matches(where, q, e) /\ rows'[t][i] = <<q, e>>
        <5>1. q = r
          BY <3>10, <4>2
        <5> QED
          BY <3>3, <4>2, <5>1
      <4> QED
        BY <3>1, <3>8, <4>1, <4>2
    <3> QED
      BY <1>0, <2>1, <3>1, <3>9, <3>10 DEF Sees, d, where
  <2>7. CASE SelectScan(t)
    <3> DEFINE S == Scanned(t, where)
    <3>1. at[t] = "scan" /\ at'[t] = "end" /\ rows'[t] = SetToSeq(S)
      BY <1>0, <2>7 DEF SelectScan, GoTo
    <3>2. Read(chain[r], snap[t]) = d
      <4>1. pc[t] = "active"
        BY <3>1 DEF Running, InStep
      <4> QED
        BY <2>1, <4>1, KnownRow
    <3>3. \A p \in S : p[1] = r => p = <<r, d>> /\ Matches(where, r, d)
      BY <3>2 DEF Scanned, Pairs
    <3>4. Matches(where, r, d) => <<r, d>> \in S
      BY <1>1, <3>2 DEF Scanned, Pairs, Matches, Where
    <3>5. IsFiniteSet(S)
      BY ScannedIsFinite
    <3> HIDE DEF S
    <3>6. ToSet(SetToSeq(S)) = S
      BY <3>5, SetToSeqOrders
    <3>7. \A i \in DOMAIN rows'[t] : rows'[t][i] \in S
      BY <3>1, <3>6 DEF ToSet
    <3> QED
      BY <1>0, <2>1, <3>1, <3>3, <3>4, <3>6, <3>7 DEF Sees
  <2>8. CASE /\ rows' = rows /\ todo' = todo
             /\ at'[t] = "fetch" => at[t] = "fetch"
             /\ at'[t] = "end" => at[t] = "end" \/ (at[t] = "fetch" /\ todo[t] = <<>>)
             /\ at'[t] = "returned" => at[t] = "end"
    <3>1. Sees(t, r)
      BY <2>2, <2>8
    <3>2. at[t] = "fetch" /\ at'[t] # "fetch" => ToSet(todo[t]) = {}
      BY <2>8 DEF ToSet
    <3> QED
      BY <1>0, <2>1, <2>8, <3>1, <3>2 DEF Sees
  <2>9. ClientStep(t) => SelectLookUp(t) \/ Fetch(t) \/ SelectScan(t) \/
             (/\ rows' = rows /\ todo' = todo
              /\ at'[t] = "fetch" => at[t] = "fetch"
              /\ at'[t] = "end" => at[t] = "end" \/ (at[t] = "fetch" /\ todo[t] = <<>>)
              /\ at'[t] = "returned" => at[t] = "end")
    BY SelectMoves
  <2> QED
    BY <1>0, <1>2, <2>4, <2>5, <2>6, <2>7, <2>8, <2>9, StepsApart
<1> QED
  BY <1>2, <1>3, <1>4

SelectInv == IndexInv /\ Indexing /\ SnapshotsFollowReturns /\ ReadsOnce /\ SelectsSee

LEMMA SelectInvInit == SqlInit => SelectInv
<1> SUFFICES ASSUME SqlInit PROVE SelectInv
  OBVIOUS
<1>1. IndexInv
  BY IndexInvInit
<1>2. Indexing
  <2>1. \A t \in Tx : pc[t] \in {"new", "done"}
    BY DEF SqlInit, EngineInit
  <2>2. InsertedIsIndexed /\ UpdatesFollowInserts
    BY <2>1 DEF InsertedIsIndexed, UpdatesFollowInserts, Locking
  <2>3. PkIndexComplete
    BY LoadedChains DEF SqlInit, EngineInit, PkIndexComplete
  <2> QED
    BY <1>1, <2>2, <2>3, StagesStart DEF IndexInv, Reading, SweepInv, Indexing
<1>3. SnapshotsFollowReturns
  BY DEF SqlInit, EngineInit, SnapshotsFollowReturns, Clients
<1>4. ReadsOnce /\ SelectsSee
  BY DEF SqlInit, ReadsOnce, SelectsSee
<1> QED
  BY <1>1, <1>2, <1>3, <1>4 DEF SelectInv

LEMMA SelectInvStep ==
    ASSUME UniqueKeys, SelectInv, [SqlNext]_allVars
    PROVE  SelectInv'
<1>0. TypeOK /\ [Next]_vars /\ SnapshotsArePast
  BY EngineSteps DEF SelectInv, IndexInv, Reading, SweepInv, Typed
<1>1. IndexInv'
  BY IndexInvStep DEF SelectInv
<1>2. Indexing'
  BY <1>0, IndexingStep DEF SelectInv
<1>3. SnapshotsFollowReturns' /\ ReadsOnce' /\ SelectsSee'
  BY <1>0, SnapshotsFollowReturnsStep, ReadsOnceStep, SelectsSeeStep DEF SelectInv, IndexInv
<1> QED
  BY <1>1, <1>2, <1>3 DEF SelectInv

(* A SELECT, whether it scans, goes through the primary-key index or through
   the secondary index, returns of every row whose writers had all returned
   before it was called exactly what the row is: once if it matches, not at
   all if not.  Whatever else runs meanwhile, stale, duplicate and missing
   index entries do not show (executor.rs reads every candidate again at its
   snapshot and tests WHERE on what it finds). *)
THEOREM SelectsAreCurrent == UniqueKeys => (SqlSpec => []SelectSeesReturned)
<1> SUFFICES ASSUME UniqueKeys PROVE SqlSpec => []SelectSeesReturned
  OBVIOUS
<1>1. ASSUME SelectInv, NEW t \in Clients, at[t] = "returned", Kind(t) = "select", ~ raced,
             NEW r \in Row, \A u \in Clients : Writes(u, r) => u \in before[t],
             NEW d, d = CommittedValue(r, clock),
             NEW found, found = {i \in DOMAIN rows[t] : rows[t][i][1] = r}
      PROVE  IF Matches(stmt[t].where, r, d)
               THEN Cardinality(found) = 1 /\ \A i \in found : rows[t][i] = <<r, d>>
               ELSE found = {}
  <2>0. /\ Reading /\ Running /\ CalledAfter /\ TypeOK /\ Stages /\ clock \in Ts
        /\ rows[t] \in Seq(Pairs)
        /\ \A i, j \in DOMAIN rows[t] : rows[t][i][1] = rows[t][j][1] => i = j
    BY <1>1 DEF SelectInv, IndexInv, Reading, SweepInv, Typed, TypeOK, ReadsOnce
  <2>1. Read(chain[r], clock) = d
    <3>1. \A u \in InFlight : ~ Writes(u, r)
      <4> SUFFICES ASSUME NEW u \in InFlight, Writes(u, r) PROVE FALSE
        OBVIOUS
      <4>1. u \in Clients
        BY <2>0 DEF InFlight, Running, Shaped, Clients
      <4>2. at[u] = "returned"
        BY <1>1, <2>0, <4>1 DEF CalledAfter, Returned
      <4> QED
        BY <2>0, <4>1, <4>2 DEF Running, InStep, InFlight
    <3>2. Exact(r, clock)
      <4>1. Protected(clock)
        BY <2>0 DEF Protected, Ts
      <4> QED
        BY <2>0, <4>1 DEF Reading, ReadsAreExact
    <3> QED
      BY <1>1, <2>0, <3>1, <3>2, ExactIsCommitted
  <2>2. AllBefore(t, r)
    BY <1>1 DEF AllBefore, Done, Writes
  <2>3. Sees(t, r)
    BY <1>1, <2>2 DEF SelectInv, SelectsSee
  <2>4. \A i \in found : rows[t][i] = <<r, d>> /\ Matches(stmt[t].where, r, d)
    BY <1>1, <2>1, <2>3 DEF Sees
  <2>5. CASE Matches(stmt[t].where, r, d)
    <3>1. PICK i \in DOMAIN rows[t] : rows[t][i] = <<r, d>>
      BY <1>1, <2>1, <2>3, <2>5 DEF Sees, ToSet
    <3>2. found = {i}
      BY <1>1, <2>0, <3>1
    <3> QED
      BY <2>4, <2>5, <3>2, FS_Singleton
  <2>6. CASE ~ Matches(stmt[t].where, r, d)
    BY <2>4, <2>6
  <2> QED
    BY <2>5, <2>6
<1>2. SelectInv => SelectSeesReturned
  BY <1>1 DEF SelectSeesReturned
<1> QED
  BY <1>2, SelectInvInit, SelectInvStep, PTL DEF SqlSpec
==============================================================================
