------------------------- MODULE SqlStatementsProofs --------------------------
(***************************************************************************)
(* Proofs about SqlStatements, for any table, any statements and any       *)
(* number of clients: what OLTPEngine promises about reads holds below the *)
(* SQL statements, and no UPDATE is lost.                                  *)
(***************************************************************************)
EXTENDS SqlStatements, OLTPEngineProofs, FiniteSetTheorems

------------------------------------------------------------------------------
(* What a writing statement has in hand is rows of the table. *)
PairsInHand ==
    /\ stmt \in [Clients -> Statement]
    /\ DOMAIN at = Clients
    /\ \A t \in Clients : at[t] \in {"lookup", "fetch"} => Kind(t) \in {"select", "update", "delete"}
    /\ DOMAIN rows = Clients
    /\ \A t \in Clients : IsWriter(t) => rows[t] \in Seq(Pairs)

(* What an UPDATE has written to r follows the value committed there last,
   and from its commit on the one committed there last before it. *)
Until(t) == IF pc[t] = "active" THEN clock ELSE cts[t] - 1
WritesFollow ==
    \A t \in Clients, r \in Row, n \in Ts : Kind(t) = "update" /\ n = Until(t) =>
        \A i \in OwnOps(t, r) :
            /\ Matches(stmt[t].where, r, CommittedValue(r, n))
            /\ ops[t][i].data = stmt[t].set[CommittedValue(r, n)]

------------------------------------------------------------------------------
(* A finite set put in order holds its elements once each. *)
LEMMA InOrder ==
    ASSUME NEW S, IsFiniteSet(S), NEW f \in [1 .. Cardinality(S) -> S], IsInjective(f)
    PROVE  f \in Seq(S) /\ ToSet(f) = S
<1>1. Cardinality(S) \in Nat
  BY FS_CardinalityType
<1>2. f \in Injection(1 .. Cardinality(S), S)
  BY DEF Injection
<1>3. IsFiniteSet(1 .. Cardinality(S)) /\ Cardinality(1 .. Cardinality(S)) = Cardinality(S)
  BY <1>1, FS_Interval
<1>4. f \in Surjection(1 .. Cardinality(S), S)
  BY <1>2, <1>3, FS_Injection
<1>5. ToSet(f) = S
  BY <1>4 DEF Surjection, ToSet
<1> QED
  BY <1>1, <1>5

LEMMA SetToSeqOrders ==
    ASSUME NEW S, IsFiniteSet(S)
    PROVE  SetToSeq(S) \in Seq(S) /\ IsInjective(SetToSeq(S)) /\ ToSet(SetToSeq(S)) = S
<1>1. Bijection(1 .. Cardinality(S), S) # {}
  BY FS_CardinalityType DEF ExistsBijection
<1>2. \E f \in [1 .. Cardinality(S) -> S] : IsInjective(f)
  BY <1>1 DEF Bijection, Injection
<1>3. SetToSeq(S) \in [1 .. Cardinality(S) -> S] /\ IsInjective(SetToSeq(S))
  BY <1>2 DEF SetToSeq
<1> QED
  BY <1>3, InOrder

LEMMA SetToSeqsOrder ==
    ASSUME NEW S, IsFiniteSet(S), NEW order \in SetToSeqs(S)
    PROVE  order \in Seq(S) /\ IsInjective(order) /\ ToSet(order) = S
<1>1. order \in [1 .. Cardinality(S) -> S] /\ IsInjective(order)
  BY DEF SetToSeqs, IsInjective
<1> QED
  BY <1>1, InOrder

------------------------------------------------------------------------------
(* The engine's steps and the rows in hand. *)
LEMMA EngineSteps ==
    ASSUME PairsInHand, TypeOK, [SqlNext]_allVars
    PROVE  [Next]_vars
<1>1. \A t \in Clients : t \in Tx
  BY DEF Clients
<1>2. \A t \in Clients : IsWriter(t) /\ rows[t] # <<>> =>
          Head(rows[t])[1] \in Row /\ Head(rows[t])[2] \in Data
  BY DEF PairsInHand, Pairs
<1>3. ASSUME NEW t \in Clients, InsertRow(t) PROVE Next
  <2>1. Head(rows[t])[1] \in Row /\ Head(rows[t])[2] \in Data
    BY <1>2, <1>3 DEF InsertRow, IsWriter
  <2>2. [kind |-> "insert", row |-> Head(rows[t])[1], data |-> Head(rows[t])[2]] \in Op
    BY <2>1 DEF Op
  <2> QED
    BY <1>1, <1>3, <2>2 DEF InsertRow, Next
<1>4. ASSUME NEW t \in Clients, UpdateRow(t) PROVE Next
  <2> DEFINE r == Head(rows[t])[1]
             now == Read(chain[r], clock)
             d == stmt[t].set[now]
  <2>1. r \in Row
    BY <1>2, <1>4 DEF UpdateRow, IsWriter
  <2>2. d \in Data
    <3>1. stmt[t] \in Statement /\ stmt[t].kind = "update"
      BY <1>4 DEF UpdateRow, PairsInHand, Kind
    <3>2. stmt[t].where \in Where /\ stmt[t].set \in [Data -> Data \cup {EvalError}]
      BY <3>1 DEF Statement
    <3>3. now \in Data
      BY <1>4, <3>2 DEF UpdateRow, Matches, Where
    <3> QED
      BY <1>4, <3>2, <3>3 DEF UpdateRow
  <2>3. [kind |-> "update", row |-> r, data |-> d] \in Op
    BY <2>1, <2>2 DEF Op
  <2> QED
    BY <1>1, <1>4, <2>3 DEF UpdateRow, Next
<1>5. ASSUME NEW t \in Clients, UpdateSkips(t) \/ UpdateFails(t) PROVE Next
  <2>1. Head(rows[t])[1] \in Row
    BY <1>2, <1>5 DEF UpdateSkips, UpdateFails, IsWriter
  <2> QED
    BY <1>1, <1>5, <2>1 DEF UpdateSkips, UpdateFails, Next
<1>6. ASSUME NEW t \in Clients, DeleteRow(t) PROVE Next
  <2>1. Head(rows[t])[1] \in Row
    BY <1>2, <1>6 DEF DeleteRow, IsWriter
  <2>2. [kind |-> "delete", row |-> Head(rows[t])[1], data |-> NoRow] \in Op
    BY <2>1 DEF Op
  <2> QED
    BY <1>1, <1>6, <2>2 DEF DeleteRow, Next
<1>7. ASSUME NEW t \in Clients,
             \/ CallAndBegin(t) \/ BeginAfterLookUp(t) \/ BeginReturns(t)
             \/ AbortStatement(t) \/ CommitStatement(t) \/ EngineStep(t)
             \/ SelectScan(t) \/ BuildIndex(t)
      PROVE  Next
  BY <1>1, <1>7 DEF CallAndBegin, BeginAfterLookUp, BeginReturns, AbortStatement, CommitStatement,
     EngineStep, SelectScan, BuildIndex, Next, Begin
<1>8. ASSUME NEW t \in Clients, FetchEnds(t) PROVE [Next]_vars
  BY <1>1, <1>8 DEF FetchEnds, Next
<1>9. ASSUME NEW t \in Clients,
             \/ SelectLookUp(t) \/ WriteLookUp(t) \/ Fetch(t) \/ LockTimesOut(t)
             \/ StatementEnds(t) \/ IndexRow(t) \/ Register(t)
      PROVE  UNCHANGED vars
  BY <1>9 DEF SelectLookUp, WriteLookUp, Fetch, LockTimesOut, StatementEnds, IndexRow, Register
<1>10. CASE UNCHANGED allVars
  BY <1>10 DEF allVars
<1> QED
  BY <1>3, <1>4, <1>5, <1>6, <1>7, <1>8, <1>9, <1>10 DEF SqlNext

(* A scan orders finitely many rows. *)
LEMMA ScannedIsFinite ==
    ASSUME NEW t \in Clients, NEW where
    PROVE  IsFiniteSet(Scanned(t, where)) /\ Scanned(t, where) \subseteq Pairs
<1> DEFINE see == [r \in Row |-> <<r, Read(chain[r], snap[t])>>]
           Seen == {see[r] : r \in Row}
<1>1. IsFiniteSet(Seen)
  <2>1. see \in Surjection(Row, Seen)
    BY DEF Surjection
  <2> QED
    BY <2>1, RowsAssumption, FS_Surjection
<1>2. Scanned(t, where) \subseteq Seen /\ Scanned(t, where) \subseteq Pairs
  BY DEF Scanned, Pairs
<1> QED
  BY <1>1, <1>2, FS_Subset

LEMMA ScannedInOrder ==
    ASSUME NEW t \in Clients, NEW where, NEW order \in SetToSeqs(Scanned(t, where))
    PROVE  order \in Seq(Pairs)
<1>1. order \in Seq(Scanned(t, where))
  BY ScannedIsFinite, SetToSeqsOrder
<1> QED
  BY <1>1, ScannedIsFinite

LEMMA PairsInHandStep ==
    ASSUME PairsInHand, [SqlNext]_allVars
    PROVE  PairsInHand'
<1> USE DEF GoTo
<1>0. /\ \A t \in Clients : Kind(t) \in {"select", "update", "delete"} => stmt[t].where \in Where
      /\ \A t \in Clients : Kind(t) = "insert" => stmt[t].rows \in Seq(Pairs)
  BY DEF PairsInHand, Statement, Kind, Pairs
<1>1. ASSUME UNCHANGED <<stmt, rows>>,
             \/ UNCHANGED at
             \/ \E t \in Clients : \E place :
                   /\ place \in {"lookup", "fetch"} => Kind(t) \in {"select", "update", "delete"}
                   /\ at' = [at EXCEPT ![t] = place]
      PROVE  PairsInHand'
  BY <1>1 DEF PairsInHand, IsWriter, Kind
<1>2. ASSUME NEW t \in Clients, UNCHANGED stmt, NEW q, rows' = [rows EXCEPT ![t] = q],
             IsWriter(t) => q \in Seq(Pairs),
             UNCHANGED at \/ \E place \in {"write", "end"} : at' = [at EXCEPT ![t] = place]
      PROVE  PairsInHand'
  <2>1. DOMAIN at' = Clients /\ \A u \in Clients : at'[u] \in {"lookup", "fetch"} => at[u] = at'[u]
    BY <1>2 DEF PairsInHand
  <2>2. DOMAIN rows' = Clients /\ \A u \in Clients : rows'[u] = IF u = t THEN q ELSE rows[u]
    BY <1>2 DEF PairsInHand
  <2> QED
    BY <1>2, <2>1, <2>2 DEF PairsInHand, IsWriter, Kind
<1>3. ASSUME NEW t \in Clients, BeginReturns(t) PROVE PairsInHand'
  <2>1. CASE Kind(t) = "insert"
    BY <1>0, <1>2, <1>3, <2>1 DEF BeginReturns
  <2>2. CASE Kind(t) # "insert"
    <3>1. rows' = rows /\ stmt' = stmt
      BY <1>3, <2>2 DEF BeginReturns
    <3>2. CASE Kind(t) \in {"update", "delete"}
      <4>1. at' = [at EXCEPT ![t] = "lookup"]
        BY <1>3, <3>2 DEF BeginReturns
      <4> QED
        BY <1>1, <3>1, <3>2, <4>1
    <3>3. CASE Kind(t) \notin {"update", "delete"}
      <4>1. at' = [at EXCEPT ![t] = "scan"]
        BY <1>3, <2>2, <3>3 DEF BeginReturns
      <4> QED
        BY <1>1, <3>1, <4>1
    <3> QED
      BY <3>2, <3>3
  <2> QED
    BY <2>1, <2>2
<1>4. ASSUME NEW t \in Clients, WriteLookUp(t) PROVE PairsInHand'
  <2>1. Kind(t) \in {"select", "update", "delete"} /\ stmt' = stmt
    BY <1>4 DEF WriteLookUp, PairsInHand
  <2>2. CASE rows' = rows /\ at' = [at EXCEPT ![t] = "fetch"]
    BY <1>1, <2>1, <2>2
  <2>3. ASSUME NEW order \in SetToSeqs(Scanned(t, stmt[t].where)),
               rows' = [rows EXCEPT ![t] = order], at' = [at EXCEPT ![t] = "write"]
        PROVE  PairsInHand'
    <3>1. order \in Seq(Pairs)
      BY <1>0, <2>1, ScannedInOrder
    <3> QED
      BY <1>2, <2>1, <2>3, <3>1
  <2> QED
    BY <1>4, <2>2, <2>3 DEF WriteLookUp
<1>5. ASSUME NEW t \in Clients, Fetch(t) PROVE PairsInHand'
  <2> DEFINE r == Head(todo[t])
             d == Read(chain[r], snap[t])
  <2>1. stmt' = stmt /\ at' = at /\ Kind(t) \in {"select", "update", "delete"}
    BY <1>5 DEF Fetch, PairsInHand
  <2>2. CASE rows' = rows
    BY <1>1, <2>1, <2>2
  <2>3. CASE Matches(stmt[t].where, r, d) /\ rows' = [rows EXCEPT ![t] = Append(rows[t], <<r, d>>)]
    <3>1. <<r, d>> \in Pairs
      BY <1>0, <2>1, <2>3 DEF Matches, Where, Pairs
    <3>2. IsWriter(t) => Append(rows[t], <<r, d>>) \in Seq(Pairs)
      BY <3>1 DEF PairsInHand
    <3> QED
      BY <1>2, <2>1, <2>3, <3>2
  <2> QED
    BY <1>5, <2>2, <2>3 DEF Fetch
<1>6. ASSUME NEW t \in Clients, SelectScan(t) PROVE PairsInHand'
  <2>1. ~ IsWriter(t)
    BY <1>6 DEF SelectScan, IsWriter
  <2> QED
    BY <1>2, <1>6, <2>1 DEF SelectScan
<1>7. ASSUME NEW t \in Clients, InsertRow(t) \/ UpdateRow(t) \/ UpdateSkips(t) \/ DeleteRow(t)
      PROVE  PairsInHand'
  <2>1. /\ stmt' = stmt /\ at' = at /\ rows' = [rows EXCEPT ![t] = Tail(rows[t])]
        /\ IsWriter(t) /\ rows[t] # <<>>
    BY <1>7 DEF InsertRow, UpdateRow, UpdateSkips, DeleteRow, Next1, IsWriter
  <2>2. Tail(rows[t]) \in Seq(Pairs)
    BY <2>1 DEF PairsInHand
  <2> QED
    BY <1>2, <2>1, <2>2
<1>8. ASSUME NEW t \in Clients, SelectLookUp(t) PROVE PairsInHand'
  BY <1>1, <1>8 DEF SelectLookUp
<1>9. ASSUME NEW t \in Clients,
             \/ CallAndBegin(t) \/ FetchEnds(t) \/ BuildIndex(t) \/ UpdateFails(t) \/ LockTimesOut(t)
             \/ AbortStatement(t) \/ CommitStatement(t)
      PROVE  PairsInHand'
  BY <1>1, <1>9 DEF CallAndBegin, FetchEnds, BuildIndex, UpdateFails, LockTimesOut, AbortStatement,
     CommitStatement
<1>10. ASSUME NEW t \in Clients, StatementEnds(t) \/ IndexRow(t) \/ Register(t) PROVE PairsInHand'
  <2>1. /\ UNCHANGED <<stmt, rows>>
        /\ \E place \in {"register", "index", "returned"} : at' = [at EXCEPT ![t] = place]
    <3>1. CASE StatementEnds(t)
      BY <3>1 DEF StatementEnds
    <3>2. CASE IndexRow(t) \/ Register(t)
      BY <3>2 DEF IndexRow, Register
    <3> QED
      BY <1>10, <3>1, <3>2
  <2> QED
    BY <1>1, <2>1
<1>11. ASSUME NEW t \in Clients, BeginAfterLookUp(t) \/ EngineStep(t) PROVE PairsInHand'
  BY <1>1, <1>11 DEF BeginAfterLookUp, EngineStep, sqlVars
<1>12. CASE UNCHANGED allVars
  BY <1>1, <1>12 DEF allVars, sqlVars
<1> QED
  BY <1>3, <1>4, <1>5, <1>6, <1>7, <1>8, <1>9, <1>10, <1>11, <1>12 DEF SqlNext

------------------------------------------------------------------------------
(* The state that Loader has left. *)
LEMMA LoaderOpsAre ==
    /\ LoaderOps \in Seq(Op)
    /\ \A i \in DOMAIN LoaderOps : LoaderOps[i].data = Loaded[LoaderOps[i].row]
    /\ \A i \in DOMAIN LoaderOps : LoaderOps[i].row \in LoadedRows
    /\ \A r \in LoadedRows : \E i \in DOMAIN LoaderOps : LoaderOps[i].row = r
<1> DEFINE op == [r \in LoadedRows |-> [kind |-> "insert", row |-> r, data |-> Loaded[r]]]
           S == {[kind |-> "insert", row |-> r, data |-> Loaded[r]] : r \in LoadedRows}
<1>1. IsFiniteSet(S)
  <2>1. op \in Surjection(LoadedRows, S)
    BY DEF Surjection
  <2>2. IsFiniteSet(LoadedRows)
    BY RowsAssumption, FS_Subset DEF LoadedRows
  <2> HIDE DEF op, S
  <2> QED
    BY <2>1, <2>2, FS_Surjection
<1>2. S \subseteq Op
  BY RowsAssumption DEF LoadedRows, Op
<1>3. \A x \in S : x.row \in LoadedRows /\ x.data = Loaded[x.row]
  OBVIOUS
<1>4. ASSUME NEW r \in LoadedRows PROVE \E x \in S : x.row = r
  <2>1. [kind |-> "insert", row |-> r, data |-> Loaded[r]] \in S
    OBVIOUS
  <2> QED
    BY <2>1
<1>5. LoaderOps = SetToSeq(S)
  BY DEF LoaderOps
<1> HIDE DEF S
<1>6. LoaderOps \in Seq(S) /\ ToSet(LoaderOps) = S
  BY <1>1, <1>5, SetToSeqOrders
<1>7. LoaderOps \in Seq(Op) /\ \A i \in DOMAIN LoaderOps : LoaderOps[i] \in S
  BY <1>2, <1>6
<1>8. \A x \in S : \E i \in DOMAIN LoaderOps : LoaderOps[i] = x
  BY <1>6 DEF ToSet
<1> QED
  BY <1>3, <1>4, <1>7, <1>8

LEMMA LoadedChains ==
    ASSUME NEW r \in Row
    PROVE  /\ LoadedChain(r) \in VersionChain /\ PosBounded(LoadedChain(r))
           /\ Disjoint(LoadedChain(r))
           /\ \A v \in LoadedChain(r).versions :
                 r \in LoadedRows /\ v.begin_ts = 1 /\ v.end_ts = TS_INFINITY
           /\ r \in LoadedRows => \A s \in Ts : s >= 1 => Read(LoadedChain(r), s) = Loaded[r]
           /\ r \notin LoadedRows => \A s \in Ts : Read(LoadedChain(r), s) = NoRow
<1>0. EmptyChain \in VersionChain /\ PosBounded(EmptyChain) /\ NoneLive(EmptyChain)
      /\ UpTo(EmptyChain, 1) /\ Disjoint(EmptyChain)
  BY DEF EmptyChain, VersionChain, PosBounded, NoneLive, UpTo, Disjoint
<1>1. 1 \in Ts
  BY MaxTsAssumption, LoaderAssumption DEF Ts
<1>2. CASE r \notin LoadedRows
  <2>1. LoadedChain(r) = EmptyChain
    BY <1>2 DEF LoadedChain
  <2>2. \A s \in Ts : Read(EmptyChain, s) = NoRow
    BY DEF EmptyChain, Read, Visible
  <2> QED
    BY <1>0, <1>2, <2>1, <2>2 DEF EmptyChain
<1>3. CASE r \in LoadedRows
  <2>1. LoadedChain(r) = PushVersion(EmptyChain, 1, Loaded[r]) /\ Loaded[r] \in Data
    BY <1>3, RowsAssumption DEF LoadedChain, LoadedRows
  <2>2. LoadedChain(r) \in VersionChain /\ PosBounded(LoadedChain(r))
    BY <1>0, <1>1, <2>1, PushVersionType
  <2>3. Disjoint(LoadedChain(r))
    BY <1>0, <1>1, <2>1, PushShape
  <2>4. \A s \in Ts : s >= 1 => Read(LoadedChain(r), s) = Loaded[r]
    BY <1>0, <1>1, <2>1, PushReads
  <2>5. \A v \in LoadedChain(r).versions : v.begin_ts = 1 /\ v.end_ts = TS_INFINITY
    BY <2>1 DEF PushVersion, EmptyChain
  <2> QED
    BY <1>3, <2>2, <2>3, <2>4, <2>5
<1> QED
  BY <1>2, <1>3

LEMMA EngineInitReads == EngineInit => Reading
<1> SUFFICES ASSUME EngineInit PROVE Reading
  OBVIOUS
<1>0. 1 \in Ts /\ 0 \in Ts /\ Loader \in Tx
  BY MaxTsAssumption, LoaderAssumption DEF Ts
<1>1. /\ clock = 1 /\ snapshots = {}
      /\ \A t \in Tx : /\ t # Loader => ops[t] = <<>> /\ status[t] = "none" /\ pc[t] = "new" /\ cts[t] = 0
                       /\ cur[t] = 1 /\ snap[t] = 0
      /\ ops[Loader] = LoaderOps /\ status[Loader] = "committed" /\ pc[Loader] = "done" /\ cts[Loader] = 1
      /\ \A r \in Row : chain[r] = LoadedChain(r) /\ owner[r] = NoTx
  BY <1>0 DEF EngineInit, Lock!Init
<1>2. TypeOK
  <2>1. ops \in [Tx -> Seq(Op)]
    BY LoaderOpsAre DEF EngineInit
  <2>2. chain \in [Row -> VersionChain]
    BY LoadedChains DEF EngineInit
  <2> QED
    BY <1>0, <2>1, <2>2 DEF EngineInit, TypeOK, Lock!Init, LoadedRows
<1>3. SweepInv
  BY <1>1, <1>2, LoadedChains DEF SweepInv, Typed, ChainsBounded, IndexPending, SnapshotsArePast,
     Registration, Registered, Ownership, HorizonsAreLow
<1>4. Stages /\ WritesAreOwned /\ CommittersAreLatest /\ InsertsFindNothing
  BY <1>0, <1>1 DEF Stages, WritesAreOwned, CommittersAreLatest, InsertsFindNothing, Locking
<1>5. ASSUME NEW r \in Row
      PROVE  /\ r \in LoadedRows => Done(Loader, r) # {}
             /\ \A u \in Tx : Done(u, r) # {} => u = Loader /\ r \in LoadedRows
             /\ \A i \in Done(Loader, r) : ops[Loader][i].data = Loaded[r]
  <2>1. AppliedCount(Loader) = Len(LoaderOps)
    BY <1>0, <1>1 DEF AppliedCount
  <2>2. \A i \in DOMAIN LoaderOps : i <= Len(LoaderOps)
    BY LoaderOpsAre
  <2>3. \A u \in Tx \ {Loader} : Done(u, r) = {}
    BY <1>1 DEF Done, OwnOps
  <2>4. Done(Loader, r) = {i \in DOMAIN LoaderOps : LoaderOps[i].row = r}
    BY <1>1, <2>1, <2>2 DEF Done, OwnOps
  <2> QED
    BY <1>1, <2>3, <2>4, LoaderOpsAre
<1>6. ChainsAreDisjoint
  BY <1>1, LoadedChains DEF ChainsAreDisjoint
<1>7. ChainsArePast
  <2> SUFFICES ASSUME NEW r \in Row, NEW v \in chain[r].versions
               PROVE  \E u \in Tx : /\ Done(u, r) # {} /\ v.begin_ts <= cts[u]
                                    /\ v.end_ts <= cts[u] \/ v.end_ts = TS_INFINITY
    BY DEF ChainsArePast
  <2>1. r \in LoadedRows /\ v.begin_ts = 1 /\ v.end_ts = TS_INFINITY
    BY <1>1, LoadedChains
  <2> QED
    BY <1>0, <1>1, <1>5, <2>1
<1>8. ReadsAreExact
  <2> SUFFICES ASSUME NEW r \in Row, NEW s \in Ts, Protected(s) PROVE Exact(r, s)
    BY DEF ReadsAreExact
  <2>1. s >= 1
    BY <1>0, <1>1 DEF Protected, Registered, Ts
  <2>2. r \in LoadedRows => Loader \in AppliedBy(r, s) /\ Read(chain[r], s) = Loaded[r]
    BY <1>0, <1>1, <1>5, <2>1, LoadedChains DEF AppliedBy
  <2>3. r \notin LoadedRows => AppliedBy(r, s) = {} /\ Read(chain[r], s) = NoRow
    BY <1>1, <1>5, LoadedChains DEF AppliedBy
  <2>4. \A u \in AppliedBy(r, s) : u = Loader
    BY <1>5 DEF AppliedBy
  <2> QED
    BY <1>5, <2>2, <2>3, <2>4 DEF Exact
<1> QED
  BY <1>3, <1>4, <1>6, <1>7, <1>8 DEF Reading

------------------------------------------------------------------------------
(* What is committed stays; only Applied adds to it. *)
LEMMA CommittedStays ==
    ASSUME Typed, Stages, [Next]_vars, NEW r \in Row, NEW s \in Ts, NEW n \in Ts,
           \A u \in Tx : status[u] = "committed" => (cts[u] <= s <=> cts[u] <= n),
           \A u \in Tx : Applied(u) /\ Writes(u, r) => cts[u] > n
    PROVE  CommittedValue(r, n)' = CommittedValue(r, s)
<1>0. TypeOK
  BY DEF Typed
<1>1. ASSUME NEW u \in Tx, status[u] = "committed"
      PROVE  status'[u] = "committed" /\ cts'[u] = cts[u] /\ ops'[u] = ops[u]
  <2>1. pc[u] \in {"release", "unsnap", "horizon", "sweep", "done"}
    BY <1>1 DEF Stages
  <2>2. ASSUME NEW t \in Tx, Begin(t) \/ Commit(t) \/ Abort(t) PROVE t # u
    BY <2>1, <2>2 DEF Begin, BeginLoad, BeginRegister, Commit, Abort
  <2>3. ASSUME NEW t \in Tx, Begin(t) \/ Commit(t) \/ Abort(t)
        PROVE  status'[u] = "committed" /\ cts'[u] = cts[u] /\ ops'[u] = ops[u]
    BY <1>0, <1>1, <2>2, <2>3 DEF Begin, BeginLoad, BeginRegister, Commit, Abort, TypeOK
  <2>4. ASSUME NEW t \in Tx, NEW op \in Op, Write(t, op)
        PROVE  status'[u] = "committed" /\ cts'[u] = cts[u] /\ ops'[u] = ops[u]
    BY <1>0, <1>1, <2>1, <2>4 DEF Write, TypeOK
  <2>5. ASSUME NEW t \in Tx, NEW q \in Row, LockRow(t, q)
        PROVE  status'[u] = "committed" /\ cts'[u] = cts[u] /\ ops'[u] = ops[u]
    BY <1>1, <2>5 DEF LockRow
  <2>6. ASSUME NEW t \in Tx, Finish(t)
        PROVE  status'[u] = "committed" /\ cts'[u] = cts[u] /\ ops'[u] = ops[u]
    BY <1>0, <1>1, <2>1, <2>6 DEF Finish, LogWrites, LogFails, ApplyOp, IndexInsert, Applied, Release,
       Unsnap, ComputeHorizon, Sweep, SkipSweep, CommitReturns, engine, TypeOK
  <2> QED
    BY <1>1, <2>3, <2>4, <2>5, <2>6 DEF Next, vars, engine
<1>2. ASSUME NEW u \in Tx, status'[u] = "committed", status[u] # "committed"
      PROVE  Applied(u) /\ cts' = cts /\ ops' = ops
  <2>1. ASSUME NEW t \in Tx, Begin(t) \/ Commit(t) \/ Abort(t) PROVE FALSE
    BY <1>0, <1>2, <2>1 DEF Begin, BeginLoad, BeginRegister, Commit, Abort, TypeOK
  <2>2. ASSUME NEW t \in Tx, Applied(t) PROVE Applied(u) /\ cts' = cts /\ ops' = ops
    BY <1>0, <1>2, <2>2 DEF Applied, TypeOK
  <2>3. ASSUME NEW t \in Tx, Finish(t), ~ Applied(t) PROVE FALSE
    BY <1>0, <1>2, <2>3 DEF Finish, LogWrites, LogFails, ApplyOp, IndexInsert, Release,
       Unsnap, ComputeHorizon, Sweep, SkipSweep, CommitReturns, engine, TypeOK
  <2>4. ASSUME NEW t \in Tx, \/ \E op \in Op : Write(t, op)
                             \/ \E q \in Row : LockRow(t, q)
        PROVE  FALSE
    BY <1>2, <2>4 DEF Write, LockRow
  <2> QED
    BY <1>2, <2>1, <2>2, <2>3, <2>4 DEF Next, vars, engine
<1>3. ASSUME NEW u \in Tx
      PROVE  u \in CommittedBy(r, n)' <=> u \in CommittedBy(r, s)
  <2>1. CASE status[u] = "committed"
    BY <1>1, <2>1 DEF CommittedBy, Writes, OwnOps
  <2>2. CASE status[u] # "committed" /\ status'[u] = "committed"
    <3>1. Applied(u) /\ cts' = cts /\ ops' = ops
      BY <1>2, <2>2
    <3>2. Writes(u, r) => ~ (cts[u] <= n)
      BY <1>0, <3>1 DEF TypeOK, Ts
    <3> QED
      BY <2>2, <3>1, <3>2 DEF CommittedBy, Writes, OwnOps
  <2>3. CASE status[u] # "committed" /\ status'[u] # "committed"
    BY <2>3 DEF CommittedBy
  <2> QED
    BY <2>1, <2>2, <2>3
<1>4. CommittedBy(r, n)' = CommittedBy(r, s)
  <2>1. CommittedBy(r, n)' \subseteq Tx /\ CommittedBy(r, s) \subseteq Tx
    BY DEF CommittedBy
  <2>2. CommittedBy(r, n)' \subseteq CommittedBy(r, s) /\ CommittedBy(r, s) \subseteq CommittedBy(r, n)'
    BY <1>3, <2>1
  <2> QED
    BY <2>2
<1>5. \A u \in CommittedBy(r, s) : cts'[u] = cts[u] /\ ops'[u] = ops[u]
  BY <1>1 DEF CommittedBy
<1> DEFINE W == CommittedBy(r, s)
           last == CHOOSE u \in W : \A w \in W : cts[w] <= cts[u]
           lastNext == CHOOSE u \in W : \A w \in W : cts'[w] <= cts'[u]
<1>6. last = lastNext
  <2>1. \A u : (u \in W /\ \A w \in W : cts[w] <= cts[u])
               <=> (u \in W /\ \A w \in W : cts'[w] <= cts'[u])
    BY <1>5
  <2> HIDE DEF W
  <2> QED
    BY <2>1
<1>7. W # {} => last \in W
  <2> SUFFICES ASSUME W # {} PROVE \E u \in W : \A w \in W : cts[w] <= cts[u]
    OBVIOUS
  <2> DEFINE S == {cts[w] : w \in W}
  <2>1. \A w \in W : cts[w] \in Nat /\ cts[w] <= MaxTs
    BY <1>0 DEF TypeOK, Ts, CommittedBy
  <2>2. S \in SUBSET Nat /\ S # {} /\ \A x \in S : x <= MaxTs
    BY <2>1
  <2>3. PICK m \in S : \A x \in S : x <= m
    BY <2>2, NatMax, MaxTsAssumption
  <2> QED
    BY <2>3
<1> DEFINE own(o) == {i \in DOMAIN o : o[i].row = r}
           lastOf(o) == o[CHOOSE i \in own(o) : \A j \in own(o) : j <= i].data
<1>8. CommittedValue(r, s) = IF W = {} THEN NoRow ELSE lastOf(ops[last])
  BY DEF CommittedValue, LastOwnOp, OwnOps
<1>9. CommittedValue(r, n)' = IF W = {} THEN NoRow ELSE lastOf(ops'[lastNext])
  BY <1>4 DEF CommittedValue, LastOwnOp, OwnOps
<1>10. W # {} => ops'[lastNext] = ops[last]
  BY <1>5, <1>6, <1>7
<1> HIDE DEF W, last, lastNext, lastOf
<1> QED
  BY <1>8, <1>9, <1>10

(* Where a step of the engine takes a transaction that has written. *)
LEMMA UntilMoves ==
    ASSUME Typed, Stages, [Next]_vars, NEW t \in Tx, ops[t] # <<>>, ops'[t] = ops[t]
    PROVE  /\ pc[t] = "active" =>
                 \/ pc'[t] = "active" /\ clock' \in {clock, clock + 1}
                 \/ pc'[t] # "active" /\ cts'[t] = clock + 1
           /\ pc[t] # "active" => pc'[t] # "active" /\ cts'[t] = cts[t]
<1>0. TypeOK /\ clock \in Nat
  BY DEF Typed, TypeOK, Ts
<1> DEFINE Moved == /\ pc[t] = "active" =>
                         \/ pc'[t] = "active" /\ clock' \in {clock, clock + 1}
                         \/ pc'[t] # "active" /\ cts'[t] = clock + 1
                    /\ pc[t] # "active" => pc'[t] # "active" /\ cts'[t] = cts[t]
<1>1. pc[t] \notin {"new", "loaded"}
  BY DEF Stages
<1>2. ASSUME NEW u \in Tx, Begin(u) PROVE Moved
  BY <1>0, <1>1, <1>2 DEF Begin, BeginLoad, BeginRegister, Goto, TypeOK
<1>3. ASSUME NEW u \in Tx, \/ \E op \in Op : Write(u, op)
                           \/ \E r \in Row : LockRow(u, r)
      PROVE  Moved
  BY <1>3 DEF Write, LockRow
<1>4. ASSUME NEW u \in Tx, Commit(u) PROVE Moved
  BY <1>0, <1>4 DEF Commit, Goto, TypeOK
<1>5. ASSUME NEW u \in Tx, Abort(u) PROVE Moved
  <2>1. u # t
    BY <1>0, <1>5 DEF Abort, TypeOK
  <2> QED
    BY <1>0, <1>5, <2>1 DEF Abort, Goto, TypeOK
<1>6. ASSUME NEW u \in Tx, Finish(u) PROVE Moved
  <2>1. clock' = clock /\ cts' = cts
    BY <1>6 DEF Finish, LogWrites, LogFails, ApplyOp, IndexInsert, Applied, Release,
       Unsnap, ComputeHorizon, Sweep, SkipSweep, CommitReturns, engine
  <2>2. (pc[t] = "active") <=> (pc'[t] = "active")
    BY <1>0, <1>6 DEF Finish, LogWrites, LogFails, ApplyOp, IndexInsert, Applied, Release,
       Unsnap, ComputeHorizon, Sweep, SkipSweep, CommitReturns, engine, Goto, TypeOK
  <2> QED
    BY <2>1, <2>2
<1>7. CASE UNCHANGED vars
  BY <1>7 DEF vars, engine
<1> QED
  BY <1>2, <1>3, <1>4, <1>5, <1>6, <1>7 DEF Next

(* A client's write set changes by its own statement only. *)
LEMMA OwnWrites ==
    ASSUME TypeOK, [SqlNext]_allVars, NEW t \in Clients, Kind(t) = "update", ops'[t] # ops[t]
    PROVE  UpdateRow(t) \/ ops'[t] = <<>>
<1>0. \A c \in Clients : c \in Tx
  BY DEF Clients
<1>1. ASSUME NEW c \in Clients, InsertRow(c) \/ DeleteRow(c) PROVE ops'[t] = ops[t]
  BY <1>0, <1>1 DEF InsertRow, DeleteRow, Write, TypeOK
<1>2. ASSUME NEW c \in Clients, UpdateRow(c), c # t PROVE ops'[t] = ops[t]
  BY <1>0, <1>2 DEF UpdateRow, Write, TypeOK
<1>3. ASSUME NEW c \in Clients, Abort(c) PROVE ops'[t] \in {<<>>, ops[t]}
  BY <1>0, <1>3 DEF Abort, TypeOK
<1>4. ASSUME NEW c \in Clients, FetchEnds(c) \/ SelectScan(c) \/ BuildIndex(c) \/ AbortStatement(c)
      PROVE  ops'[t] \in {<<>>, ops[t]}
  BY <1>3, <1>4 DEF FetchEnds, SelectScan, BuildIndex, AbortStatement, vars, engine
<1>5. ASSUME NEW c \in Clients,
             \/ CallAndBegin(c) \/ BeginAfterLookUp(c) \/ BeginReturns(c) \/ CommitStatement(c)
             \/ UpdateSkips(c) \/ UpdateFails(c)
      PROVE  ops' = ops
  BY <1>5 DEF CallAndBegin, BeginAfterLookUp, BeginReturns, CommitStatement, Begin, BeginLoad,
     BeginRegister, Commit, UpdateSkips, UpdateFails, LockRow
<1>6. ASSUME NEW c \in Clients, EngineStep(c) PROVE ops' = ops
  BY <1>6 DEF EngineStep, Finish, LogWrites, LogFails, ApplyOp, IndexInsert, Applied, Release,
       Unsnap, ComputeHorizon, Sweep, SkipSweep, CommitReturns, engine
<1>7. ASSUME NEW c \in Clients,
             \/ SelectLookUp(c) \/ WriteLookUp(c) \/ Fetch(c) \/ LockTimesOut(c)
             \/ StatementEnds(c) \/ IndexRow(c) \/ Register(c)
      PROVE  ops' = ops
  BY <1>7 DEF SelectLookUp, WriteLookUp, Fetch, LockTimesOut, StatementEnds, IndexRow, Register, vars, engine
<1>8. CASE UNCHANGED allVars
  BY <1>8 DEF allVars, vars, engine
<1> QED
  BY <1>1, <1>2, <1>4, <1>5, <1>6, <1>7, <1>8 DEF SqlNext

LEMMA StatementsStay == [SqlNext]_allVars => stmt' = stmt
BY DEF SqlNext, allVars, sqlVars, SelectLookUp, CallAndBegin, BeginAfterLookUp, BeginReturns, WriteLookUp,
   Fetch, FetchEnds, SelectScan, BuildIndex, InsertRow, UpdateRow, UpdateSkips, UpdateFails, DeleteRow,
   LockTimesOut, AbortStatement, CommitStatement, EngineStep, StatementEnds, IndexRow, Register

(* Nobody is committing a row that a running transaction has or may take. *)
LEMMA NobodyCommitting ==
    ASSUME TypeOK, WritesAreOwned, NEW t \in Tx, pc[t] = "active", NEW r \in Row, owner[r] \in {NoTx, t}
    PROVE  \A u \in InFlight : ~ Writes(u, r)
BY NoTxAssumption DEF WritesAreOwned, InFlight, Writes, OwnOps, Locking

LEMMA WritesFollowStep ==
    ASSUME PairsInHand, Reading, WritesFollow, [SqlNext]_allVars, Typed'
    PROVE  WritesFollow'
<1>0. /\ Typed /\ TypeOK /\ Stages /\ WritesAreOwned /\ CommittersAreLatest /\ clock \in Ts /\ clock \in Nat
      /\ \A u \in Tx : cts[u] \in Nat /\ cts[u] <= clock
  BY DEF Reading, SweepInv, Typed, TypeOK, Ts, Stages
<1>1. [Next]_vars /\ stmt' = stmt
  BY <1>0, EngineSteps, StatementsStay
<1> SUFFICES ASSUME NEW t \in Clients, NEW r \in Row, NEW n \in Ts, Kind(t) = "update", n = Until(t)',
                    NEW i \in OwnOps(t, r)'
             PROVE  /\ Matches(stmt[t].where, r, CommittedValue(r, n)')
                    /\ ops'[t][i].data = stmt[t].set[CommittedValue(r, n)']
  BY <1>1 DEF WritesFollow, Kind
<1>2. t \in Tx /\ n \in Nat /\ clock' \in Nat
  BY DEF Clients, Ts, Typed, TypeOK
<1>3. ASSUME ops'[t] = ops[t]
      PROVE  \E m \in Ts : m = Until(t) /\ CommittedValue(r, n)' = CommittedValue(r, m)
  <2>1. i \in OwnOps(t, r) /\ ops[t] # <<>>
    BY <1>3 DEF OwnOps
  <2>2. CASE pc[t] = "active"
    <3>1. clock <= n
      BY <1>0, <1>1, <1>2, <1>3, <2>1, <2>2, UntilMoves DEF Until
    <3>2. owner[r] = t
      BY <1>0, <1>2, <2>1, <2>2 DEF WritesAreOwned, OwnOps, Locking
    <3>3. \A u \in InFlight : ~ Writes(u, r)
      BY <1>0, <1>2, <2>2, <3>2, NobodyCommitting
    <3>4. \A u \in Tx : ~ (Applied(u) /\ Writes(u, r))
      BY <3>3 DEF Applied, InFlight
    <3>5. \A u \in Tx : cts[u] <= clock /\ cts[u] <= n
      BY <1>0, <1>2, <3>1
    <3>6. CommittedValue(r, n)' = CommittedValue(r, clock)
      BY <1>0, <1>1, <3>4, <3>5, CommittedStays
    <3> QED
      BY <1>0, <2>2, <3>6 DEF Until
  <2>3. CASE pc[t] # "active"
    <3>1. n = cts[t] - 1 /\ Until(t) = n
      BY <1>0, <1>1, <1>2, <1>3, <2>1, <2>3, UntilMoves DEF Until
    <3>2. ASSUME NEW u \in Tx, Applied(u), Writes(u, r) PROVE cts[u] > n
      <4>1. CASE u = t
        BY <1>0, <3>1, <4>1
      <4>2. CASE u # t
        <5>1. cts[t] < cts[u]
          BY <1>0, <1>2, <2>1, <3>1, <3>2, <4>2 DEF CommittersAreLatest, Applied, Writes
        <5> QED
          BY <1>0, <1>2, <3>1, <5>1
      <4> QED
        BY <4>1, <4>2
    <3>3. CommittedValue(r, n)' = CommittedValue(r, n)
      BY <1>0, <1>1, <3>2, CommittedStays
    <3> QED
      BY <3>1, <3>3
  <2> QED
    BY <2>2, <2>3
<1>4. CASE ops'[t] = ops[t]
  <2>1. i \in OwnOps(t, r)
    BY <1>4 DEF OwnOps
  <2>2. PICK m \in Ts : m = Until(t) /\ CommittedValue(r, n)' = CommittedValue(r, m)
    BY <1>3, <1>4
  <2> QED
    BY <1>4, <2>1, <2>2 DEF WritesFollow
<1>5. CASE UpdateRow(t)
  <2> DEFINE q == Head(rows[t])[1]
             now == Read(chain[q], clock)
             op == [kind |-> "update", row |-> q, data |-> stmt[t].set[now]]
  <2>1. /\ pc[t] = "active" /\ pc' = pc /\ clock' = clock /\ n = clock /\ owner[q] \in {NoTx, t}
        /\ Matches(stmt[t].where, q, now) /\ ops'[t] = Append(ops[t], op)
    BY <1>0, <1>2, <1>5 DEF UpdateRow, Write, Lock!Acquire, Until, TypeOK
  <2>2. \/ i \in OwnOps(t, r) /\ ops'[t][i] = ops[t][i]
        \/ r = q /\ ops'[t][i] = op
    <3>1. ops[t] \in Seq(Op)
      BY <1>0, <1>2 DEF TypeOK
    <3> QED
      BY <2>1, <3>1 DEF OwnOps
  <2>3. owner[r] \in {NoTx, t}
    BY <1>0, <1>2, <2>1, <2>2 DEF WritesAreOwned, OwnOps, Locking
  <2>4. \A u \in InFlight : ~ Writes(u, r)
    BY <1>0, <1>2, <2>1, <2>3, NobodyCommitting
  <2>5. CommittedValue(r, n)' = CommittedValue(r, n)
    <3>1. \A u \in Tx : ~ (Applied(u) /\ Writes(u, r))
      BY <2>4 DEF Applied, InFlight
    <3> QED
      BY <1>0, <1>1, <3>1, CommittedStays
  <2>6. CASE i \in OwnOps(t, r) /\ ops'[t][i] = ops[t][i]
    BY <2>1, <2>5, <2>6 DEF WritesFollow, Until
  <2>7. CASE r = q /\ ops'[t][i] = op
    <3>1. Exact(r, n)
      BY <1>0, <2>1 DEF Reading, ReadsAreExact, Protected
    <3>2. Read(chain[r], n) = CommittedValue(r, n)
      BY <1>0, <2>4, <3>1, ExactIsCommitted
    <3>3. now = CommittedValue(r, n)'
      BY <2>1, <2>5, <2>7, <3>2
    <3>4. ops'[t][i].data = stmt[t].set[now]
      BY <2>7
    <3>5. Matches(stmt[t].where, r, now)
      BY <2>1, <2>7
    <3> HIDE DEF now
    <3> QED
      BY <3>3, <3>4, <3>5
  <2> QED
    BY <2>2, <2>6, <2>7
<1>6. ops'[t] # <<>>
  BY DEF OwnOps
<1> QED
  BY <1>0, <1>4, <1>5, <1>6, OwnWrites

LEMMA StatementsInvariant == UniqueKeys => (SqlSpec => [](PairsInHand /\ Reading /\ WritesFollow))
<1> SUFFICES ASSUME UniqueKeys PROVE SqlSpec => [](PairsInHand /\ Reading /\ WritesFollow)
  OBVIOUS
<1>1. SqlInit => PairsInHand /\ Reading /\ WritesFollow
  <2> SUFFICES ASSUME SqlInit PROVE PairsInHand /\ Reading /\ WritesFollow
    OBVIOUS
  <2>1. PairsInHand
    BY StatementsAssumption DEF SqlInit, PairsInHand
  <2>2. Reading
    BY EngineInitReads DEF SqlInit
  <2>3. WritesFollow
    <3>1. \A t \in Clients : t \in Tx /\ ops[t] = <<>>
      BY DEF SqlInit, EngineInit, Clients
    <3> QED
      BY <3>1 DEF WritesFollow, OwnOps
  <2> QED
    BY <2>1, <2>2, <2>3
<1>2. PairsInHand /\ Reading /\ WritesFollow /\ [SqlNext]_allVars => PairsInHand' /\ Reading' /\ WritesFollow'
  <2> SUFFICES ASSUME PairsInHand, Reading, WritesFollow, [SqlNext]_allVars
               PROVE  PairsInHand' /\ Reading' /\ WritesFollow'
    OBVIOUS
  <2>1. [Next]_vars
    BY EngineSteps DEF Reading, SweepInv, Typed
  <2>2. Reading'
    BY <2>1, ReadingStep
  <2> QED
    BY <2>2, PairsInHandStep, WritesFollowStep DEF Reading, SweepInv
<1> QED
  BY <1>1, <1>2, PTL DEF SqlSpec

(* No lost update: every row of a committed UPDATE holds its SET applied to
   the value committed there last before it, and that value satisfied its
   WHERE, however many statements ran on the row meanwhile: execute_update
   reads the row again under its lock. *)
THEOREM NoUpdateIsLost == UniqueKeys => (SqlSpec => []UpdatesFollowTheirPredecessor)
<1> SUFFICES ASSUME UniqueKeys PROVE SqlSpec => []UpdatesFollowTheirPredecessor
  OBVIOUS
<1>1. PairsInHand /\ Reading /\ WritesFollow => UpdatesFollowTheirPredecessor
  <2> SUFFICES ASSUME Reading, WritesFollow, NEW t \in Clients, Committed(t), Kind(t) = "update",
                      NEW i \in DOMAIN ops[t]
               PROVE  LET r == ops[t][i].row
                          previous == CommittedValue(r, cts[t] - 1)
                      IN /\ Matches(stmt[t].where, r, previous)
                         /\ ops[t][i].data = stmt[t].set[previous]
    BY DEF UpdatesFollowTheirPredecessor
  <2>1. t \in Tx /\ pc[t] # "active" /\ cts[t] # 0 /\ cts[t] \in Ts /\ ops[t] \in Seq(Op)
    BY DEF Clients, Committed, Reading, SweepInv, Typed, TypeOK, Stages
  <2>2. cts[t] - 1 \in Ts /\ cts[t] - 1 = Until(t)
    BY <2>1, MaxTsAssumption DEF Ts, Until
  <2>3. ops[t][i].row \in Row /\ i \in OwnOps(t, ops[t][i].row)
    BY <2>1 DEF Op, OwnOps
  <2> QED
    BY <2>2, <2>3 DEF WritesFollow
<1> QED
  BY <1>1, StatementsInvariant, PTL
==============================================================================
