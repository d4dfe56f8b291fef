-------------------------- MODULE OLTPEngineProofs ---------------------------
(***************************************************************************)
(* Proofs about OLTPEngine, for any number of transactions, rows, values   *)
(* and writes: type correctness, that a transaction which has ended holds  *)
(* nothing, that pruning never shows in a registered snapshot, that the    *)
(* primary-key index misses no row, and that the reads at a registered     *)
(* snapshot and under a row's lock are exact.                              *)
(***************************************************************************)
EXTENDS OLTPEngine, WellFoundedInduction, TLAPS

------------------------------------------------------------------------------
(* Facts about numbers: a non-empty set of naturals has a least element, and
   one that is bounded has a greatest. *)
LEMMA NatMin ==
    ASSUME NEW S \in SUBSET Nat, S # {}
    PROVE  \E m \in S : \A n \in S : m <= n
<1> DEFINE R == OpToRel(<, Nat)
<1>1. IsWellFoundedOn(R, Nat)
  BY NatLessThanWellFounded
<1>2. \A x, y \in Nat : <<y, x>> \in R <=> y < x
  BY Zenon DEF OpToRel
<1> HIDE DEF R
<1>3. PICK x \in S : \A y \in S : ~ (<<y, x>> \in R)
  BY <1>1, WFMin
<1>4. \A y \in S : ~ (y < x)
  BY <1>2, <1>3, Zenon
<1> QED
  BY <1>4

LEMMA NatMax ==
    ASSUME NEW S \in SUBSET Nat, S # {}, NEW b \in Nat, \A n \in S : n <= b
    PROVE  \E m \in S : \A n \in S : n <= m
<1> DEFINE D == {b - n : n \in S}
<1>1. D \in SUBSET Nat /\ D # {}
  <2>1. \A n \in S : b - n \in Nat
    OBVIOUS
  <2> QED
    BY <2>1
<1>2. PICK d \in D : \A e \in D : d <= e
  BY <1>1, NatMin
<1>3. PICK m \in S : d = b - m
  BY <1>2
<1>4. \A n \in S : b - m <= b - n
  BY <1>2, <1>3
<1> QED
  BY <1>4

------------------------------------------------------------------------------
(* Version chains. *)
PosBounded(c) == \A v \in c.versions : v.pos <= c.pushed

(* The first match of the Vec exists whenever there is a match. *)
LEMMA NewestExists ==
    ASSUME NEW c \in VersionChain, PosBounded(c), NEW S \in SUBSET c.versions, S # {}
    PROVE  Newest(S) \in S /\ \A w \in S : w.pos <= Newest(S).pos
<1> DEFINE P == {v.pos : v \in S}
<1>1. P \in SUBSET Nat /\ P # {} /\ c.pushed \in Nat /\ \A n \in P : n <= c.pushed
  BY DEF VersionChain, RowVersion, PosBounded
<1>2. PICK m \in P : \A n \in P : n <= m
  BY <1>1, NatMax
<1>3. PICK v \in S : v.pos = m
  BY <1>2
<1>4. \A w \in S : w.pos <= v.pos
  BY <1>2, <1>3
<1> QED
  BY <1>3, <1>4 DEF Newest

LEMMA PushVersionType ==
    ASSUME NEW c \in VersionChain, PosBounded(c), NEW ts \in Ts, NEW d \in Data
    PROVE  PushVersion(c, ts, d) \in VersionChain /\ PosBounded(PushVersion(c, ts, d))
BY MaxTsAssumption DEF PushVersion, VersionChain, RowVersion, PosBounded, Ts, TS_INFINITY

LEMMA ExpireLiveType ==
    ASSUME NEW c \in VersionChain, PosBounded(c), NEW ts \in Ts
    PROVE  ExpireLive(c, ts) \in VersionChain /\ PosBounded(ExpireLive(c, ts))
<1> DEFINE live == {v \in c.versions : v.end_ts = TS_INFINITY}
<1>1. CASE live = {}
  BY <1>1 DEF ExpireLive
<1>2. CASE live # {}
  <2>1. Newest(live) \in c.versions
    BY <1>2, NewestExists
  <2> DEFINE n == Newest(live)
             ended == [n EXCEPT !.end_ts = ts]
  <2>2. ended \in RowVersion /\ ended.pos = n.pos
    BY <2>1 DEF VersionChain, RowVersion
  <2>3. ExpireLive(c, ts) =
          [c EXCEPT !.versions = (c.versions \ {n}) \cup {ended}]
    BY <1>2 DEF ExpireLive
  <2> HIDE DEF ended, n
  <2>4. ended.pos <= c.pushed
    BY <2>1, <2>2 DEF PosBounded, n
  <2> QED
    BY <2>2, <2>3, <2>4 DEF VersionChain, PosBounded
<1> QED
  BY <1>1, <1>2

LEMMA ApplyType ==
    ASSUME NEW c \in VersionChain, PosBounded(c), NEW op \in Op, NEW ts \in Ts
    PROVE  Apply(c, op, ts) \in VersionChain /\ PosBounded(Apply(c, op, ts))
<1>1. CASE op.kind = "insert"
  <2>1. op.data \in Data
    BY <1>1 DEF Op
  <2> QED
    BY <1>1, <2>1, PushVersionType DEF Apply
<1>2. CASE op.kind = "update"
  <2>1. op.data \in Data
    BY <1>2 DEF Op
  <2> QED
    BY <1>2, <2>1, PushVersionType, ExpireLiveType DEF Apply
<1>3. CASE op.kind = "delete"
  BY <1>3, ExpireLiveType DEF Apply
<1> QED
  BY <1>1, <1>2, <1>3 DEF Op

(* VersionChain::prune's safety argument: a snapshot at or after the horizon
   sees exactly the same versions, so it reads the same. *)
LEMMA PruneKeepsReads ==
    ASSUME NEW c \in VersionChain, NEW h \in Ts, NEW s \in Ts, h <= s
    PROVE  Read(Prune(c, h), s) = Read(c, s)
<1>1. Prune(c, h).versions = {v \in c.versions : v.end_ts > h}
  BY DEF Prune, VersionChain
<1>2. \A v \in c.versions : VisibleAt(v, s) => v.end_ts > h
  BY MaxTsAssumption DEF VisibleAt, VersionChain, RowVersion, Ts, TS_INFINITY
<1>3. Visible(Prune(c, h), s) = Visible(c, s)
  BY <1>1, <1>2 DEF Visible
<1> QED
  BY <1>3 DEF Read

LEMMA PruneType ==
    ASSUME NEW c \in VersionChain, PosBounded(c), NEW h \in Ts
    PROVE  Prune(c, h) \in VersionChain /\ PosBounded(Prune(c, h))
BY DEF Prune, VersionChain, PosBounded

------------------------------------------------------------------------------
(* The inductive invariant.  The type invariant needs that the counter of
   every chain bounds the places in it, so that "the newest" exists. *)
ChainsBounded == \A r \in Row : PosBounded(chain[r])

(* Between the halves of apply_insert the op is still the current one. *)
IndexPending == \A t \in Tx : pc[t] = "index" => cur[t] <= Len(ops[t])

Typed == TypeOK /\ ChainsBounded /\ IndexPending

(* Where a transaction is registered, and where it may own rows. *)
Registered == {"active", "log", "apply", "index", "release", "unsnap"}
Locking == {"active", "log", "apply", "index", "release"}

SnapshotsArePast == \A t \in Tx : snap[t] <= clock
Registration == \A t \in Tx : t \in snapshots <=> pc[t] \in Registered
Ownership == \A r \in Row : owner[r] # NoTx => pc[owner[r]] \in Locking

(* A horizon in use is below every snapshot, but for those it overtook. *)
HorizonsAreLow ==
    \A u \in Tx : pc[u] = "sweep" =>
        /\ horizon[u] <= clock
        /\ \A t \in Tx : pc[t] \in Registered \cup {"loaded"} /\ ~ overtaken[t]
                         => horizon[u] <= snap[t]

(* min_active_snapshot is a timestamp no registered snapshot is below. *)
LEMMA HorizonIsMin ==
    ASSUME Typed, SnapshotsArePast
    PROVE  /\ MinActiveSnapshot \in Ts
           /\ MinActiveSnapshot <= clock
           /\ \A t \in snapshots : MinActiveSnapshot <= snap[t]
<1>1. CASE snapshots = {}
  BY <1>1 DEF MinActiveSnapshot, Typed, TypeOK, Ts
<1>2. CASE snapshots # {}
  <2> DEFINE S == {snap[t] : t \in snapshots}
  <2>1. S \in SUBSET Ts /\ S # {} /\ S \in SUBSET Nat
    BY <1>2 DEF Typed, TypeOK, Ts
  <2>2. PICK m \in S : \A n \in S : m <= n
    BY <2>1, NatMin
  <2>3. \E s \in Ts : /\ \E t \in snapshots : s = snap[t]
                     /\ \A t \in snapshots : s <= snap[t]
    BY <2>1, <2>2
  <2> DEFINE h == MinActiveSnapshot
  <2>4. h \in Ts /\ (\E t \in snapshots : h = snap[t]) /\ \A t \in snapshots : h <= snap[t]
    BY <1>2, <2>3 DEF MinActiveSnapshot
  <2> QED
    BY <2>4 DEF SnapshotsArePast, Typed, TypeOK
<1> QED
  BY <1>1, <1>2

LEMMA TypedStep == Typed /\ SnapshotsArePast /\ [Next]_vars => Typed'
<1> SUFFICES ASSUME Typed, SnapshotsArePast, [Next]_vars PROVE Typed'
  OBVIOUS
<1>0. TypeOK /\ ChainsBounded /\ IndexPending
  BY DEF Typed
<1> USE DEF Goto
<1>1. ASSUME NEW t \in Tx, Begin(t) PROVE Typed'
  <2>1. CASE BeginLoad(t)
    BY <1>0, <2>1 DEF BeginLoad, Typed, TypeOK, ChainsBounded, IndexPending
  <2>2. CASE BeginRegister(t)
    BY <1>0, <2>2 DEF BeginRegister, Typed, TypeOK, ChainsBounded, IndexPending
  <2> QED
    BY <1>1, <2>1, <2>2 DEF Begin
<1>2. ASSUME NEW t \in Tx, NEW op \in Op, Write(t, op) PROVE Typed'
  <2>1. op.row \in Row
    BY DEF Op
  <2>2. ops' \in [Tx -> Seq(Op)] /\ owner' \in [Row -> Tx \cup {NoTx}]
    BY <1>0, <1>2, <2>1 DEF Write, TypeOK, Lock!Acquire
  <2> QED
    BY <1>0, <1>2, <2>2 DEF Write, Typed, TypeOK, ChainsBounded, IndexPending
<1>2a. ASSUME NEW t \in Tx, NEW r \in Row, LockRow(t, r) PROVE Typed'
  <2>1. owner' \in [Row -> Tx \cup {NoTx}]
    BY <1>0, <1>2a DEF LockRow, TypeOK, Lock!Acquire
  <2> QED
    BY <1>0, <1>2a, <2>1 DEF LockRow, Typed, TypeOK, ChainsBounded, IndexPending
<1>3. ASSUME NEW t \in Tx, Commit(t) PROVE Typed'
  BY <1>0, <1>3, MaxTsAssumption DEF Commit, Typed, TypeOK, ChainsBounded, IndexPending, Ts
<1>4. ASSUME NEW t \in Tx, Abort(t) PROVE Typed'
  BY <1>0, <1>4 DEF Abort, Typed, TypeOK, ChainsBounded, IndexPending
<1>5. ASSUME NEW t \in Tx, LogWrites(t) \/ LogFails(t) \/ Applied(t) PROVE Typed'
  BY <1>0, <1>5 DEF LogWrites, LogFails, Applied, engine, Typed, TypeOK, ChainsBounded, IndexPending
<1>6. ASSUME NEW t \in Tx, ApplyOp(t) PROVE Typed'
  <2> DEFINE op == ops[t][cur[t]]
  <2>1. op \in Op /\ op.row \in Row
    <3>1. ops[t] \in Seq(Op) /\ cur[t] \in 1 .. Len(ops[t])
      BY <1>0, <1>6 DEF ApplyOp, TypeOK
    <3> QED
      BY <3>1 DEF Op
  <2>2. chain[op.row] \in VersionChain /\ PosBounded(chain[op.row]) /\ cts[t] \in Ts
    BY <1>0, <2>1 DEF TypeOK, ChainsBounded
  <2> DEFINE after == Apply(chain[op.row], op, cts[t])
  <2>3. after \in VersionChain /\ PosBounded(after)
    BY <2>1, <2>2, ApplyType
  <2>4. chain' = [chain EXCEPT ![op.row] = after]
    BY <1>6 DEF ApplyOp
  <2> HIDE DEF after
  <2>5. chain' \in [Row -> VersionChain] /\ ChainsBounded'
    BY <1>0, <2>1, <2>3, <2>4 DEF TypeOK, ChainsBounded
  <2> HIDE DEF op
  <2>6. CASE op.kind = "insert"
    BY <1>0, <1>6, <2>5, <2>6 DEF ApplyOp, Typed, TypeOK, IndexPending, op
  <2>7. CASE op.kind # "insert"
    <3>1. /\ pc[t] = "apply" /\ pc' = pc
          /\ cur' = [cur EXCEPT ![t] = @ + 1]
          /\ UNCHANGED <<clock, snapshots, snap, ops, status, owner, pkIndex, cts,
                         horizon, overtaken>>
      BY <1>6, <2>7 DEF ApplyOp, op
    <3> QED
      BY <1>0, <2>5, <3>1 DEF Typed, TypeOK, IndexPending
  <2> QED
    BY <2>6, <2>7
<1>7. ASSUME NEW t \in Tx, IndexInsert(t) PROVE Typed'
  <2>1. pkIndex' \subseteq Row
    <3>1. ops[t] \in Seq(Op) /\ cur[t] \in 1 .. Len(ops[t])
      BY <1>0, <1>7 DEF IndexInsert, TypeOK, IndexPending
    <3>2. ops[t][cur[t]].row \in Row
      BY <3>1 DEF Op
    <3> QED
      BY <1>0, <1>7, <3>2 DEF IndexInsert, TypeOK
  <2> QED
    BY <1>0, <1>7, <2>1 DEF IndexInsert, Typed, TypeOK, ChainsBounded, IndexPending
<1>8. ASSUME NEW t \in Tx, Release(t) PROVE Typed'
  BY <1>0, <1>8 DEF Release, Lock!ReleaseAll, Typed, TypeOK, ChainsBounded, IndexPending
<1>9. ASSUME NEW t \in Tx, Unsnap(t) PROVE Typed'
  BY <1>0, <1>9, MaxTsAssumption DEF Unsnap, Typed, TypeOK, ChainsBounded, IndexPending, Ts
<1>10. ASSUME NEW t \in Tx, ComputeHorizon(t) PROVE Typed'
  BY <1>0, <1>10, HorizonIsMin DEF ComputeHorizon, engine, Typed, TypeOK, ChainsBounded, IndexPending
<1>11. ASSUME NEW t \in Tx, Sweep(t) PROVE Typed'
  <2> DEFINE r == ops[t][cur[t]].row
  <2>1. r \in Row
    <3>1. ops[t] \in Seq(Op) /\ cur[t] \in 1 .. Len(ops[t])
      BY <1>0, <1>11 DEF Sweep, TypeOK
    <3> QED
      BY <3>1 DEF Op
  <2> DEFINE after == Prune(chain[r], horizon[t])
  <2>2. after \in VersionChain /\ PosBounded(after)
    BY <1>0, <2>1, PruneType DEF TypeOK, ChainsBounded
  <2>3. chain' = [chain EXCEPT ![r] = after]
    BY <1>11 DEF Sweep
  <2> HIDE DEF after
  <2>4. chain' \in [Row -> VersionChain] /\ ChainsBounded'
    BY <1>0, <2>1, <2>2, <2>3 DEF TypeOK, ChainsBounded
  <2> QED
    BY <1>0, <1>11, <2>4 DEF Sweep, Typed, TypeOK, IndexPending
<1>12. ASSUME NEW t \in Tx, SkipSweep(t) \/ CommitReturns(t) PROVE Typed'
  <2>1. CASE SkipSweep(t)
    BY <1>0, <2>1 DEF SkipSweep, engine, Typed, TypeOK, ChainsBounded, IndexPending
  <2>2. CASE CommitReturns(t)
    BY <1>0, <2>2, MaxTsAssumption
    DEF CommitReturns, engine, Typed, TypeOK, ChainsBounded, IndexPending, Ts
  <2> QED
    BY <1>12, <2>1, <2>2
<1>13. CASE UNCHANGED vars
  BY <1>0, <1>13 DEF vars, engine, Typed, TypeOK, ChainsBounded, IndexPending
<1> QED
  BY <1>1, <1>2, <1>2a, <1>3, <1>4, <1>5, <1>6, <1>7, <1>8, <1>9, <1>10, <1>11, <1>12, <1>13
  DEF Next, Finish

(* The clock only moves forward, so no snapshot is ahead of it. *)
LEMMA SnapshotsArePastStep ==
    ASSUME Typed, SnapshotsArePast, [Next]_vars
    PROVE  SnapshotsArePast'
<1>0. TypeOK
  BY DEF Typed
<1>1. ASSUME NEW t \in Tx, BeginLoad(t) PROVE SnapshotsArePast'
  BY <1>0, <1>1 DEF BeginLoad, TypeOK, Ts, SnapshotsArePast
<1>2. ASSUME NEW t \in Tx, Commit(t) PROVE SnapshotsArePast'
  BY <1>0, <1>2 DEF Commit, TypeOK, Ts, SnapshotsArePast
<1>3. ASSUME NEW t \in Tx, Unsnap(t) PROVE SnapshotsArePast'
  BY <1>0, <1>3 DEF Unsnap, TypeOK, Ts, SnapshotsArePast
<1>4. ASSUME UNCHANGED <<clock, snap>> PROVE SnapshotsArePast'
  BY <1>4 DEF SnapshotsArePast
<1> QED
  BY <1>1, <1>2, <1>3, <1>4
  DEF Next, Begin, Finish, BeginRegister, Write, LockRow, Abort, LogWrites, LogFails, ApplyOp,
      IndexInsert, Applied, Release, ComputeHorizon, Sweep, SkipSweep, CommitReturns,
      vars, engine

LEMMA InitTyped == Init => Typed /\ SnapshotsArePast
BY MaxTsAssumption DEF Init, Typed, TypeOK, ChainsBounded, IndexPending, PosBounded,
   EmptyChain, VersionChain, SnapshotsArePast, Ts, Lock!Init

LEMMA TypedAlways == Spec => [](Typed /\ SnapshotsArePast)
<1>1. Typed /\ SnapshotsArePast /\ [Next]_vars => Typed' /\ SnapshotsArePast'
  BY TypedStep, SnapshotsArePastStep
<1> QED
  BY <1>1, InitTyped, PTL DEF Spec

(* Every state of the engine is well typed. *)
THEOREM TypeCorrect == Spec => []TypeOK
<1>1. Typed => TypeOK
  BY DEF Typed
<1> QED
  BY <1>1, TypedAlways, PTL

------------------------------------------------------------------------------
(* Registration, ownership and horizons. *)
SweepInv == Typed /\ SnapshotsArePast /\ Registration /\ Ownership /\ HorizonsAreLow

LEMMA GotoMoves ==
    ASSUME TypeOK, NEW t \in Tx, NEW place, Goto(t, place)
    PROVE  \A u \in Tx : pc'[u] = IF u = t THEN place ELSE pc[u]
BY DEF TypeOK, Goto

(* A step of t within the registered, lock-holding part of its life. *)
LEMMA MovesWithin ==
    ASSUME TypeOK, Registration, Ownership, NEW t \in Tx,
           snapshots' = snapshots, owner' = owner,
           pc[t] \in Locking, pc'[t] \in Locking,
           \A u \in Tx : u # t => pc'[u] = pc[u]
    PROVE  Registration' /\ Ownership'
<1>1. \A u \in Tx : pc[u] \in Locking => pc'[u] \in Locking
  OBVIOUS
<1>2. \A r \in Row : owner[r] # NoTx => owner[r] \in Tx
  BY DEF TypeOK
<1>3. Registration'
  <2> SUFFICES ASSUME NEW u \in Tx PROVE u \in snapshots' <=> pc'[u] \in Registered
    BY DEF Registration
  <2>1. u \in snapshots <=> pc[u] \in Registered
    BY DEF Registration
  <2>2. CASE u = t
    BY <2>1, <2>2 DEF Registered, Locking
  <2>3. CASE u # t
    BY <2>1, <2>3
  <2> QED
    BY <2>2, <2>3
<1>4. Ownership'
  BY <1>1, <1>2 DEF Ownership
<1> QED
  BY <1>3, <1>4

(* A step of t after it has given everything back. *)
LEMMA MovesAfter ==
    ASSUME TypeOK, Registration, Ownership, NEW t \in Tx,
           snapshots' = snapshots, owner' = owner,
           pc[t] \notin Registered, pc'[t] \notin Registered,
           \A u \in Tx : u # t => pc'[u] = pc[u]
    PROVE  Registration' /\ Ownership'
<1>1. \A r \in Row : owner[r] # NoTx => owner[r] \in Tx \ {t}
  BY DEF TypeOK, Ownership, Registered, Locking
<1> QED
  BY <1>1 DEF Registration, Ownership

LEMMA RegistrationStep ==
    ASSUME Typed, Registration, Ownership, [Next]_vars
    PROVE  Registration' /\ Ownership'
<1>0. TypeOK
  BY DEF Typed
<1>1. ASSUME NEW t \in Tx, BeginLoad(t) PROVE Registration' /\ Ownership'
  <2>1. /\ snapshots' = snapshots /\ owner' = owner /\ pc[t] = "new"
        /\ \A u \in Tx : pc'[u] = IF u = t THEN "loaded" ELSE pc[u]
    BY <1>0, <1>1, GotoMoves DEF BeginLoad
  <2> QED
    BY <1>0, <2>1, MovesAfter DEF Registered
<1>2. ASSUME NEW t \in Tx, BeginRegister(t) PROVE Registration' /\ Ownership'
  <2>1. \A u \in Tx : pc'[u] = IF u = t THEN "active" ELSE pc[u]
    BY <1>0, <1>2, GotoMoves DEF BeginRegister
  <2>2. Registration'
    BY <1>2, <2>1 DEF BeginRegister, Registration, Registered
  <2>3. Ownership'
    BY <1>0, <1>2, <2>1 DEF BeginRegister, TypeOK, Ownership, Locking
  <2> QED
    BY <2>2, <2>3
<1>3. ASSUME NEW t \in Tx, NEW op \in Op, Write(t, op)
      PROVE  Registration' /\ Ownership'
  <2>1. op.row \in Row
    BY DEF Op
  <2>2. owner' = [owner EXCEPT ![op.row] = t] /\ pc' = pc /\ snapshots' = snapshots
        /\ pc[t] \in Locking
    BY <1>3 DEF Write, Lock!Acquire, Locking
  <2> QED
    BY <1>0, <2>1, <2>2 DEF TypeOK, Registration, Ownership
<1>3a. ASSUME NEW t \in Tx, NEW r \in Row, LockRow(t, r)
       PROVE  Registration' /\ Ownership'
  BY <1>0, <1>3a DEF LockRow, Lock!Acquire, Locking, TypeOK, Registration, Ownership
<1>4. ASSUME NEW t \in Tx, Commit(t) PROVE Registration' /\ Ownership'
  BY <1>0, <1>4, GotoMoves, MovesWithin DEF Commit, Locking
<1>5. ASSUME NEW t \in Tx, Abort(t) PROVE Registration' /\ Ownership'
  BY <1>0, <1>5, GotoMoves, MovesWithin DEF Abort, Locking
<1>6. ASSUME NEW t \in Tx, LogWrites(t) PROVE Registration' /\ Ownership'
  BY <1>0, <1>6, GotoMoves, MovesWithin DEF LogWrites, engine, Locking
<1>7. ASSUME NEW t \in Tx, LogFails(t) PROVE Registration' /\ Ownership'
  BY <1>0, <1>7, GotoMoves, MovesWithin DEF LogFails, Locking
<1>8. ASSUME NEW t \in Tx, ApplyOp(t) PROVE Registration' /\ Ownership'
  <2>1. /\ snapshots' = snapshots /\ owner' = owner /\ pc[t] = "apply"
        /\ Goto(t, "index") \/ pc' = pc
    BY <1>8 DEF ApplyOp
  <2> QED
    BY <1>0, <2>1, GotoMoves, MovesWithin DEF Locking
<1>9. ASSUME NEW t \in Tx, IndexInsert(t) PROVE Registration' /\ Ownership'
  BY <1>0, <1>9, GotoMoves, MovesWithin DEF IndexInsert, Locking
<1>10. ASSUME NEW t \in Tx, Applied(t) PROVE Registration' /\ Ownership'
  BY <1>0, <1>10, GotoMoves, MovesWithin DEF Applied, Locking
<1>11. ASSUME NEW t \in Tx, Release(t) PROVE Registration' /\ Ownership'
  <2>1. \A u \in Tx : pc'[u] = IF u = t THEN "unsnap" ELSE pc[u]
    BY <1>0, <1>11, GotoMoves DEF Release
  <2>2. Registration'
    BY <1>11, <2>1 DEF Release, Registration, Registered
  <2>3. \A r \in Row : owner'[r] # NoTx => owner'[r] = owner[r] /\ owner[r] \in Tx \ {t}
    BY <1>0, <1>11 DEF Release, Lock!ReleaseAll, TypeOK
  <2> QED
    BY <2>1, <2>2, <2>3 DEF Ownership
<1>12. ASSUME NEW t \in Tx, Unsnap(t) PROVE Registration' /\ Ownership'
  <2>1. pc'[t] \in {"horizon", "done"} /\ \A u \in Tx : u # t => pc'[u] = pc[u]
    BY <1>0, <1>12, GotoMoves DEF Unsnap
  <2>2. Registration'
    BY <1>12, <2>1 DEF Unsnap, Registration, Registered
  <2>3. \A r \in Row : owner[r] # NoTx => owner[r] \in Tx \ {t}
    BY <1>0, <1>12 DEF Unsnap, TypeOK, Ownership, Locking
  <2> QED
    BY <1>12, <2>1, <2>2, <2>3 DEF Unsnap, Ownership
<1>13. ASSUME NEW t \in Tx, ComputeHorizon(t) PROVE Registration' /\ Ownership'
  BY <1>0, <1>13, GotoMoves, MovesAfter DEF ComputeHorizon, engine, Registered
<1>14. ASSUME NEW t \in Tx, Sweep(t) \/ SkipSweep(t) PROVE Registration' /\ Ownership'
  BY <1>0, <1>14, MovesAfter DEF Sweep, SkipSweep, engine, Registered
<1>15. ASSUME NEW t \in Tx, CommitReturns(t) PROVE Registration' /\ Ownership'
  BY <1>0, <1>15, GotoMoves, MovesAfter DEF CommitReturns, engine, Registered
<1>16. CASE UNCHANGED vars
  BY <1>16 DEF vars, engine, Registration, Ownership
<1> QED
  BY <1>1, <1>2, <1>3, <1>3a, <1>4, <1>5, <1>6, <1>7, <1>8, <1>9, <1>10, <1>11, <1>12,
     <1>13, <1>14, <1>15, <1>16 DEF Next, Begin, Finish

LEMMA HorizonsAreLowStep ==
    ASSUME Typed, SnapshotsArePast, Registration, HorizonsAreLow, [Next]_vars
    PROVE  HorizonsAreLow'
<1> USE DEF Goto, Registered
<1>0. TypeOK
  BY DEF Typed
<1>1. ASSUME NEW t \in Tx, BeginLoad(t) PROVE HorizonsAreLow'
  BY <1>0, <1>1 DEF BeginLoad, TypeOK, Ts, HorizonsAreLow
<1>2. ASSUME NEW t \in Tx, BeginRegister(t) PROVE HorizonsAreLow'
  BY <1>0, <1>2 DEF BeginRegister, TypeOK, HorizonsAreLow
<1>3. ASSUME NEW t \in Tx, Commit(t) PROVE HorizonsAreLow'
  BY <1>0, <1>3 DEF Commit, TypeOK, Ts, HorizonsAreLow
<1>4. ASSUME NEW t \in Tx, Unsnap(t) PROVE HorizonsAreLow'
  BY <1>0, <1>4 DEF Unsnap, TypeOK, HorizonsAreLow
<1>5. ASSUME NEW t \in Tx, ComputeHorizon(t) PROVE HorizonsAreLow'
  <2> DEFINE h == MinActiveSnapshot
  <2>1. h \in Ts /\ \A u \in Tx : pc[u] \in Registered => h <= snap[u]
    BY HorizonIsMin DEF Registration
  <2>2. h <= clock
    BY HorizonIsMin
  <2>3. horizon' = [horizon EXCEPT ![t] = h] /\ clock' = clock /\ snap' = snap
    BY <1>5 DEF ComputeHorizon, engine
  <2> HIDE DEF h
  <2>4. \A u \in Tx : pc'[u] = "sweep" => u = t \/ pc[u] = "sweep"
    BY <1>0, <1>5 DEF ComputeHorizon, TypeOK
  <2>5. \A u \in Tx : pc'[u] \in Registered \cup {"loaded"} /\ ~ overtaken'[u]
           => pc[u] \in Registered /\ ~ overtaken[u]
    BY <1>0, <1>5 DEF ComputeHorizon, TypeOK
  <2> QED
    BY <1>0, <2>1, <2>2, <2>3, <2>4, <2>5 DEF TypeOK, HorizonsAreLow
<1>6. ASSUME NEW t \in Tx, CommitReturns(t) PROVE HorizonsAreLow'
  BY <1>0, <1>6 DEF CommitReturns, engine, TypeOK, HorizonsAreLow
<1>7. ASSUME UNCHANGED <<clock, snap, horizon, overtaken>>,
             \A u \in Tx : pc'[u] = pc[u] \/ (pc'[u] # "sweep" /\ pc[u] \in Registered)
                                          \/ pc'[u] \in {"horizon", "done"}
      PROVE  HorizonsAreLow'
  <2> SUFFICES ASSUME NEW u \in Tx, pc'[u] = "sweep"
               PROVE  /\ horizon[u] <= clock
                      /\ \A t \in Tx :
                            pc'[t] \in Registered \cup {"loaded"} /\ ~ overtaken[t]
                            => horizon[u] <= snap[t]
    BY <1>7 DEF HorizonsAreLow
  <2>1. pc[u] = "sweep" /\ horizon[u] <= clock
    BY <1>7 DEF HorizonsAreLow
  <2>2. ASSUME NEW t \in Tx, pc'[t] \in Registered \cup {"loaded"}, ~ overtaken[t]
        PROVE  horizon[u] <= snap[t]
    <3>1. pc[t] \in Registered \cup {"loaded"}
      BY <1>7, <2>2
    <3> QED
      BY <2>1, <2>2, <3>1 DEF HorizonsAreLow
  <2> QED
    BY <2>1, <2>2
<1>8. ASSUME NEW t \in Tx, NEW op \in Op, Write(t, op) PROVE HorizonsAreLow'
  BY <1>7, <1>8 DEF Write
<1>8a. ASSUME NEW t \in Tx, NEW r \in Row, LockRow(t, r) PROVE HorizonsAreLow'
  BY <1>7, <1>8a DEF LockRow
<1>9. ASSUME NEW t \in Tx,
             Abort(t) \/ LogWrites(t) \/ LogFails(t) \/ Applied(t) \/ Release(t)
      PROVE  HorizonsAreLow'
  <2>1. /\ UNCHANGED <<clock, snap, horizon, overtaken>>
        /\ pc[t] \in Registered
        /\ pc' = [pc EXCEPT ![t] = "release"] \/ pc' = [pc EXCEPT ![t] = "apply"]
           \/ pc' = [pc EXCEPT ![t] = "unsnap"]
    BY <1>9 DEF Abort, LogWrites, LogFails, Applied, Release, engine
  <2> QED
    BY <1>0, <1>7, <2>1 DEF TypeOK
<1>10. ASSUME NEW t \in Tx, ApplyOp(t) \/ IndexInsert(t) PROVE HorizonsAreLow'
  BY <1>0, <1>7, <1>10 DEF ApplyOp, IndexInsert, TypeOK
<1>11. ASSUME NEW t \in Tx, Sweep(t) \/ SkipSweep(t) PROVE HorizonsAreLow'
  BY <1>0, <1>7, <1>11 DEF Sweep, SkipSweep, engine, TypeOK
<1>12. CASE UNCHANGED vars
  BY <1>7, <1>12 DEF vars, engine
<1> QED
  BY <1>1, <1>2, <1>3, <1>4, <1>5, <1>6, <1>8, <1>8a, <1>9, <1>10, <1>11, <1>12
  DEF Next, Begin, Finish

LEMMA SweepInvariant == Spec => []SweepInv
<1>1. Init => SweepInv
  <2>1. Init => Registration /\ Ownership /\ HorizonsAreLow
    BY DEF Init, Registration, Ownership, HorizonsAreLow, Registered, Locking, Lock!Init
  <2> QED
    BY <2>1, InitTyped DEF SweepInv
<1>2. SweepInv /\ [Next]_vars => SweepInv'
  BY TypedStep, SnapshotsArePastStep, RegistrationStep, HorizonsAreLowStep DEF SweepInv
<1> QED
  BY <1>1, <1>2, PTL DEF Spec

(* Commit, abort and the failed append all give back the locks and the
   snapshot: a transaction that has ended holds nothing. *)
THEOREM NothingLeaks == Spec => []EndedHoldsNothing
<1>1. ASSUME Registration, Ownership, NEW t \in Tx, pc[t] = "done"
      PROVE  t \notin snapshots /\ \A r \in Row : owner[r] # t
  <2>1. t \notin snapshots
    BY <1>1 DEF Registration, Registered
  <2>2. ASSUME NEW r \in Row, owner[r] = t PROVE FALSE
    <3>1. owner[r] # NoTx
      BY <2>2, NoTxAssumption
    <3> QED
      BY <1>1, <2>2, <3>1 DEF Ownership, Locking
  <2> QED
    BY <2>1, <2>2
<1>2. SweepInv => EndedHoldsNothing
  BY <1>1 DEF SweepInv, EndedHoldsNothing
<1> QED
  BY <1>2, SweepInvariant, PTL

(* A prune, by any committer and at any moment, changes nothing that a
   running transaction reads at its snapshot, unless a horizon overtook it
   between the two halves of its begin. *)
THEOREM PruningIsInvisible == Spec => SweepKeepsRegistered
<1>1. ASSUME SweepInv, SweepStep, NEW t \in Tx, pc[t] = "active", ~ overtaken[t]
      PROVE  View(t)' = View(t)
  <2>1. PICK u \in Tx : Sweep(u)
    BY <1>1 DEF SweepStep
  <2>2. TypeOK
    BY <1>1 DEF SweepInv, Typed
  <2>3. horizon[u] <= snap[t] /\ horizon[u] \in Ts /\ snap[t] \in Ts
    BY <1>1, <2>1, <2>2 DEF Sweep, SweepInv, HorizonsAreLow, Registered, TypeOK
  <2>4. snap' = snap
    BY <2>1 DEF Sweep
  <2>5. ASSUME NEW r \in Row PROVE Read(chain'[r], snap[t]) = Read(chain[r], snap[t])
    <3>1. chain[r] \in VersionChain
      BY <2>2 DEF TypeOK
    <3>2. chain'[r] = chain[r] \/ chain'[r] = Prune(chain[r], horizon[u])
      BY <2>1, <2>2 DEF Sweep, TypeOK
    <3> QED
      BY <2>3, <3>1, <3>2, PruneKeepsReads
  <2> QED
    BY <2>4, <2>5 DEF View
<1>2. SweepInv /\ [Next]_vars =>
        [SweepStep => \A t \in Tx : pc[t] = "active" /\ ~ overtaken[t]
                                    => View(t)' = View(t)]_vars
  BY <1>1
<1> QED
  BY <1>2, SweepInvariant, PTL DEF Spec, SweepKeepsRegistered

------------------------------------------------------------------------------
(* The shape of a chain whose last writer committed at ts. *)
NoneLive(c) == \A v \in c.versions : v.end_ts # TS_INFINITY
UpTo(c, ts) == \A v \in c.versions : /\ v.begin_ts <= ts
                                     /\ v.end_ts <= ts \/ v.end_ts = TS_INFINITY
Disjoint(c) == \A v, w \in c.versions :
                   v = w \/ v.end_ts <= w.begin_ts \/ w.end_ts <= v.begin_ts

(* With one version to see, "the newest visible" is that one. *)
LEMMA ReadOfOne ==
    ASSUME NEW c, NEW s, NEW v, Visible(c, s) = {v}
    PROVE  Read(c, s) = v.data
<1>1. Newest({v}) = v
  BY DEF Newest
<1> QED
  BY <1>1 DEF Read

LEMMA OneIsVisible ==
    ASSUME NEW c \in VersionChain, Disjoint(c), NEW s \in Ts
    PROVE  Visible(c, s) = {} \/ \E v \in c.versions : Visible(c, s) = {v}
<1>1. ASSUME NEW v \in Visible(c, s), NEW w \in Visible(c, s) PROVE v = w
  <2>1. /\ v \in RowVersion /\ w \in RowVersion
        /\ v.begin_ts <= s /\ s < v.end_ts
        /\ w.begin_ts <= s /\ s < w.end_ts
        /\ v \in c.versions /\ w \in c.versions
    BY DEF Visible, VisibleAt, VersionChain
  <2>2. ~ (v.end_ts <= w.begin_ts) /\ ~ (w.end_ts <= v.begin_ts)
    BY <2>1, MaxTsAssumption DEF RowVersion, Ts, TS_INFINITY
  <2> QED
    BY <2>1, <2>2 DEF Disjoint
<1> QED
  BY <1>1 DEF Visible

(* A read at the clock that finds nothing means that nothing is live. *)
LEMMA NothingReadNoneLive ==
    ASSUME NEW c \in VersionChain, Disjoint(c), NEW s \in Ts, UpTo(c, s), Read(c, s) = NoRow
    PROVE  NoneLive(c)
<1>1. SUFFICES ASSUME NEW v \in c.versions, v.end_ts = TS_INFINITY PROVE FALSE
  BY DEF NoneLive
<1>2. v \in Visible(c, s)
  BY <1>1, MaxTsAssumption DEF UpTo, Visible, VisibleAt, Ts, TS_INFINITY
<1>3. Visible(c, s) = {v}
  BY <1>2, OneIsVisible
<1>4. v.data \in Data
  BY DEF VersionChain, RowVersion
<1> QED
  BY <1>3, <1>4, ReadOfOne, NoRowAssumption

(* expire_live: nothing is live, or one live version is ended. *)
LEMMA ExpireCases ==
    ASSUME NEW c \in VersionChain, PosBounded(c), NEW ts \in Ts
    PROVE  \/ NoneLive(c) /\ ExpireLive(c, ts) = c
           \/ \E n \in c.versions :
                 /\ n.end_ts = TS_INFINITY
                 /\ ExpireLive(c, ts).versions =
                        (c.versions \ {n}) \cup {[n EXCEPT !.end_ts = ts]}
<1> DEFINE live == {v \in c.versions : v.end_ts = TS_INFINITY}
<1>1. CASE live = {}
  BY <1>1 DEF ExpireLive, NoneLive
<1>2. CASE live # {}
  <2>1. Newest(live) \in live
    BY <1>2, NewestExists
  <2>2. ExpireLive(c, ts) =
          [c EXCEPT !.versions = (c.versions \ {Newest(live)})
                                 \cup {[Newest(live) EXCEPT !.end_ts = ts]}]
    BY <1>2 DEF ExpireLive
  <2> QED
    BY <2>1, <2>2 DEF VersionChain
<1> QED
  BY <1>1, <1>2

(* Two live versions would overlap, so ending one leaves none. *)
LEMMA ExpireShape ==
    ASSUME NEW c \in VersionChain, PosBounded(c), NEW ts \in Ts,
           UpTo(c, ts), Disjoint(c)
    PROVE  LET e == ExpireLive(c, ts) IN NoneLive(e) /\ UpTo(e, ts) /\ Disjoint(e)
<1>1. CASE NoneLive(c) /\ ExpireLive(c, ts) = c
  BY <1>1
<1>2. ASSUME NEW n \in c.versions, n.end_ts = TS_INFINITY,
             ExpireLive(c, ts).versions =
                 (c.versions \ {n}) \cup {[n EXCEPT !.end_ts = ts]}
      PROVE  LET e == ExpireLive(c, ts) IN NoneLive(e) /\ UpTo(e, ts) /\ Disjoint(e)
  <2> DEFINE e == ExpireLive(c, ts)
             m == [n EXCEPT !.end_ts = ts]
  <2>1. /\ n \in RowVersion /\ n.begin_ts <= ts
        /\ m.begin_ts = n.begin_ts /\ m.end_ts = ts
    BY DEF VersionChain, RowVersion, UpTo
  <2>2. \A v \in e.versions : v = m \/ (v \in c.versions /\ v # n)
    BY <1>2
  <2>3. \A v \in c.versions : v.begin_ts \in Ts /\ v.end_ts \in Ts \cup {TS_INFINITY}
    BY DEF VersionChain, RowVersion
  <2>4. \A v \in c.versions : v # n => v.end_ts <= n.begin_ts
    <3>1. SUFFICES ASSUME NEW v \in c.versions, v # n PROVE v.end_ts <= n.begin_ts
      OBVIOUS
    <3>2. ~ (n.end_ts <= v.begin_ts)
      BY <1>2, <2>3, MaxTsAssumption DEF Ts, TS_INFINITY
    <3> QED
      BY <3>1, <3>2 DEF Disjoint
  <2> HIDE DEF e, m
  <2>5. NoneLive(e)
    BY <2>1, <2>2, <2>3, <2>4, MaxTsAssumption DEF NoneLive, Ts, TS_INFINITY
  <2>6. UpTo(e, ts)
    BY <2>1, <2>2, <2>3, MaxTsAssumption DEF UpTo, Ts, TS_INFINITY
  <2>7. Disjoint(e)
    BY <2>1, <2>2, <2>4 DEF Disjoint
  <2> QED
    BY <2>5, <2>6, <2>7 DEF e
<1> QED
  BY <1>1, <1>2, ExpireCases

LEMMA PushShape ==
    ASSUME NEW c \in VersionChain, NEW ts \in Ts, NEW d \in Data,
           NoneLive(c), UpTo(c, ts), Disjoint(c)
    PROVE  LET p == PushVersion(c, ts, d) IN UpTo(p, ts) /\ Disjoint(p)
<1> DEFINE p == PushVersion(c, ts, d)
           m == [data |-> d, begin_ts |-> ts, end_ts |-> TS_INFINITY, pos |-> c.pushed + 1]
<1>1. p.versions = c.versions \cup {m}
  BY DEF PushVersion
<1>2. m.begin_ts = ts /\ m.end_ts = TS_INFINITY
  OBVIOUS
<1>3. \A v \in c.versions : v.end_ts <= ts
  BY DEF NoneLive, UpTo
<1> HIDE DEF p, m
<1>4. UpTo(p, ts)
  BY <1>1, <1>2 DEF UpTo, Ts
<1>5. Disjoint(p)
  BY <1>1, <1>2, <1>3 DEF Disjoint
<1> QED
  BY <1>4, <1>5 DEF p

LEMMA ApplyShape ==
    ASSUME NEW c \in VersionChain, PosBounded(c), NEW op \in Op, NEW ts \in Ts,
           UpTo(c, ts), Disjoint(c), op.kind = "insert" => NoneLive(c)
    PROVE  UpTo(Apply(c, op, ts), ts) /\ Disjoint(Apply(c, op, ts))
<1>1. CASE op.kind = "insert"
  <2>1. op.data \in Data
    BY <1>1 DEF Op
  <2> QED
    BY <1>1, <2>1, PushShape DEF Apply
<1>2. CASE op.kind = "update"
  <2>1. op.data \in Data
    BY <1>2 DEF Op
  <2>2. ExpireLive(c, ts) \in VersionChain
    BY ExpireLiveType
  <2> QED
    BY <1>2, <2>1, <2>2, ExpireShape, PushShape DEF Apply
<1>3. CASE op.kind = "delete"
  BY <1>3, ExpireShape DEF Apply
<1> QED
  BY <1>1, <1>2, <1>3 DEF Op

(* A read at or after the commit sees the op just applied ... *)
LEMMA PushReads ==
    ASSUME NEW c \in VersionChain, NEW ts \in Ts, NEW d \in Data, NEW s \in Ts, ts <= s,
           NoneLive(c), UpTo(c, ts)
    PROVE  Read(PushVersion(c, ts, d), s) = d
<1> DEFINE p == PushVersion(c, ts, d)
           m == [data |-> d, begin_ts |-> ts, end_ts |-> TS_INFINITY, pos |-> c.pushed + 1]
<1>1. p.versions = c.versions \cup {m}
  BY DEF PushVersion
<1>2. m.begin_ts = ts /\ m.end_ts = TS_INFINITY /\ m.data = d
  OBVIOUS
<1>3. \A v \in c.versions : v.end_ts <= ts /\ v.end_ts \in Nat
  BY MaxTsAssumption DEF NoneLive, UpTo, VersionChain, RowVersion, Ts, TS_INFINITY
<1> HIDE DEF p, m
<1>4. Visible(p, s) = {m}
  <2>1. VisibleAt(m, s)
    BY <1>2, MaxTsAssumption DEF VisibleAt, Ts, TS_INFINITY
  <2>2. \A v \in c.versions : ~ VisibleAt(v, s)
    BY <1>3 DEF VisibleAt, Ts
  <2> QED
    BY <1>1, <2>1, <2>2 DEF Visible
<1> QED
  BY <1>2, <1>4, ReadOfOne DEF p

LEMMA ApplyReads ==
    ASSUME NEW c \in VersionChain, PosBounded(c), NEW op \in Op, NEW ts \in Ts,
           UpTo(c, ts), Disjoint(c), op.kind = "insert" => NoneLive(c),
           NEW s \in Ts, ts <= s
    PROVE  Read(Apply(c, op, ts), s) = op.data
<1>1. CASE op.kind = "insert"
  <2>1. op.data \in Data
    BY <1>1 DEF Op
  <2> QED
    BY <1>1, <2>1, PushReads DEF Apply
<1>2. ExpireLive(c, ts) \in VersionChain
  BY ExpireLiveType
<1>3. CASE op.kind = "update"
  <2>1. op.data \in Data
    BY <1>3 DEF Op
  <2> QED
    BY <1>2, <1>3, <2>1, ExpireShape, PushReads DEF Apply
<1>4. CASE op.kind = "delete"
  <2> DEFINE e == ExpireLive(c, ts)
  <2>1. \A v \in e.versions : v.end_ts <= ts /\ v.end_ts \in Nat
    BY <1>2, ExpireShape, MaxTsAssumption
    DEF NoneLive, UpTo, VersionChain, RowVersion, Ts, TS_INFINITY
  <2> HIDE DEF e
  <2>2. Visible(e, s) = {}
    BY <2>1 DEF Visible, VisibleAt, Ts
  <2>3. op.data = NoRow
    BY <1>4 DEF Op
  <2> QED
    BY <1>4, <2>2, <2>3 DEF Apply, Read, e
<1> QED
  BY <1>1, <1>3, <1>4 DEF Op

(* ... and a read before it sees what it saw. *)
LEMMA ExpireKeepsReads ==
    ASSUME NEW c \in VersionChain, PosBounded(c), Disjoint(c), NEW ts \in Ts,
           NEW s \in Ts, s < ts
    PROVE  Read(ExpireLive(c, ts), s) = Read(c, s)
<1>1. CASE ExpireLive(c, ts) = c
  BY <1>1
<1>2. ASSUME NEW n \in c.versions, n.end_ts = TS_INFINITY,
             ExpireLive(c, ts).versions =
                 (c.versions \ {n}) \cup {[n EXCEPT !.end_ts = ts]}
      PROVE  Read(ExpireLive(c, ts), s) = Read(c, s)
  <2> DEFINE e == ExpireLive(c, ts)
             m == [n EXCEPT !.end_ts = ts]
  <2>1. /\ m.begin_ts = n.begin_ts /\ m.end_ts = ts /\ m.data = n.data
    BY DEF VersionChain, RowVersion
  <2>2. e.versions = (c.versions \ {n}) \cup {m}
    BY <1>2
  <2> HIDE DEF e, m
  <2>3. VisibleAt(m, s) <=> VisibleAt(n, s)
    BY <1>2, <2>1, MaxTsAssumption DEF VisibleAt, Ts, TS_INFINITY
  <2>4. CASE VisibleAt(n, s)
    <3>1. Visible(c, s) = {n}
      <4>1. n \in Visible(c, s)
        BY <2>4 DEF Visible
      <4> QED
        BY <4>1, OneIsVisible
    <3>2. Visible(e, s) = {m}
      BY <2>2, <2>3, <2>4, <3>1 DEF Visible
    <3> QED
      BY <2>1, <3>1, <3>2, ReadOfOne DEF e
  <2>5. CASE ~ VisibleAt(n, s)
    <3>1. Visible(e, s) = Visible(c, s)
      BY <2>2, <2>3, <2>5 DEF Visible
    <3> QED
      BY <3>1 DEF Read, e
  <2> QED
    BY <2>4, <2>5
<1> QED
  BY <1>1, <1>2, ExpireCases

LEMMA PushKeepsReads ==
    ASSUME NEW c \in VersionChain, NEW ts \in Ts, NEW d \in Data, NEW s \in Ts, s < ts
    PROVE  Read(PushVersion(c, ts, d), s) = Read(c, s)
<1> DEFINE m == [data |-> d, begin_ts |-> ts, end_ts |-> TS_INFINITY, pos |-> c.pushed + 1]
<1>1. PushVersion(c, ts, d).versions = c.versions \cup {m}
  BY DEF PushVersion
<1>2. ~ VisibleAt(m, s)
  BY DEF VisibleAt, Ts
<1> HIDE DEF m
<1>3. Visible(PushVersion(c, ts, d), s) = Visible(c, s)
  BY <1>1, <1>2 DEF Visible
<1> QED
  BY <1>3 DEF Read

LEMMA ApplyKeepsReads ==
    ASSUME NEW c \in VersionChain, PosBounded(c), Disjoint(c), NEW op \in Op,
           NEW ts \in Ts, NEW s \in Ts, s < ts
    PROVE  Read(Apply(c, op, ts), s) = Read(c, s)
<1>1. ExpireLive(c, ts) \in VersionChain
  BY ExpireLiveType
<1>2. op.kind # "delete" => op.data \in Data
  BY DEF Op
<1> QED
  BY <1>1, <1>2, ExpireKeepsReads, PushKeepsReads DEF Apply, Op

------------------------------------------------------------------------------
(* Where a transaction is in its life, and what its locals are there. *)
Stages ==
    \A t \in Tx :
        /\ pc[t] \in {"new", "loaded"} => ops[t] = <<>>
        /\ pc[t] \in {"new", "loaded", "active"} => cts[t] = 0
        /\ pc[t] \in {"new", "loaded", "active", "log"} => cur[t] = 1
        /\ pc[t] \in {"log", "apply", "index"} => cts[t] # 0 /\ status[t] # "committed"
        /\ pc[t] = "apply" => cur[t] <= Len(ops[t]) + 1
        /\ pc[t] = "index" => ops[t][cur[t]].kind = "insert"
        /\ status[t] = "committed" =>
               cts[t] # 0 /\ pc[t] \in {"release", "unsnap", "horizon", "sweep", "done"}
        /\ cts[t] <= clock

(* Of these, what does not speak of timestamps. *)
Starts ==
    \A t \in Tx : /\ pc[t] \in {"new", "loaded"} => ops[t] = <<>>
                  /\ pc[t] \in {"new", "loaded", "active", "log"} => cur[t] = 1
                  /\ pc[t] = "index" => ops[t][cur[t]].kind = "insert"

(* Two-phase locking: what t writes it owns, until the locks are released. *)
WritesAreOwned ==
    \A t \in Tx : pc[t] \in Locking =>
        \A i \in DOMAIN ops[t] : owner[ops[t][i].row] = t

(* Of two writers of a row, the one still committing has the later timestamp. *)
CommittersAreLatest ==
    \A t, u \in Tx : pc[t] \in {"log", "apply", "index"} /\ u # t /\ cts[u] # 0 =>
        \A r \in Row : Writes(t, r) /\ Writes(u, r) => cts[u] < cts[t]

(* The primary-key index: what apply_insert has been through is in it, and a
   row is updated only after it was inserted. *)
InsertedIsIndexed ==
    \A t \in Tx : pc[t] \in {"apply", "index"} =>
        \A i \in DOMAIN ops[t] :
            i < cur[t] /\ ops[t][i].kind = "insert" => ops[t][i].row \in pkIndex
UpdatesFollowInserts ==
    \A t \in Tx : pc[t] \in Locking =>
        \A i \in DOMAIN ops[t] : ops[t][i].kind = "update" =>
            \/ ops[t][i].row \in pkIndex
            \/ \E j \in DOMAIN ops[t] : /\ j < i /\ ops[t][j].kind = "insert"
                                        /\ ops[t][j].row = ops[t][i].row

(* The ops of u on r that are in the store. *)
AppliedCount(u) == CASE status[u] = "committed" -> Len(ops[u])
                     [] pc[u] = "apply" -> cur[u] - 1
                     [] pc[u] = "index" -> cur[u]
                     [] OTHER -> 0
Done(u, r) == {i \in OwnOps(u, r) : i <= AppliedCount(u)}
AppliedBy(r, s) == {u \in Tx : Done(u, r) # {} /\ cts[u] <= s}

(* A chain reads exactly what was applied to it up to s. *)
Exact(r, s) ==
    /\ AppliedBy(r, s) = {} => Read(chain[r], s) = NoRow
    /\ \A u \in AppliedBy(r, s) : \A i \in Done(u, r) :
           /\ \A w \in AppliedBy(r, s) : cts[w] <= cts[u]
           /\ \A j \in Done(u, r) : j <= i
           => Read(chain[r], s) = ops[u][i].data

(* Timestamps no sweep can pass: the clock, and snapshots not overtaken. *)
Protected(s) ==
    \/ clock <= s
    \/ \E t \in Tx : /\ pc[t] \in Registered \cup {"loaded"}
                     /\ ~ overtaken[t]
                     /\ snap[t] <= s
ReadsAreExact == \A r \in Row, s \in Ts : Protected(s) => Exact(r, s)

(* What is pushed and ended stays behind the last writer of the row. *)
ChainsAreDisjoint == \A r \in Row : Disjoint(chain[r])
ChainsArePast ==
    \A r \in Row : \A v \in chain[r].versions : \E u \in Tx :
        /\ Done(u, r) # {}
        /\ v.begin_ts <= cts[u]
        /\ v.end_ts <= cts[u] \/ v.end_ts = TS_INFINITY

(* An INSERT that is still to be applied finds no live version: the last own
   write to the row is a DELETE, or there is none and the row is not there. *)
InsertsFindNothing ==
    \A t \in Tx : pc[t] \in {"active", "log", "apply", "index"} =>
        \A i \in DOMAIN ops[t] : ops[t][i].kind = "insert" =>
            LET before == {j \in OwnOps(t, ops[t][i].row) : j < i}
            IN IF before = {} THEN i <= AppliedCount(t) \/ NoneLive(chain[ops[t][i].row])
               ELSE \E j \in before : /\ ops[t][j].kind = "delete"
                                      /\ \A k \in before : k <= j

------------------------------------------------------------------------------
(* Facts every action's proof starts from. *)
LEMMA CurrentOp ==
    ASSUME TypeOK, NEW t \in Tx, cur[t] <= Len(ops[t])
    PROVE  /\ cur[t] \in DOMAIN ops[t]
           /\ ops[t][cur[t]] \in Op
           /\ ops[t][cur[t]].row \in Row
<1>1. ops[t] \in Seq(Op) /\ cur[t] \in 1 .. Len(ops[t])
  BY DEF TypeOK
<1> QED
  BY <1>1 DEF Op

LEMMA StagesStep == Typed /\ Stages /\ [Next]_vars => Stages'
<1> SUFFICES ASSUME Typed, Stages, [Next]_vars PROVE Stages'
  OBVIOUS
<1>0. TypeOK /\ IndexPending /\ \A t \in Tx : Len(ops[t]) \in Nat
  BY DEF Typed, TypeOK
<1> USE DEF Goto, Stages
<1>1. ASSUME NEW t \in Tx, BeginLoad(t) PROVE Stages'
  BY <1>0, <1>1 DEF BeginLoad, TypeOK
<1>2. ASSUME NEW t \in Tx, BeginRegister(t) PROVE Stages'
  BY <1>0, <1>2 DEF BeginRegister, TypeOK
<1>3. ASSUME NEW t \in Tx, NEW op \in Op, Write(t, op) PROVE Stages'
  BY <1>0, <1>3 DEF Write, TypeOK
<1>4. ASSUME NEW t \in Tx, NEW r \in Row, LockRow(t, r) PROVE Stages'
  BY <1>0, <1>4 DEF LockRow, TypeOK
<1>5. ASSUME NEW t \in Tx, Commit(t) PROVE Stages'
  BY <1>0, <1>5 DEF Commit, TypeOK, Ts
<1>6. ASSUME NEW t \in Tx, LogWrites(t) PROVE Stages'
  BY <1>0, <1>6 DEF LogWrites, engine, TypeOK
<1>7. ASSUME NEW t \in Tx, LogFails(t) PROVE Stages'
  BY <1>0, <1>7 DEF LogFails, TypeOK
<1>8. ASSUME NEW t \in Tx, ApplyOp(t) PROVE Stages'
  BY <1>0, <1>8 DEF ApplyOp, TypeOK
<1>9. ASSUME NEW t \in Tx, IndexInsert(t) PROVE Stages'
  BY <1>0, <1>9 DEF IndexInsert, TypeOK, IndexPending
<1>10. ASSUME NEW t \in Tx, Applied(t) PROVE Stages'
  BY <1>0, <1>10 DEF Applied, TypeOK
<1>11. ASSUME NEW t \in Tx, Abort(t) PROVE Stages'
  BY <1>0, <1>11 DEF Abort, TypeOK
<1>12. ASSUME NEW t \in Tx, Release(t) PROVE Stages'
  BY <1>0, <1>12 DEF Release, TypeOK
<1>13. ASSUME NEW t \in Tx, Unsnap(t) PROVE Stages'
  BY <1>0, <1>13 DEF Unsnap, TypeOK
<1>14. ASSUME NEW t \in Tx, ComputeHorizon(t) PROVE Stages'
  BY <1>0, <1>14 DEF ComputeHorizon, engine, TypeOK
<1>15. ASSUME NEW t \in Tx, Sweep(t) \/ SkipSweep(t) PROVE Stages'
  BY <1>0, <1>15 DEF Sweep, SkipSweep, engine, TypeOK
<1>16. ASSUME NEW t \in Tx, CommitReturns(t) PROVE Stages'
  BY <1>0, <1>16 DEF CommitReturns, engine, TypeOK
<1>17. CASE UNCHANGED vars
  BY <1>17 DEF vars, engine
<1> QED
  BY <1>1, <1>2, <1>3, <1>4, <1>5, <1>6, <1>7, <1>8, <1>9, <1>10, <1>11, <1>12, <1>13,
     <1>14, <1>15, <1>16, <1>17 DEF Next, Begin, Finish

LEMMA StagesStart == Stages => Starts
BY DEF Stages, Starts

LEMMA StartsStep ==
    ASSUME TypeOK, Starts, [Next]_vars
    PROVE  Starts'
<1> USE DEF Starts, Goto
<1>1. ASSUME NEW t \in Tx, Begin(t) \/ Commit(t) \/ Abort(t) PROVE Starts'
  BY <1>1 DEF Begin, BeginLoad, BeginRegister, Commit, Abort, TypeOK
<1>2. ASSUME NEW t \in Tx, NEW op \in Op, Write(t, op) PROVE Starts'
  BY <1>2 DEF Write, TypeOK
<1>3. ASSUME NEW t \in Tx, NEW r \in Row, LockRow(t, r) PROVE Starts'
  BY <1>3 DEF LockRow, TypeOK
<1>4. ASSUME NEW t \in Tx, LogWrites(t) \/ LogFails(t) PROVE Starts'
  BY <1>4 DEF LogWrites, LogFails, engine, TypeOK
<1>5. ASSUME NEW t \in Tx, ApplyOp(t) PROVE Starts'
  BY <1>5 DEF ApplyOp, TypeOK
<1>6. ASSUME NEW t \in Tx, IndexInsert(t) \/ Applied(t) \/ Release(t) PROVE Starts'
  BY <1>6 DEF IndexInsert, Applied, Release, TypeOK
<1>7. ASSUME NEW t \in Tx, Unsnap(t) PROVE Starts'
  BY <1>7 DEF Unsnap, TypeOK
<1>8. ASSUME NEW t \in Tx,
             ComputeHorizon(t) \/ Sweep(t) \/ SkipSweep(t) \/ CommitReturns(t)
      PROVE  Starts'
  BY <1>8 DEF ComputeHorizon, Sweep, SkipSweep, CommitReturns, engine, TypeOK
<1>9. CASE UNCHANGED vars
  BY <1>9 DEF vars, engine
<1> QED
  BY <1>1, <1>2, <1>3, <1>4, <1>5, <1>6, <1>7, <1>8, <1>9 DEF Next, Finish

(* Nobody takes a row from its owner but by Release, so the writes of a
   transaction stay its own until then. *)
LEMMA OwnedUntilRelease ==
    ASSUME Typed, \A t \in Tx : pc[t] = "loaded" => ops[t] = <<>>, WritesAreOwned,
           [Next]_vars
    PROVE  WritesAreOwned'
<1>0. TypeOK
  BY DEF Typed
<1>00. \A t \in Tx : \A i \in DOMAIN ops[t] : ops[t][i].row \in Row
  BY <1>0 DEF TypeOK, Op
<1> USE DEF Goto, Locking, WritesAreOwned
<1>1. ASSUME NEW t \in Tx, BeginLoad(t) PROVE WritesAreOwned'
  BY <1>0, <1>1 DEF BeginLoad, TypeOK
<1>2. ASSUME NEW t \in Tx, BeginRegister(t) PROVE WritesAreOwned'
  BY <1>0, <1>2 DEF BeginRegister, TypeOK
<1>3. ASSUME NEW t \in Tx, NEW op \in Op, Write(t, op) PROVE WritesAreOwned'
  <2>1. /\ op.row \in Row /\ owner[op.row] \in {NoTx, t} /\ pc' = pc
        /\ owner' = [owner EXCEPT ![op.row] = t]
        /\ ops' = [ops EXCEPT ![t] = Append(@, op)]
    BY <1>3 DEF Write, Lock!Acquire, Op
  <2> SUFFICES ASSUME NEW u \in Tx, pc[u] \in Locking, NEW i \in DOMAIN ops'[u]
               PROVE  owner'[ops'[u][i].row] = u
    BY <2>1
  <2>2. CASE i \in DOMAIN ops[u] /\ ops'[u][i] = ops[u][i]
    <3>1. owner[ops[u][i].row] = u /\ ops[u][i].row \in Row
      BY <1>00, <2>2
    <3> QED
      BY <1>0, <2>1, <2>2, <3>1, NoTxAssumption DEF TypeOK
  <2>3. CASE u = t /\ ops'[u][i] = op
    BY <1>0, <2>1, <2>3 DEF TypeOK
  <2> QED
    BY <1>0, <2>1, <2>2, <2>3 DEF TypeOK
<1>4. ASSUME NEW t \in Tx, NEW r \in Row, LockRow(t, r) PROVE WritesAreOwned'
  <2>1. /\ owner[r] \in {NoTx, t} /\ pc' = pc /\ ops' = ops
        /\ owner' = [owner EXCEPT ![r] = t]
    BY <1>4 DEF LockRow, Lock!Acquire
  <2> QED
    BY <1>0, <1>00, <2>1, NoTxAssumption DEF TypeOK
<1>5. ASSUME NEW t \in Tx, Commit(t) PROVE WritesAreOwned'
  BY <1>0, <1>5 DEF Commit, TypeOK
<1>6. ASSUME NEW t \in Tx, LogWrites(t) PROVE WritesAreOwned'
  BY <1>0, <1>6 DEF LogWrites, engine, TypeOK
<1>7. ASSUME NEW t \in Tx, LogFails(t) PROVE WritesAreOwned'
  BY <1>0, <1>7 DEF LogFails, TypeOK
<1>8. ASSUME NEW t \in Tx, ApplyOp(t) PROVE WritesAreOwned'
  BY <1>0, <1>8 DEF ApplyOp, TypeOK
<1>9. ASSUME NEW t \in Tx, IndexInsert(t) PROVE WritesAreOwned'
  BY <1>0, <1>9 DEF IndexInsert, TypeOK
<1>10. ASSUME NEW t \in Tx, Applied(t) PROVE WritesAreOwned'
  BY <1>0, <1>10 DEF Applied, TypeOK
<1>11. ASSUME NEW t \in Tx, Abort(t) PROVE WritesAreOwned'
  BY <1>0, <1>11 DEF Abort, TypeOK
<1>12. ASSUME NEW t \in Tx, Release(t) PROVE WritesAreOwned'
  <2>1. /\ ops' = ops /\ owner' = [k \in Row |-> IF owner[k] = t THEN NoTx ELSE owner[k]]
        /\ pc' = [pc EXCEPT ![t] = "unsnap"]
    BY <1>12 DEF Release, Lock!ReleaseAll
  <2> SUFFICES ASSUME NEW u \in Tx, pc'[u] \in Locking, NEW i \in DOMAIN ops[u]
               PROVE  owner'[ops[u][i].row] = u
    BY <2>1
  <2>2. u # t /\ pc[u] \in Locking
    BY <1>0, <2>1 DEF TypeOK
  <2> QED
    BY <1>00, <2>1, <2>2
<1>13. ASSUME NEW t \in Tx, Unsnap(t) PROVE WritesAreOwned'
  BY <1>0, <1>13 DEF Unsnap, TypeOK
<1>14. ASSUME NEW t \in Tx, ComputeHorizon(t) PROVE WritesAreOwned'
  BY <1>0, <1>14 DEF ComputeHorizon, engine, TypeOK
<1>15. ASSUME NEW t \in Tx, Sweep(t) \/ SkipSweep(t) PROVE WritesAreOwned'
  BY <1>0, <1>15 DEF Sweep, SkipSweep, engine, TypeOK
<1>16. ASSUME NEW t \in Tx, CommitReturns(t) PROVE WritesAreOwned'
  BY <1>0, <1>16 DEF CommitReturns, engine, TypeOK
<1>17. CASE UNCHANGED vars
  BY <1>17 DEF vars, engine
<1> QED
  BY <1>1, <1>2, <1>3, <1>4, <1>5, <1>6, <1>7, <1>8, <1>9, <1>10, <1>11, <1>12, <1>13,
     <1>14, <1>15, <1>16, <1>17 DEF Next, Begin, Finish

LEMMA WritesAreOwnedStep ==
    ASSUME Typed, Stages, WritesAreOwned, [Next]_vars
    PROVE  WritesAreOwned'
<1>1. \A t \in Tx : pc[t] = "loaded" => ops[t] = <<>>
  BY DEF Stages
<1> QED
  BY <1>1, OwnedUntilRelease

(* A committing transaction took its timestamp while it owned what it writes,
   so whoever wrote there before had an earlier one. *)
LEMMA CommittersAreLatestStep ==
    ASSUME Typed, Stages, WritesAreOwned, CommittersAreLatest, [Next]_vars
    PROVE  CommittersAreLatest'
<1>0. TypeOK
  BY DEF Typed
<1> DEFINE Committing(t) == pc[t] \in {"log", "apply", "index"}
<1>1. ASSUME UNCHANGED <<ops, cts>>, \A u \in Tx : Committing(u)' => Committing(u)
      PROVE  CommittersAreLatest'
  BY <1>1 DEF CommittersAreLatest, Writes, OwnOps
<1>2. ASSUME NEW t \in Tx, cts[t] = 0, UNCHANGED cts, ~ Committing(t)',
             \A u \in Tx \ {t} : ops'[u] = ops[u] /\ pc'[u] = pc[u]
      PROVE  CommittersAreLatest'
  BY <1>2 DEF CommittersAreLatest, Writes, OwnOps
<1>3. ASSUME NEW t \in Tx, NEW op \in Op, Write(t, op) PROVE CommittersAreLatest'
  BY <1>0, <1>2, <1>3 DEF Write, Stages, TypeOK
<1>4. ASSUME NEW t \in Tx, Commit(t) PROVE CommittersAreLatest'
  <2>1. /\ pc[t] = "active" /\ pc' = [pc EXCEPT ![t] = "log"] /\ ops' = ops
        /\ cts' = [cts EXCEPT ![t] = clock + 1]
    BY <1>4 DEF Commit, Goto
  <2> SUFFICES ASSUME NEW u \in Tx, NEW w \in Tx, w # u, Committing(u)', cts'[w] # 0,
                      NEW r \in Row, Writes(u, r), Writes(w, r)
               PROVE  cts'[w] < cts'[u]
    BY <2>1 DEF CommittersAreLatest, Writes, OwnOps
  <2>2. CASE u = t
    BY <1>0, <2>1, <2>2 DEF Stages, TypeOK, Ts
  <2>3. CASE u # t
    <3>1. Committing(u)
      BY <1>0, <2>1, <2>3 DEF TypeOK
    <3>2. CASE w = t
      <4>1. owner[r] = u /\ owner[r] = t
        BY <2>1, <3>1, <3>2 DEF WritesAreOwned, Writes, OwnOps, Locking
      <4> QED
        BY <2>3, <4>1
    <3>3. CASE w # t
      BY <1>0, <2>1, <2>3, <3>1, <3>3 DEF CommittersAreLatest, TypeOK
    <3> QED
      BY <3>2, <3>3
  <2> QED
    BY <2>2, <2>3
<1>5. ASSUME NEW t \in Tx, Abort(t) PROVE CommittersAreLatest'
  BY <1>0, <1>2, <1>5 DEF Abort, Goto, Stages, TypeOK
<1>6. ASSUME NEW t \in Tx, Begin(t) PROVE CommittersAreLatest'
  BY <1>0, <1>1, <1>6 DEF Begin, BeginLoad, BeginRegister, Goto, TypeOK
<1>7. ASSUME NEW t \in Tx, NEW r \in Row, LockRow(t, r) PROVE CommittersAreLatest'
  BY <1>1, <1>7 DEF LockRow
<1>8. ASSUME NEW t \in Tx, Finish(t) PROVE CommittersAreLatest'
  <2>1. UNCHANGED <<ops, cts>>
    BY <1>8 DEF Finish, LogWrites, LogFails, ApplyOp, IndexInsert, Applied, Release, Unsnap,
       ComputeHorizon, Sweep, SkipSweep, CommitReturns, engine
  <2>2. /\ \A u \in Tx \ {t} : pc'[u] = pc[u]
        /\ Committing(t)' => Committing(t)
    BY <1>0, <1>8 DEF Finish, LogWrites, LogFails, ApplyOp, IndexInsert, Applied, Release,
       Unsnap, ComputeHorizon, Sweep, SkipSweep, CommitReturns, Goto, TypeOK
  <2> QED
    BY <1>1, <2>1, <2>2
<1>9. CASE UNCHANGED vars
  BY <1>1, <1>9 DEF vars, engine
<1> QED
  BY <1>3, <1>4, <1>5, <1>6, <1>7, <1>8, <1>9 DEF Next

LEMMA LockingInvariant == Spec => [](Typed /\ Stages /\ WritesAreOwned /\ CommittersAreLatest)
<1>1. Init => Stages /\ WritesAreOwned /\ CommittersAreLatest
  BY DEF Init, Stages, WritesAreOwned, CommittersAreLatest, Locking
<1>2. Typed /\ SnapshotsArePast /\ Stages /\ WritesAreOwned /\ CommittersAreLatest
        /\ [Next]_vars
      => Typed' /\ Stages' /\ WritesAreOwned' /\ CommittersAreLatest'
  BY TypedStep, StagesStep, WritesAreOwnedStep, CommittersAreLatestStep
<1> QED
  BY <1>1, <1>2, TypedAlways, PTL DEF Spec

(* No two transactions that have not released their locks write one row, and
   a committer is later than every earlier writer of the row: the versions of
   a row are written in timestamp order, although timestamps are handed out
   and writes applied in steps that interleave at will. *)
WritersExclude ==
    \A t, u \in Tx, r \in Row :
        t # u /\ Writes(t, r) /\ Writes(u, r) /\ pc[t] \in Locking =>
            /\ pc[u] \notin Locking
            /\ status[u] = "committed" /\ t \in InFlight => cts[u] < cts[t]

THEOREM WritersTakeTurns == Spec => []WritersExclude
<1>1. ASSUME Typed, Stages, WritesAreOwned, CommittersAreLatest
      PROVE  WritersExclude
  <2> SUFFICES ASSUME NEW t \in Tx, NEW u \in Tx, NEW r \in Row, t # u,
                      Writes(t, r), Writes(u, r), pc[t] \in Locking
               PROVE  /\ pc[u] \notin Locking
                      /\ status[u] = "committed" /\ t \in InFlight => cts[u] < cts[t]
    BY DEF WritersExclude
  <2>1. pc[u] \notin Locking
    BY <1>1 DEF WritesAreOwned, Writes, OwnOps
  <2>2. status[u] = "committed" /\ t \in InFlight => cts[u] < cts[t]
    BY <1>1 DEF CommittersAreLatest, InFlight, Stages
  <2> QED
    BY <2>1, <2>2
<1> QED
  BY <1>1, LockingInvariant, PTL

------------------------------------------------------------------------------
(* The primary-key index. *)
Indexing == /\ Typed /\ Starts /\ WritesAreOwned
            /\ InsertedIsIndexed /\ UpdatesFollowInserts /\ PkIndexComplete

LEMMA LastOwnOpExists ==
    ASSUME TypeOK, NEW t \in Tx, NEW r \in Row, OwnOps(t, r) # {}
    PROVE  \E i \in OwnOps(t, r) : /\ LastOwnOp(t, r) = ops[t][i]
                                    /\ \A j \in OwnOps(t, r) : j <= i
<1>1. Len(ops[t]) \in Nat /\ DOMAIN ops[t] = 1 .. Len(ops[t])
  BY DEF TypeOK
<1>2. \E i \in OwnOps(t, r) : \A j \in OwnOps(t, r) : j <= i
  <2>1. OwnOps(t, r) \in SUBSET Nat /\ \A j \in OwnOps(t, r) : j <= Len(ops[t])
    BY <1>1 DEF OwnOps
  <2> QED
    BY <1>1, <2>1, NatMax
<1> QED
  BY <1>2 DEF LastOwnOp

(* The row an insert is indexing belongs to the transaction that does it. *)
LEMMA IndexingOwns ==
    ASSUME Typed, WritesAreOwned, NEW u \in Tx, pc[u] = "index"
    PROVE  ops[u][cur[u]].row \in Row /\ owner[ops[u][cur[u]].row] = u
<1>1. cur[u] \in DOMAIN ops[u] /\ ops[u][cur[u]].row \in Row
  BY CurrentOp DEF Typed, IndexPending
<1> QED
  BY <1>1 DEF WritesAreOwned, Locking

LEMMA InsertedIsIndexedStep ==
    ASSUME Indexing, [Next]_vars
    PROVE  InsertedIsIndexed'
<1>0. TypeOK /\ IndexPending /\ Starts /\ InsertedIsIndexed
  BY DEF Indexing, Typed
<1> DEFINE Applying(t) == pc[t] \in {"apply", "index"}
<1>1. ASSUME pkIndex \subseteq pkIndex',
             \A t \in Tx : Applying(t)' => Applying(t) /\ cur'[t] = cur[t] /\ ops'[t] = ops[t]
      PROVE  InsertedIsIndexed'
  BY <1>0, <1>1 DEF InsertedIsIndexed
<1>2. ASSUME NEW t \in Tx, Begin(t) \/ Commit(t) \/ Abort(t) PROVE InsertedIsIndexed'
  BY <1>0, <1>1, <1>2 DEF Begin, BeginLoad, BeginRegister, Commit, Abort, Goto, TypeOK
<1>3. ASSUME NEW t \in Tx, NEW op \in Op, Write(t, op) PROVE InsertedIsIndexed'
  BY <1>0, <1>1, <1>3 DEF Write, TypeOK
<1>4. ASSUME NEW t \in Tx, NEW r \in Row, LockRow(t, r) PROVE InsertedIsIndexed'
  BY <1>0, <1>1, <1>4 DEF LockRow
<1>5. ASSUME NEW t \in Tx, LogWrites(t) PROVE InsertedIsIndexed'
  <2>1. /\ cur[t] = 1 /\ pkIndex' = pkIndex /\ ops' = ops /\ cur' = cur
        /\ pc' = [pc EXCEPT ![t] = "apply"]
    BY <1>0, <1>5 DEF LogWrites, Goto, engine, Starts
  <2>2. \A u \in Tx : DOMAIN ops[u] = 1 .. Len(ops[u]) /\ Len(ops[u]) \in Nat
    BY <1>0 DEF TypeOK
  <2>3. \A i \in DOMAIN ops[t] : ~ (i < cur[t])
    BY <2>1, <2>2
  <2> QED
    BY <1>0, <2>1, <2>3 DEF TypeOK, InsertedIsIndexed
<1>6. ASSUME NEW t \in Tx, ApplyOp(t) PROVE InsertedIsIndexed'
  <2>1. /\ pc[t] = "apply" /\ pkIndex' = pkIndex /\ ops' = ops
        /\ \A u \in Tx \ {t} : pc'[u] = pc[u] /\ cur'[u] = cur[u]
        /\ \/ cur' = cur
           \/ ops[t][cur[t]].kind # "insert" /\ cur'[t] = cur[t] + 1
    BY <1>0, <1>6 DEF ApplyOp, Goto, TypeOK
  <2>2. cur[t] \in Nat /\ \A i \in DOMAIN ops[t] : i \in Nat
    BY <1>0 DEF TypeOK
  <2> QED
    BY <1>0, <2>1, <2>2 DEF InsertedIsIndexed
<1>7. ASSUME NEW t \in Tx, IndexInsert(t) PROVE InsertedIsIndexed'
  <2>1. /\ pc[t] = "index" /\ pkIndex' = pkIndex \cup {ops[t][cur[t]].row} /\ ops' = ops
        /\ \A u \in Tx \ {t} : pc'[u] = pc[u] /\ cur'[u] = cur[u]
        /\ cur'[t] = cur[t] + 1
    BY <1>0, <1>7 DEF IndexInsert, Goto, TypeOK
  <2>2. cur[t] \in Nat /\ \A i \in DOMAIN ops[t] : i \in Nat
    BY <1>0 DEF TypeOK
  <2> QED
    BY <1>0, <2>1, <2>2 DEF InsertedIsIndexed
<1>8. ASSUME NEW t \in Tx,
             \/ LogFails(t) \/ Applied(t) \/ Release(t) \/ Unsnap(t) \/ ComputeHorizon(t)
             \/ Sweep(t) \/ SkipSweep(t) \/ CommitReturns(t)
      PROVE  InsertedIsIndexed'
  <2>1. pkIndex' = pkIndex /\ ops' = ops /\ ~ Applying(t)'
        /\ \A u \in Tx \ {t} : pc'[u] = pc[u] /\ cur'[u] = cur[u]
    BY <1>0, <1>8 DEF LogFails, Applied, Release, Unsnap, ComputeHorizon, Sweep, SkipSweep,
       CommitReturns, Goto, engine, TypeOK
  <2> QED
    BY <1>1, <2>1
<1>9. CASE UNCHANGED vars
  BY <1>1, <1>9 DEF vars, engine
<1> QED
  BY <1>2, <1>3, <1>4, <1>5, <1>6, <1>7, <1>8, <1>9 DEF Next, Finish

(* An UPDATE is written only after a look at the locked row, so the row was
   inserted before: by this transaction, or by one that has indexed it. *)
LEMMA UpdatesFollowInsertsStep ==
    ASSUME Indexing, [Next]_vars
    PROVE  UpdatesFollowInserts'
<1>0. TypeOK /\ Starts /\ UpdatesFollowInserts
  BY DEF Indexing, Typed
<1>1. ASSUME pkIndex \subseteq pkIndex',
             \A t \in Tx : \/ ops'[t] = ops[t] /\ (pc'[t] \in Locking => pc[t] \in Locking)
                          \/ ops'[t] = <<>>
      PROVE  UpdatesFollowInserts'
  BY <1>0, <1>1 DEF UpdatesFollowInserts
<1>2. ASSUME NEW t \in Tx, Begin(t) \/ Commit(t) \/ Abort(t) PROVE UpdatesFollowInserts'
  BY <1>0, <1>1, <1>2
  DEF Begin, BeginLoad, BeginRegister, Commit, Abort, Goto, TypeOK, Starts, Locking
<1>3. ASSUME NEW t \in Tx, NEW op \in Op, Write(t, op) PROVE UpdatesFollowInserts'
  <2> DEFINE r == op.row
  <2>1. /\ r \in Row /\ owner[r] \in {NoTx, t} /\ pc[t] = "active" /\ pc' = pc
        /\ ClientMayWrite(t, op) /\ pkIndex' = pkIndex
        /\ ops' = [ops EXCEPT ![t] = Append(@, op)]
    BY <1>3 DEF Write, Lock!Acquire, Op
  <2>2. /\ ops'[t] = Append(ops[t], op) /\ \A u \in Tx \ {t} : ops'[u] = ops[u]
        /\ ops[t] \in Seq(Op)
    BY <1>0, <2>1 DEF TypeOK
  <2>3. /\ DOMAIN ops'[t] = 1 .. Len(ops[t]) + 1 /\ DOMAIN ops[t] = 1 .. Len(ops[t])
        /\ \A i \in DOMAIN ops[t] : ops'[t][i] = ops[t][i]
        /\ ops'[t][Len(ops[t]) + 1] = op
    BY <2>2
  <2>4. ASSUME op.kind = "update"
        PROVE  r \in pkIndex \/ \E j \in DOMAIN ops[t] : ops[t][j].kind = "insert"
                                                      /\ ops[t][j].row = r
    <3>1. LockedValue(t, r) # NoRow
      BY <2>1, <2>4 DEF ClientMayWrite
    <3>2. CASE OwnOps(t, r) # {}
      <4>1. PICK i \in OwnOps(t, r) : LastOwnOp(t, r) = ops[t][i]
        BY <1>0, <2>1, <3>2, LastOwnOpExists
      <4>2. i \in DOMAIN ops[t] /\ ops[t][i] \in Op /\ ops[t][i].row = r
        BY <2>2, <4>1 DEF OwnOps
      <4>3. ops[t][i].kind \in {"insert", "update"}
        BY <3>1, <3>2, <4>1, <4>2 DEF LockedValue, Op
      <4> QED
        BY <1>0, <2>1, <4>2, <4>3 DEF UpdatesFollowInserts, Locking
    <3>3. CASE OwnOps(t, r) = {}
      <4>1. Read(chain[r], clock) # NoRow
        BY <3>1, <3>3 DEF LockedValue
      <4>2. chain[r].versions # {}
        BY <4>1 DEF Read, Visible
      <4>3. ~ \E u \in Tx : pc[u] = "index" /\ ops[u][cur[u]].row = r
        BY <2>1, IndexingOwns, NoTxAssumption DEF Indexing
      <4> QED
        BY <2>1, <4>2, <4>3 DEF Indexing, PkIndexComplete
    <3> QED
      BY <3>2, <3>3
  <2> SUFFICES ASSUME NEW u \in Tx, pc[u] \in Locking, NEW i \in DOMAIN ops'[u],
                      ops'[u][i].kind = "update"
               PROVE  \/ ops'[u][i].row \in pkIndex
                      \/ \E j \in DOMAIN ops'[u] : /\ j < i /\ ops'[u][j].kind = "insert"
                                                   /\ ops'[u][j].row = ops'[u][i].row
    BY <2>1 DEF UpdatesFollowInserts
  <2>5. CASE u # t
    BY <1>0, <2>2, <2>5 DEF UpdatesFollowInserts
  <2>6. CASE u = t /\ i \in DOMAIN ops[t]
    BY <1>0, <2>1, <2>3, <2>6 DEF UpdatesFollowInserts, Locking
  <2>7. CASE u = t /\ i = Len(ops[t]) + 1
    <3>1. ops'[u][i] = op /\ \A j \in DOMAIN ops[t] : j < i /\ j \in DOMAIN ops'[u]
      BY <2>2, <2>3, <2>7
    <3> QED
      BY <2>3, <2>4, <2>7, <3>1
  <2> QED
    BY <2>2, <2>3, <2>5, <2>6, <2>7
<1>4. ASSUME NEW t \in Tx, NEW r \in Row, LockRow(t, r) PROVE UpdatesFollowInserts'
  BY <1>1, <1>4 DEF LockRow
<1>5. ASSUME NEW t \in Tx, Finish(t) PROVE UpdatesFollowInserts'
  <2>1. ops' = ops /\ pkIndex \subseteq pkIndex'
    BY <1>5 DEF Finish, LogWrites, LogFails, ApplyOp, IndexInsert, Applied, Release, Unsnap,
       ComputeHorizon, Sweep, SkipSweep, CommitReturns, engine
  <2>2. \A u \in Tx : pc'[u] \in Locking => pc[u] \in Locking
    BY <1>0, <1>5 DEF Finish, LogWrites, LogFails, ApplyOp, IndexInsert, Applied, Release,
       Unsnap, ComputeHorizon, Sweep, SkipSweep, CommitReturns, Goto, Locking, TypeOK
  <2> QED
    BY <1>1, <2>1, <2>2
<1>6. CASE UNCHANGED vars
  BY <1>1, <1>6 DEF vars, engine
<1> QED
  BY <1>2, <1>3, <1>4, <1>5, <1>6 DEF Next

(* An op that is no insert gives versions only to a chain that has some. *)
LEMMA ExpireAddsNothing ==
    ASSUME NEW c \in VersionChain, PosBounded(c), NEW ts \in Ts, c.versions = {}
    PROVE  ExpireLive(c, ts) = c
BY DEF ExpireLive

LEMMA PkIndexCompleteStep ==
    ASSUME Indexing, [Next]_vars
    PROVE  PkIndexComplete'
<1>0. TypeOK /\ Starts /\ PkIndexComplete /\ Typed /\ WritesAreOwned
  BY DEF Indexing, Typed
<1> DEFINE Pending(r) == \E u \in Tx : pc[u] = "index" /\ ops[u][cur[u]].row = r
<1>a. \A r \in Row : r \in pkIndex \/ chain[r].versions = {} \/ Pending(r)
  BY <1>0 DEF PkIndexComplete
<1>b. ASSUME \A r \in Row : r \in pkIndex' \/ chain'[r].versions = {} \/ Pending(r)'
      PROVE  PkIndexComplete'
  BY <1>b DEF PkIndexComplete
<1> HIDE DEF Pending
<1>1. ASSUME pkIndex \subseteq pkIndex',
             \A r \in Row : chain'[r].versions \subseteq chain[r].versions,
             \A r \in Row : Pending(r) => Pending(r)'
      PROVE  PkIndexComplete'
  BY <1>1, <1>a, <1>b
<1>2. ASSUME NEW t \in Tx, pc[t] # "index",
             \A u \in Tx \ {t} : ops'[u] = ops[u] /\ pc'[u] = pc[u] /\ cur'[u] = cur[u]
      PROVE  \A r \in Row : Pending(r) => Pending(r)'
  BY <1>2 DEF Pending
<1>3. ASSUME NEW t \in Tx, Begin(t) \/ Commit(t) \/ Abort(t) PROVE PkIndexComplete'
  BY <1>0, <1>1, <1>2, <1>3 DEF Begin, BeginLoad, BeginRegister, Commit, Abort, Goto, TypeOK
<1>4. ASSUME NEW t \in Tx, NEW op \in Op, Write(t, op) PROVE PkIndexComplete'
  BY <1>0, <1>1, <1>2, <1>4 DEF Write, TypeOK
<1>5. ASSUME NEW t \in Tx, NEW r \in Row, LockRow(t, r) PROVE PkIndexComplete'
  BY <1>0, <1>1, <1>2, <1>5 DEF LockRow, TypeOK
<1>6. ASSUME NEW t \in Tx, ApplyOp(t) PROVE PkIndexComplete'
  <2> DEFINE op == ops[t][cur[t]]
  <2>1. /\ pc[t] = "apply" /\ cur[t] \in DOMAIN ops[t] /\ op \in Op /\ op.row \in Row
        /\ cts[t] \in Ts /\ chain[op.row] \in VersionChain /\ PosBounded(chain[op.row])
    BY <1>0, <1>6, CurrentOp DEF ApplyOp, TypeOK, Typed, ChainsBounded
  <2>2. /\ pkIndex' = pkIndex /\ ops' = ops
        /\ chain' = [chain EXCEPT ![op.row] = Apply(chain[op.row], op, cts[t])]
        /\ \A u \in Tx \ {t} : pc'[u] = pc[u] /\ cur'[u] = cur[u]
    BY <1>0, <1>6 DEF ApplyOp, Goto, TypeOK
  <2>3. op.kind = "insert" => pc'[t] = "index" /\ cur'[t] = cur[t]
    BY <1>0, <1>6 DEF ApplyOp, Goto, TypeOK
  <2>4. \A r \in Row : Pending(r) => Pending(r)'
    BY <1>2, <2>1, <2>2
  <2>5. PICK r \in Row : r = op.row
    BY <2>1
  <2>6. r \in pkIndex \/ chain'[r].versions = {} \/ Pending(r)'
    <3>1. CASE op.kind = "insert"
      BY <2>2, <2>3, <2>5, <3>1 DEF Pending
    <3>2. CASE op.kind = "update"
      BY <1>0, <2>1, <2>5, <3>2 DEF Indexing, UpdatesFollowInserts, InsertedIsIndexed, Locking
    <3>3. CASE op.kind = "delete"
      <4>1. chain'[r] = ExpireLive(chain[r], cts[t])
        BY <1>0, <2>1, <2>2, <2>5, <3>3 DEF TypeOK, Apply
      <4> QED
        BY <1>a, <2>1, <2>4, <2>5, <4>1, ExpireAddsNothing
    <3> QED
      BY <2>1, <3>1, <3>2, <3>3 DEF Op
  <2>7. \A q \in Row \ {r} : chain'[q] = chain[q]
    BY <1>0, <2>2, <2>5 DEF TypeOK
  <2>8. pkIndex' = pkIndex
    BY <2>2
  <2>9. \A q \in Row : q \in pkIndex' \/ chain'[q].versions = {} \/ Pending(q)'
    BY <1>a, <2>4, <2>6, <2>7, <2>8
  <2> QED
    BY <1>b, <2>9
<1>7. ASSUME NEW t \in Tx, IndexInsert(t) PROVE PkIndexComplete'
  <2>1. /\ pkIndex' = pkIndex \cup {ops[t][cur[t]].row} /\ chain' = chain /\ ops' = ops
        /\ \A u \in Tx \ {t} : pc'[u] = pc[u] /\ cur'[u] = cur[u]
    BY <1>0, <1>7 DEF IndexInsert, Goto, TypeOK
  <2>2. \A r \in Row : Pending(r) => r \in pkIndex' \/ Pending(r)'
    BY <2>1 DEF Pending
  <2>3. \A r \in Row : r \in pkIndex' \/ chain'[r].versions = {} \/ Pending(r)'
    BY <1>a, <2>1, <2>2
  <2> QED
    BY <1>b, <2>3
<1>8. ASSUME NEW t \in Tx,
             \/ LogWrites(t) \/ LogFails(t) \/ Applied(t) \/ Release(t) \/ Unsnap(t)
             \/ ComputeHorizon(t) \/ SkipSweep(t) \/ CommitReturns(t)
      PROVE  PkIndexComplete'
  <2>1. /\ pkIndex' = pkIndex /\ ops' = ops /\ chain' = chain /\ pc[t] # "index"
        /\ \A u \in Tx \ {t} : pc'[u] = pc[u] /\ cur'[u] = cur[u]
    BY <1>0, <1>8 DEF LogWrites, LogFails, Applied, Release, Unsnap, ComputeHorizon,
       SkipSweep, CommitReturns, Goto, engine, TypeOK
  <2> QED
    BY <1>1, <1>2, <2>1
<1>9. ASSUME NEW t \in Tx, Sweep(t) PROVE PkIndexComplete'
  <2>1. /\ pkIndex' = pkIndex /\ ops' = ops /\ pc' = pc /\ pc[t] # "index"
        /\ \A u \in Tx \ {t} : cur'[u] = cur[u]
    BY <1>0, <1>9 DEF Sweep, TypeOK
  <2>2. \A r \in Row : chain'[r].versions \subseteq chain[r].versions
    <3>1. \A r \in Row : chain'[r] = chain[r] \/ chain'[r] = Prune(chain[r], horizon[t])
      BY <1>0, <1>9 DEF Sweep, TypeOK
    <3>2. \A r \in Row : Prune(chain[r], horizon[t]).versions \subseteq chain[r].versions
      BY <1>0 DEF Prune, TypeOK, VersionChain
    <3> QED
      BY <3>1, <3>2
  <2> QED
    BY <1>1, <1>2, <2>1, <2>2
<1>10. CASE UNCHANGED vars
  <2>1. \A r \in Row : Pending(r) => Pending(r)'
    BY <1>10 DEF vars, engine, Pending
  <2> QED
    BY <1>1, <1>10, <2>1 DEF vars, engine
<1> QED
  BY <1>3, <1>4, <1>5, <1>6, <1>7, <1>8, <1>9, <1>10 DEF Next, Finish

LEMMA IndexingStep ==
    ASSUME Indexing, SnapshotsArePast, [Next]_vars
    PROVE  Indexing'
<1>1. Typed' /\ Starts'
  BY TypedStep, StartsStep DEF Indexing, Typed
<1>2. WritesAreOwned'
  BY OwnedUntilRelease DEF Indexing, Starts
<1> QED
  BY <1>1, <1>2, InsertedIsIndexedStep, UpdatesFollowInsertsStep, PkIndexCompleteStep
  DEF Indexing

LEMMA IndexingInvariant == Spec => []Indexing
<1>1. Init => Indexing
  <2>1. Init => /\ Starts /\ WritesAreOwned /\ InsertedIsIndexed /\ UpdatesFollowInserts
                /\ PkIndexComplete
    BY DEF Init, Starts, WritesAreOwned, InsertedIsIndexed, UpdatesFollowInserts,
       PkIndexComplete, EmptyChain, Locking
  <2> QED
    BY <2>1, InitTyped DEF Indexing
<1>2. Indexing /\ SnapshotsArePast /\ [Next]_vars => Indexing'
  BY IndexingStep
<1> QED
  BY <1>1, <1>2, TypedAlways, PTL DEF Spec

(* Whatever INSERT, UPDATE and DELETE, commits and sweeps do to the chains,
   and in whatever order, a row with versions is in the primary-key index,
   or its INSERT is between its two halves. *)
THEOREM IndexMissesNothing == Spec => []PkIndexComplete
<1>1. Indexing => PkIndexComplete
  BY DEF Indexing
<1> QED
  BY <1>1, IndexingInvariant, PTL

------------------------------------------------------------------------------
(* Reads.  The inductive invariant: what is in a chain is what was applied to
   it, and an INSERT to come finds the row gone. *)
Reading == /\ SweepInv /\ Stages /\ WritesAreOwned /\ CommittersAreLatest
           /\ InsertsFindNothing /\ ChainsAreDisjoint /\ ChainsArePast /\ ReadsAreExact

LEMMA AppliedHasStamp ==
    ASSUME TypeOK, Stages, NEW u \in Tx, NEW r \in Row, Done(u, r) # {}
    PROVE  /\ AppliedCount(u) # 0 /\ cts[u] # 0 /\ cts[u] <= clock
           /\ Writes(u, r)
<1>1. \A i \in OwnOps(u, r) : i \in Nat /\ i >= 1
  BY DEF OwnOps, TypeOK
<1>2. PICK i \in OwnOps(u, r) : i <= AppliedCount(u)
  BY DEF Done
<1>3. AppliedCount(u) # 0
  BY <1>1, <1>2
<1>4. status[u] = "committed" \/ pc[u] \in {"apply", "index"}
  BY <1>3 DEF AppliedCount
<1> QED
  BY <1>2, <1>3, <1>4 DEF Stages, Writes

(* Every step but ApplyOp leaves alone what has been applied ... *)
LEMMA CountsStay ==
    ASSUME Typed, Stages, [Next]_vars, ~ \E t \in Tx : ApplyOp(t)
    PROVE  \A u \in Tx : /\ AppliedCount(u)' = AppliedCount(u)
                         /\ (ops'[u] = ops[u] /\ cts'[u] = cts[u]) \/ AppliedCount(u) = 0
<1>0. TypeOK /\ IndexPending
  BY DEF Typed
<1> DEFINE Stay(u) == /\ AppliedCount(u)' = AppliedCount(u)
                      /\ (ops'[u] = ops[u] /\ cts'[u] = cts[u]) \/ AppliedCount(u) = 0
<1>1. ASSUME NEW u \in Tx,
             (ops'[u] = ops[u] /\ cts'[u] = cts[u]) \/ pc[u] = "active",
             pc'[u] = pc[u] \/ {pc[u], pc'[u]} \cap {"apply", "index"} = {},
             cur'[u] = cur[u] \/ pc[u] \notin {"apply", "index"},
             (status'[u] = "committed") <=> (status[u] = "committed")
      PROVE  Stay(u)
  BY <1>0, <1>1 DEF AppliedCount, Stages
<1> HIDE DEF Stay
<1>2. ASSUME NEW t \in Tx, Begin(t) PROVE \A u \in Tx : Stay(u)
  BY <1>0, <1>1, <1>2 DEF Begin, BeginLoad, BeginRegister, Goto, Stages, TypeOK
<1>3. ASSUME NEW t \in Tx, NEW op \in Op, Write(t, op) PROVE \A u \in Tx : Stay(u)
  BY <1>0, <1>1, <1>3 DEF Write, TypeOK
<1>4. ASSUME NEW t \in Tx, NEW r \in Row, LockRow(t, r) PROVE \A u \in Tx : Stay(u)
  BY <1>0, <1>1, <1>4 DEF LockRow, TypeOK
<1>5. ASSUME NEW t \in Tx, Commit(t) \/ Abort(t) PROVE \A u \in Tx : Stay(u)
  BY <1>0, <1>1, <1>5 DEF Commit, Abort, Goto, Stages, TypeOK
<1>6. ASSUME NEW t \in Tx, LogWrites(t) PROVE \A u \in Tx : Stay(u)
  <2>1. Stay(t)
    BY <1>0, <1>6 DEF LogWrites, engine, Goto, Stages, TypeOK, Stay, AppliedCount
  <2>2. \A u \in Tx \ {t} : Stay(u)
    BY <1>0, <1>1, <1>6 DEF LogWrites, engine, Goto, TypeOK
  <2> QED
    BY <2>1, <2>2
<1>7. ASSUME NEW t \in Tx, LogFails(t) PROVE \A u \in Tx : Stay(u)
  BY <1>0, <1>1, <1>7 DEF LogFails, Goto, Stages, TypeOK
<1>8. ASSUME NEW t \in Tx, IndexInsert(t) PROVE \A u \in Tx : Stay(u)
  <2>1. Stay(t)
    BY <1>0, <1>8 DEF IndexInsert, Goto, Stages, TypeOK, Stay, AppliedCount
  <2>2. \A u \in Tx \ {t} : Stay(u)
    BY <1>0, <1>1, <1>8 DEF IndexInsert, Goto, TypeOK
  <2> QED
    BY <2>1, <2>2
<1>9. ASSUME NEW t \in Tx, Applied(t) PROVE \A u \in Tx : Stay(u)
  <2>1. Stay(t)
    <3>1. cur[t] - 1 = Len(ops[t])
      BY <1>0, <1>9 DEF Applied, Stages, TypeOK
    <3> QED
      BY <1>0, <1>9, <3>1 DEF Applied, Goto, Stages, TypeOK, Stay, AppliedCount
  <2>2. \A u \in Tx \ {t} : Stay(u)
    BY <1>0, <1>1, <1>9 DEF Applied, Goto, TypeOK
  <2> QED
    BY <2>1, <2>2
<1>10. ASSUME NEW t \in Tx,
              \/ Release(t) \/ Unsnap(t) \/ ComputeHorizon(t)
              \/ Sweep(t) \/ SkipSweep(t) \/ CommitReturns(t)
       PROVE  \A u \in Tx : Stay(u)
  <2>1. /\ ops' = ops /\ cts' = cts /\ status' = status
        /\ \A u \in Tx \ {t} : (pc'[u] = pc[u] /\ cur'[u] = cur[u]) \/ Stay(u)
        /\ {pc[t], pc'[t]} \cap {"apply", "index"} = {}
    <3>1. CASE ComputeHorizon(t)
      BY <1>0, <3>1 DEF ComputeHorizon, Goto, engine, TypeOK
    <3>2. CASE Release(t) \/ Unsnap(t) \/ Sweep(t) \/ SkipSweep(t) \/ CommitReturns(t)
      BY <1>0, <3>2 DEF Release, Unsnap, Sweep, SkipSweep, CommitReturns, Goto, engine, TypeOK
    <3> QED
      BY <1>10, <3>1, <3>2
  <2> QED
    BY <1>0, <1>1, <2>1
<1>11. ASSUME UNCHANGED vars PROVE \A u \in Tx : Stay(u)
  BY <1>1, <1>11 DEF vars, engine
<1>12. \A u \in Tx : Stay(u)
  BY <1>2, <1>3, <1>4, <1>5, <1>6, <1>7, <1>8, <1>9, <1>10, <1>11 DEF Next, Finish
<1> QED
  BY <1>12 DEF Stay

LEMMA DoneStays ==
    ASSUME Typed, SnapshotsArePast, Stages, [Next]_vars, ~ \E t \in Tx : ApplyOp(t)
    PROVE  \A u \in Tx, r \in Row :
               /\ Done(u, r)' = Done(u, r)
               /\ Done(u, r) # {} => ops'[u] = ops[u] /\ cts'[u] = cts[u]
<1> SUFFICES ASSUME NEW u \in Tx, NEW r \in Row
             PROVE  /\ Done(u, r)' = Done(u, r)
                    /\ Done(u, r) # {} => ops'[u] = ops[u] /\ cts'[u] = cts[u]
  OBVIOUS
<1>1. AppliedCount(u)' = AppliedCount(u)
  BY CountsStay
<1>2. CASE ops'[u] = ops[u] /\ cts'[u] = cts[u]
  BY <1>1, <1>2 DEF Done, OwnOps
<1>3. CASE AppliedCount(u) = 0
  <2>1. Done(u, r) = {}
    BY <1>3, AppliedHasStamp DEF Typed
  <2>2. ops'[u] \in Seq(Op)
    BY TypedStep DEF Typed, TypeOK
  <2>3. Done(u, r)' = {}
    BY <1>1, <1>3, <2>2 DEF Done, OwnOps
  <2> QED
    BY <2>1, <2>3
<1> QED
  BY <1>2, <1>3, CountsStay

(* ... no step adds a protected timestamp ... *)
LEMMA ProtectedStays ==
    ASSUME Typed, SnapshotsArePast, [Next]_vars, NEW s \in Ts, Protected(s)'
    PROVE  Protected(s)
<1>0. TypeOK /\ clock \in Nat
  BY DEF Typed, TypeOK, Ts
<1>1. ASSUME clock <= clock',
             \A t \in Tx : (/\ pc'[t] \in Registered \cup {"loaded"}
                           /\ ~ overtaken'[t])
                 => \/ /\ pc[t] \in Registered \cup {"loaded"}
                       /\ ~ overtaken[t] /\ snap'[t] = snap[t]
                    \/ snap'[t] = clock
      PROVE  Protected(s)
  <2>1. CASE clock' <= s
    <3>1. clock' \in Nat /\ s \in Nat
      BY <1>1, <2>1, TypedStep DEF Typed, TypeOK, Ts
    <3> QED
      BY <1>0, <1>1, <2>1, <3>1 DEF Protected
  <2>2. CASE \E t \in Tx : /\ pc'[t] \in Registered \cup {"loaded"}
                           /\ ~ overtaken'[t] /\ snap'[t] <= s
    BY <1>1, <2>2 DEF Protected
  <2> QED
    BY <2>1, <2>2 DEF Protected
<1> USE DEF Goto, Registered
<1>2. ASSUME NEW t \in Tx, Begin(t) PROVE Protected(s)
  BY <1>0, <1>1, <1>2 DEF Begin, BeginLoad, BeginRegister, TypeOK
<1>3. ASSUME NEW t \in Tx, NEW op \in Op, Write(t, op) PROVE Protected(s)
  BY <1>0, <1>1, <1>3 DEF Write
<1>4. ASSUME NEW t \in Tx, NEW r \in Row, LockRow(t, r) PROVE Protected(s)
  BY <1>0, <1>1, <1>4 DEF LockRow
<1>5. ASSUME NEW t \in Tx, Commit(t) \/ Abort(t) PROVE Protected(s)
  BY <1>0, <1>1, <1>5 DEF Commit, Abort, TypeOK
<1>6. ASSUME NEW t \in Tx, LogWrites(t) \/ LogFails(t) \/ ApplyOp(t) \/ IndexInsert(t)
      PROVE  Protected(s)
  BY <1>0, <1>1, <1>6 DEF LogWrites, LogFails, ApplyOp, IndexInsert, engine, TypeOK
<1>7. ASSUME NEW t \in Tx, Applied(t) \/ Release(t) \/ Unsnap(t) PROVE Protected(s)
  BY <1>0, <1>1, <1>7 DEF Applied, Release, Unsnap, TypeOK
<1>8. ASSUME NEW t \in Tx, ComputeHorizon(t) PROVE Protected(s)
  BY <1>0, <1>1, <1>8 DEF ComputeHorizon, engine, TypeOK
<1>9. ASSUME NEW t \in Tx, Sweep(t) \/ SkipSweep(t) \/ CommitReturns(t) PROVE Protected(s)
  BY <1>0, <1>1, <1>9 DEF Sweep, SkipSweep, CommitReturns, engine, TypeOK
<1>10. CASE UNCHANGED vars
  BY <1>0, <1>1, <1>10 DEF vars, engine
<1> QED
  BY <1>2, <1>3, <1>4, <1>5, <1>6, <1>7, <1>8, <1>9, <1>10 DEF Next, Finish

(* ... and a chain only ever loses versions that no protected timestamp sees. *)
LEMMA ReadsStay ==
    ASSUME SweepInv, [Next]_vars, ~ \E t \in Tx : ApplyOp(t)
    PROVE  \A r \in Row :
               /\ chain'[r].versions \subseteq chain[r].versions
               /\ NoneLive(chain[r]) => NoneLive(chain'[r])
               /\ \A s \in Ts : Protected(s) => Read(chain'[r], s) = Read(chain[r], s)
<1>0. TypeOK
  BY DEF SweepInv, Typed
<1>1. CASE chain' = chain
  BY <1>1
<1>2. ASSUME NEW u \in Tx, Sweep(u), NEW r \in Row
      PROVE  /\ chain'[r].versions \subseteq chain[r].versions
             /\ NoneLive(chain[r]) => NoneLive(chain'[r])
             /\ \A s \in Ts : Protected(s) => Read(chain'[r], s) = Read(chain[r], s)
  <2>1. chain'[r] = chain[r] \/ chain'[r] = Prune(chain[r], horizon[u])
    BY <1>0, <1>2 DEF Sweep, TypeOK
  <2>2. chain[r] \in VersionChain /\ horizon[u] \in Ts
    BY <1>0 DEF TypeOK
  <2>3. Prune(chain[r], horizon[u]).versions \subseteq chain[r].versions
    BY <2>2 DEF Prune, VersionChain
  <2>4. ASSUME NEW s \in Ts, Protected(s) PROVE horizon[u] <= s
    <3>1. /\ horizon[u] <= clock
          /\ \A t \in Tx : pc[t] \in Registered \cup {"loaded"} /\ ~ overtaken[t]
                            => horizon[u] <= snap[t]
      BY <1>2 DEF Sweep, SweepInv, HorizonsAreLow
    <3>2. horizon[u] \in Nat /\ clock \in Nat /\ s \in Nat
          /\ \A t \in Tx : snap[t] \in Nat
      BY <1>0 DEF TypeOK, Ts
    <3> QED
      BY <2>4, <3>1, <3>2 DEF Protected
  <2>5. \A s \in Ts : Protected(s) => Read(chain'[r], s) = Read(chain[r], s)
    BY <2>1, <2>2, <2>4, PruneKeepsReads
  <2> QED
    BY <2>1, <2>3, <2>5 DEF NoneLive
<1>3. chain' = chain \/ \E u \in Tx : Sweep(u)
  BY DEF Next, Begin, BeginLoad, BeginRegister, Write, LockRow, Commit, Abort, Finish,
     LogWrites, LogFails, IndexInsert, Applied, Release, Unsnap, ComputeHorizon, SkipSweep,
     CommitReturns, vars, engine
<1> QED
  BY <1>1, <1>2, <1>3

(* So between two applications nothing of the invariant is disturbed. *)
LEMMA ReadingStays ==
    ASSUME Reading, [Next]_vars, ~ \E t \in Tx : ApplyOp(t)
    PROVE  ChainsAreDisjoint' /\ ChainsArePast' /\ ReadsAreExact'
<1>0. Typed /\ TypeOK /\ SweepInv /\ SnapshotsArePast /\ Stages
  BY DEF Reading, SweepInv, Typed
<1>1. ChainsAreDisjoint'
  BY <1>0, ReadsStay DEF Reading, ChainsAreDisjoint, Disjoint
<1>2. ChainsArePast'
  <2> SUFFICES ASSUME NEW r \in Row, NEW v \in chain'[r].versions
               PROVE  \E u \in Tx : /\ Done(u, r)' # {}
                                    /\ v.begin_ts <= cts'[u]
                                    /\ v.end_ts <= cts'[u] \/ v.end_ts = TS_INFINITY
    BY DEF ChainsArePast
  <2>1. PICK u \in Tx : /\ Done(u, r) # {}
                        /\ v.begin_ts <= cts[u]
                        /\ v.end_ts <= cts[u] \/ v.end_ts = TS_INFINITY
    BY <1>0, ReadsStay DEF Reading, ChainsArePast
  <2> QED
    BY <1>0, <2>1, DoneStays
<1>3. ReadsAreExact'
  <2> SUFFICES ASSUME NEW r \in Row, NEW s \in Ts, Protected(s)' PROVE Exact(r, s)'
    BY DEF ReadsAreExact
  <2>1. Protected(s) /\ Exact(r, s)
    BY <1>0, ProtectedStays DEF Reading, ReadsAreExact
  <2>2. Read(chain'[r], s) = Read(chain[r], s)
    BY <1>0, <2>1, ReadsStay
  <2>3. AppliedBy(r, s)' = AppliedBy(r, s)
    BY <1>0, DoneStays DEF AppliedBy
  <2>4. \A u \in AppliedBy(r, s) : /\ u \in Tx /\ Done(u, r)' = Done(u, r)
                                   /\ ops'[u] = ops[u] /\ cts'[u] = cts[u]
    BY <1>0, DoneStays DEF AppliedBy
  <2> QED
    BY <2>1, <2>2, <2>3, <2>4 DEF Exact
<1> QED
  BY <1>1, <1>2, <1>3

(* What ApplyOp finds: everything applied to the row before is older, and an
   INSERT finds no live version. *)
LEMMA ApplyOpFinds ==
    ASSUME Reading, NEW t \in Tx, ApplyOp(t), NEW k, k = cur[t], NEW op, op = ops[t][k],
           NEW r, r = op.row
    PROVE  /\ r \in Row /\ op \in Op /\ cts[t] \in Ts /\ k \in OwnOps(t, r) /\ k \in Nat
           /\ chain[r] \in VersionChain /\ PosBounded(chain[r]) /\ Disjoint(chain[r])
           /\ UpTo(chain[r], cts[t])
           /\ Done(t, r) = {j \in OwnOps(t, r) : j < k}
           /\ \A u \in Tx : Done(u, r) # {} => u = t \/ cts[u] < cts[t]
           /\ op.kind = "insert" => NoneLive(chain[r])
<1>0. /\ Typed /\ TypeOK /\ Stages /\ pc[t] = "apply" /\ status[t] # "committed"
      /\ cts[t] <= clock /\ clock \in Ts
  BY DEF Reading, SweepInv, Typed, TypeOK, ApplyOp, Stages
<1>1. /\ r \in Row /\ op \in Op /\ cts[t] \in Ts /\ k \in OwnOps(t, r) /\ k \in Nat
      /\ chain[r] \in VersionChain /\ PosBounded(chain[r]) /\ Disjoint(chain[r])
  <2>1. k \in DOMAIN ops[t] /\ op \in Op /\ r \in Row
    BY <1>0, CurrentOp DEF ApplyOp
  <2> QED
    BY <1>0, <2>1 DEF OwnOps, TypeOK, Typed, ChainsBounded, Reading, ChainsAreDisjoint
<1>2. AppliedCount(t) = k - 1
  BY <1>0 DEF AppliedCount
<1>3. Done(t, r) = {j \in OwnOps(t, r) : j < k}
  <2>1. \A j \in OwnOps(t, r) : j <= k - 1 <=> j < k
    BY <1>0, <1>1 DEF OwnOps, TypeOK
  <2> QED
    BY <1>1, <1>2, <2>1 DEF Done
<1>4. \A u \in Tx : Done(u, r) # {} => u = t \/ cts[u] < cts[t]
  <2> SUFFICES ASSUME NEW u \in Tx, Done(u, r) # {}, u # t PROVE cts[u] < cts[t]
    OBVIOUS
  <2>1. cts[u] # 0 /\ Writes(u, r)
    BY <1>0, <1>1, AppliedHasStamp
  <2>2. Writes(t, r)
    BY <1>1 DEF Writes
  <2> QED
    BY <1>0, <1>1, <2>1, <2>2 DEF Reading, CommittersAreLatest
<1>5. UpTo(chain[r], cts[t])
  <2> SUFFICES ASSUME NEW v \in chain[r].versions
               PROVE  /\ v.begin_ts <= cts[t]
                      /\ v.end_ts <= cts[t] \/ v.end_ts = TS_INFINITY
    BY DEF UpTo
  <2>1. PICK u \in Tx : /\ Done(u, r) # {}
                        /\ v.begin_ts <= cts[u]
                        /\ v.end_ts <= cts[u] \/ v.end_ts = TS_INFINITY
    BY <1>1 DEF Reading, ChainsArePast
  <2>2. v \in RowVersion
    BY <1>1 DEF VersionChain
  <2>3. cts[u] \in Ts
    BY <1>0 DEF TypeOK
  <2>4. v.begin_ts \in Nat /\ v.end_ts \in Nat /\ cts[u] \in Nat /\ cts[t] \in Nat
    BY <1>1, <2>2, <2>3, MaxTsAssumption DEF RowVersion, Ts, TS_INFINITY
  <2> QED
    BY <1>4, <2>1, <2>4
<1>6. ASSUME op.kind = "insert" PROVE NoneLive(chain[r])
  <2> DEFINE before == {j \in OwnOps(t, r) : j < k}
  <2>1. k \in DOMAIN ops[t] /\ ops[t][k].kind = "insert" /\ ops[t][k].row = r
    BY <1>1, <1>6 DEF OwnOps
  <2>2. CASE before = {}
    <3>1. ~ (k <= AppliedCount(t))
      BY <1>1, <1>2
    <3> QED
      BY <1>0, <2>1, <2>2, <3>1 DEF Reading, InsertsFindNothing
  <2>3. CASE before # {}
    <3>1. PICK j \in before : ops[t][j].kind = "delete" /\ \A i \in before : i <= j
      BY <1>0, <2>1, <2>3 DEF Reading, InsertsFindNothing
    <3>2. ops[t][j].data = NoRow
      <4>1. j \in DOMAIN ops[t] /\ ops[t] \in Seq(Op)
        BY <1>0 DEF OwnOps, TypeOK
      <4> QED
        BY <3>1, <4>1 DEF Op
    <3>3. t \in AppliedBy(r, clock) /\ j \in Done(t, r)
      BY <1>0, <1>3 DEF AppliedBy
    <3>4. Exact(r, clock)
      BY <1>0, <1>1 DEF Reading, ReadsAreExact, Protected, Ts
    <3>5. \A w \in AppliedBy(r, clock) : cts[w] <= cts[t]
      <4>1. \A w \in AppliedBy(r, clock) : w \in Tx /\ (w = t \/ cts[w] < cts[t])
        BY <1>4 DEF AppliedBy
      <4>2. \A w \in Tx : cts[w] \in Nat
        BY <1>0 DEF TypeOK, Ts
      <4> QED
        BY <4>1, <4>2
    <3>6. Read(chain[r], clock) = NoRow
      BY <1>3, <3>1, <3>2, <3>3, <3>4, <3>5 DEF Exact
    <3>7. UpTo(chain[r], clock)
      <4>1. \A v \in chain[r].versions : v.begin_ts \in Nat /\ v.end_ts \in Nat
        BY <1>1, MaxTsAssumption DEF VersionChain, RowVersion, Ts, TS_INFINITY
      <4> QED
        BY <1>0, <1>1, <1>5, <4>1 DEF UpTo, Ts
    <3> QED
      BY <1>0, <1>1, <3>6, <3>7, NothingReadNoneLive
  <2> QED
    BY <2>2, <2>3
<1> QED
  BY <1>1, <1>3, <1>4, <1>5, <1>6

LEMMA ReadingApplies ==
    ASSUME Reading, NEW t \in Tx, ApplyOp(t)
    PROVE  ChainsAreDisjoint' /\ ChainsArePast' /\ ReadsAreExact'
<1>0. TypeOK /\ Typed /\ SnapshotsArePast
  BY DEF Reading, SweepInv, Typed
<1>1. PICK k, op, r : k = cur[t] /\ op = ops[t][k] /\ r = op.row
  OBVIOUS
<1>2. /\ r \in Row /\ op \in Op /\ cts[t] \in Ts /\ k \in OwnOps(t, r) /\ k \in Nat
      /\ chain[r] \in VersionChain /\ PosBounded(chain[r]) /\ Disjoint(chain[r])
      /\ UpTo(chain[r], cts[t])
      /\ op.kind = "insert" => NoneLive(chain[r])
  BY <1>1, ApplyOpFinds
<1>3. /\ Done(t, r) = {j \in OwnOps(t, r) : j < k}
      /\ \A u \in Tx : Done(u, r) # {} => u = t \/ cts[u] < cts[t]
  BY <1>1, ApplyOpFinds
<1>4. /\ ops' = ops /\ cts' = cts /\ status' = status
      /\ chain' = [chain EXCEPT ![r] = Apply(chain[r], op, cts[t])]
      /\ \A u \in Tx \ {t} : pc'[u] = pc[u] /\ cur'[u] = cur[u]
      /\ pc[t] = "apply"
      /\ \/ pc'[t] = "index" /\ cur'[t] = k
         \/ pc'[t] = "apply" /\ cur'[t] = k + 1
  <2>1. /\ ops' = ops /\ cts' = cts /\ status' = status /\ pc[t] = "apply"
        /\ chain' = [chain EXCEPT ![r] = Apply(chain[r], op, cts[t])]
    BY <1>1 DEF ApplyOp
  <2>2. \/ pc' = [pc EXCEPT ![t] = "index"] /\ cur' = cur
        \/ pc' = pc /\ cur' = [cur EXCEPT ![t] = @ + 1]
    BY DEF ApplyOp, Goto
  <2> QED
    BY <1>0, <1>1, <2>1, <2>2 DEF TypeOK
<1>5. AppliedCount(t)' = k /\ AppliedCount(t) = k - 1
      /\ \A u \in Tx \ {t} : AppliedCount(u)' = AppliedCount(u)
  <2>1. status[t] # "committed"
    BY <1>4 DEF Reading, Stages
  <2> QED
    BY <1>1, <1>2, <1>4, <2>1 DEF AppliedCount
<1>6. /\ k \in Done(t, r)' /\ \A i \in Done(t, r)' : i <= k
      /\ \A q \in Row \ {r} : Done(t, q)' = Done(t, q)
      /\ \A u \in Tx \ {t}, q \in Row : Done(u, q)' = Done(u, q)
  <2>1. \A q \in Row \ {r} : \A i \in OwnOps(t, q) : i \in Nat /\ i # k
    BY <1>0, <1>1 DEF OwnOps, TypeOK
  <2>2. \A q \in Row \ {r} : \A i \in OwnOps(t, q) : i <= k <=> i <= k - 1
    BY <1>2, <2>1
  <2> QED
    BY <1>2, <1>4, <1>5, <2>2 DEF Done, OwnOps
<1>7. \A q \in Row \ {r} : chain'[q] = chain[q]
  BY <1>0, <1>4 DEF TypeOK
<1>8. chain'[r] = Apply(chain[r], op, cts[t])
  BY <1>0, <1>2, <1>4 DEF TypeOK
<1>9. UpTo(chain'[r], cts[t]) /\ Disjoint(chain'[r])
  BY <1>2, <1>8, ApplyShape
<1>10. ChainsAreDisjoint'
  <2>1. \A q \in Row : Disjoint(chain'[q])
    BY <1>7, <1>9 DEF Reading, ChainsAreDisjoint
  <2> QED
    BY <2>1 DEF ChainsAreDisjoint, Disjoint
<1>11. ChainsArePast'
  <2> SUFFICES ASSUME NEW q \in Row, NEW v \in chain'[q].versions
               PROVE  \E u \in Tx : /\ Done(u, q)' # {}
                                    /\ v.begin_ts <= cts'[u]
                                    /\ v.end_ts <= cts'[u] \/ v.end_ts = TS_INFINITY
    BY DEF ChainsArePast
  <2>1. CASE q = r
    BY <1>4, <1>6, <1>9, <2>1 DEF UpTo
  <2>2. CASE q # r
    <3>1. PICK u \in Tx : /\ Done(u, q) # {}
                          /\ v.begin_ts <= cts[u]
                          /\ v.end_ts <= cts[u] \/ v.end_ts = TS_INFINITY
      BY <1>7, <2>2 DEF Reading, ChainsArePast
    <3>2. Done(u, q)' = Done(u, q)
      BY <1>6, <2>2
    <3> QED
      BY <1>4, <3>1, <3>2
  <2> QED
    BY <2>1, <2>2
<1>12. ReadsAreExact'
  <2> SUFFICES ASSUME NEW q \in Row, NEW s \in Ts, Protected(s)' PROVE Exact(q, s)'
    BY DEF ReadsAreExact
  <2>1. [Next]_vars
    BY DEF Next, Finish
  <2>2. Exact(q, s)
    BY <1>0, <2>1, ProtectedStays DEF Reading, ReadsAreExact
  <2>3. CASE q = r /\ cts[t] <= s
    <3>1. Read(chain'[r], s) = op.data
      BY <1>2, <1>8, <2>3, ApplyReads
    <3>2. t \in AppliedBy(r, s)'
      BY <1>4, <1>6, <2>3 DEF AppliedBy
    <3>3. ASSUME NEW u \in AppliedBy(r, s)', \A w \in AppliedBy(r, s)' : cts'[w] <= cts'[u]
          PROVE  u = t
      <4>1. cts[t] <= cts[u] /\ u \in Tx /\ cts[u] \in Nat /\ cts[t] \in Nat
        BY <1>0, <1>4, <3>2, <3>3 DEF AppliedBy, TypeOK, Ts
      <4>2. u # t => Done(u, r) # {}
        BY <1>2, <1>6, <3>3 DEF AppliedBy
      <4> QED
        BY <1>3, <4>1, <4>2
    <3>4. ASSUME NEW i \in Done(t, r)', \A j \in Done(t, r)' : j <= i PROVE i = k
      <4>1. i \in Nat /\ i <= k /\ k <= i
        BY <1>0, <1>4, <1>6, <3>4 DEF Done, OwnOps, TypeOK
      <4> QED
        BY <1>2, <4>1
    <3>5. Exact(r, s)'
      BY <1>1, <1>4, <3>1, <3>2, <3>3, <3>4 DEF Exact
    <3> QED
      BY <2>3, <3>5
  <2>4. CASE q # r \/ ~ (cts[t] <= s)
    <3>1. Read(chain'[q], s) = Read(chain[q], s)
      <4>1. CASE q # r
        BY <1>7, <4>1
      <4>2. CASE q = r /\ s < cts[t]
        BY <1>2, <1>8, <4>2, ApplyKeepsReads
      <4> QED
        BY <1>2, <2>4, <4>1, <4>2 DEF Ts
    <3>2. AppliedBy(q, s)' = AppliedBy(q, s)
          /\ \A u \in AppliedBy(q, s) : Done(u, q)' = Done(u, q)
      BY <1>4, <1>6, <2>4 DEF AppliedBy
    <3> QED
      BY <1>4, <2>2, <3>1, <3>2 DEF Exact
  <2> QED
    BY <2>3, <2>4
<1> QED
  BY <1>10, <1>11, <1>12

(* ClientMayWrite lets an INSERT through only when the row is gone, and the
   lock keeps it gone until the INSERT is applied. *)
LEMMA InsertsFindNothingStep ==
    ASSUME UniqueKeys, Reading, [Next]_vars
    PROVE  InsertsFindNothing'
<1>0. /\ Typed /\ TypeOK /\ SweepInv /\ SnapshotsArePast /\ Stages /\ WritesAreOwned
      /\ InsertsFindNothing
  BY DEF Reading, SweepInv, Typed
<1> DEFINE Running == {"active", "log", "apply", "index"}
           Before(t, i) == {j \in OwnOps(t, ops[t][i].row) : j < i}
           Fine(t, i) == IF Before(t, i) = {}
                         THEN i <= AppliedCount(t) \/ NoneLive(chain[ops[t][i].row])
                         ELSE \E j \in Before(t, i) : /\ ops[t][j].kind = "delete"
                                                      /\ \A k \in Before(t, i) : k <= j
           Finds(t) == \A i \in DOMAIN ops[t] : ops[t][i].kind = "insert" => Fine(t, i)
<1>a. \A t \in Tx : pc[t] \in Running => Finds(t)
  BY <1>0 DEF InsertsFindNothing
<1>b. (\A t \in Tx : pc'[t] \in Running => Finds(t)') => InsertsFindNothing'
  BY DEF InsertsFindNothing
<1>c. \A t \in Tx : \A i \in DOMAIN ops[t] : /\ i \in Nat /\ ops[t][i] \in Op
                                             /\ ops[t][i].row \in Row
  BY <1>0 DEF TypeOK, Op
<1>1. ASSUME NEW u \in Tx, pc[u] \in Running, ops'[u] = ops[u],
             AppliedCount(u)' = AppliedCount(u),
             \A i \in DOMAIN ops[u] : NoneLive(chain[ops[u][i].row])
                                      => NoneLive(chain'[ops[u][i].row])
      PROVE  Finds(u)'
  <2>1. Finds(u)
    BY <1>a, <1>1
  <2>2. SUFFICES ASSUME NEW i \in DOMAIN ops[u], ops[u][i].kind = "insert" PROVE Fine(u, i)'
    BY <1>1
  <2>3. Before(u, i)' = Before(u, i)
    BY <1>1 DEF OwnOps
  <2>4. CASE Before(u, i) = {}
    BY <1>1, <2>1, <2>2, <2>3, <2>4 DEF NoneLive
  <2>5. CASE Before(u, i) # {}
    BY <1>1, <2>1, <2>2, <2>3, <2>5
  <2> QED
    BY <2>4, <2>5
<1>2. ASSUME ~ \E t \in Tx : ApplyOp(t), NEW u \in Tx, ops'[u] = ops[u], pc[u] \in Running
      PROVE  Finds(u)'
  BY <1>0, <1>1, <1>2, <1>c, CountsStay, ReadsStay
<1>3. ASSUME NEW u \in Tx, ops'[u] = <<>> PROVE Finds(u)'
  BY <1>3
<1> HIDE DEF Finds
<1>4. ASSUME NEW t \in Tx, NEW op \in Op, Write(t, op), ~ \E u \in Tx : ApplyOp(u)
      PROVE  InsertsFindNothing'
  <2>1. /\ op.row \in Row /\ pc' = pc /\ pc[t] = "active" /\ ClientMayWrite(t, op)
        /\ chain' = chain /\ ops' = [ops EXCEPT ![t] = Append(@, op)]
    BY <1>4 DEF Write, Op
  <2>2. \A u \in Tx \ {t} : pc'[u] \in Running => Finds(u)'
    BY <1>0, <1>2, <1>4, <2>1 DEF TypeOK
  <2>3. /\ ops[t] \in Seq(Op) /\ ops'[t] = Append(ops[t], op)
    BY <1>0, <2>1 DEF TypeOK
  <2> DEFINE n == Len(ops[t])
  <2>4. /\ n \in Nat /\ DOMAIN ops[t] = 1 .. n /\ DOMAIN ops'[t] = 1 .. n + 1
        /\ \A i \in 1 .. n : ops'[t][i] = ops[t][i]
        /\ ops'[t][n + 1] = op
    BY <2>3
  <2>5. Finds(t)'
    <3>1. SUFFICES ASSUME NEW i \in 1 .. n + 1, ops'[t][i].kind = "insert" PROVE Fine(t, i)'
      BY <2>4 DEF Finds
    <3>2. CASE i \in 1 .. n
      <4>1. Fine(t, i)
        BY <1>a, <2>1, <2>4, <3>1, <3>2 DEF Finds
      <4>2. Before(t, i)' = Before(t, i) /\ Before(t, i) \subseteq 1 .. n
        BY <2>4, <3>2 DEF OwnOps
      <4>3. AppliedCount(t)' = AppliedCount(t)
        BY <1>0, <1>4, CountsStay
      <4> QED
        BY <2>1, <2>4, <3>2, <4>1, <4>2, <4>3
    <3>3. CASE i = n + 1
      <4>1. op.kind = "insert" /\ LockedValue(t, op.row) = NoRow
        BY <2>1, <2>4, <3>1, <3>3 DEF ClientMayWrite
      <4>2. Before(t, i)' = OwnOps(t, op.row)
        BY <2>4, <3>3 DEF OwnOps
      <4>3. CASE OwnOps(t, op.row) = {}
        <5>1. Read(chain[op.row], clock) = NoRow
          BY <4>1, <4>3 DEF LockedValue
        <5>2. UpTo(chain[op.row], clock)
          <6>1. \A v \in chain[op.row].versions : v.begin_ts \in Nat /\ v.end_ts \in Nat
            BY <1>0, <2>1, MaxTsAssumption
            DEF TypeOK, VersionChain, RowVersion, Ts, TS_INFINITY
          <6>2. clock \in Nat /\ \A u \in Tx : cts[u] \in Nat /\ cts[u] <= clock
            BY <1>0 DEF TypeOK, Ts, Stages
          <6> QED
            BY <2>1, <6>1, <6>2 DEF Reading, ChainsArePast, UpTo
        <5>3. NoneLive(chain[op.row])
          BY <1>0, <2>1, <5>1, <5>2, NothingReadNoneLive
          DEF TypeOK, Reading, ChainsAreDisjoint
        <5> QED
          BY <2>1, <2>4, <3>3, <4>2, <4>3, <5>3
      <4>4. CASE OwnOps(t, op.row) # {}
        <5>1. PICK j \in OwnOps(t, op.row) :
                 /\ LastOwnOp(t, op.row) = ops[t][j]
                 /\ \A k \in OwnOps(t, op.row) : k <= j
          BY <1>0, <2>1, <4>4, LastOwnOpExists
        <5>2. j \in 1 .. n /\ ops[t][j] \in Op /\ ops[t][j].data = NoRow
          BY <1>c, <2>4, <4>1, <4>4, <5>1 DEF OwnOps, LockedValue
        <5>3. ops[t][j].kind = "delete"
          BY <5>2, NoRowAssumption DEF Op
        <5> QED
          BY <2>4, <4>2, <4>4, <5>1, <5>2, <5>3
      <4> QED
        BY <4>3, <4>4
    <3> QED
      BY <2>4, <3>2, <3>3
  <2> QED
    BY <1>b, <2>2, <2>5
<1>5. ASSUME NEW t \in Tx, ApplyOp(t) PROVE InsertsFindNothing'
  <2>1. PICK k, op, r : k = cur[t] /\ op = ops[t][k] /\ r = op.row
    OBVIOUS
  <2>2. r \in Row /\ k \in OwnOps(t, r) /\ k \in Nat
    BY <1>5, <2>1, ApplyOpFinds
  <2>3. /\ ops' = ops /\ pc[t] = "apply"
        /\ \A q \in Row \ {r} : chain'[q] = chain[q]
        /\ \A u \in Tx \ {t} : pc'[u] = pc[u]
    BY <1>0, <1>5, <2>1 DEF ApplyOp, Goto, TypeOK
  <2>4. AppliedCount(t) = k - 1 /\ AppliedCount(t)' = k
    BY <1>0, <1>5, <2>1 DEF ApplyOp, Goto, TypeOK, AppliedCount, Stages
  <2>5. \A u \in Tx \ {t} : AppliedCount(u)' = AppliedCount(u)
    BY <1>0, <1>5 DEF ApplyOp, Goto, TypeOK, AppliedCount
  <2>6. ASSUME NEW u \in Tx \ {t}, pc'[u] \in Running PROVE Finds(u)'
    <3>1. pc[u] \in Running
      BY <2>3, <2>6
    <3>2. owner[r] = t
      BY <1>0, <2>2, <2>3 DEF WritesAreOwned, Locking, OwnOps
    <3>3. \A i \in DOMAIN ops[u] : ops[u][i].row # r
      BY <1>0, <3>1, <3>2 DEF WritesAreOwned, Locking
    <3>4. \A i \in DOMAIN ops[u] : chain'[ops[u][i].row] = chain[ops[u][i].row]
      BY <1>c, <2>3, <3>3
    <3> QED
      BY <1>1, <2>3, <2>5, <3>1, <3>4
  <2>7. Finds(t)'
    <3>1. SUFFICES ASSUME NEW i \in DOMAIN ops[t], ops[t][i].kind = "insert" PROVE Fine(t, i)'
      BY <2>3 DEF Finds
    <3>2. Fine(t, i) /\ i \in Nat
      BY <1>a, <1>c, <2>3, <3>1 DEF Finds
    <3>3. Before(t, i)' = Before(t, i)
      BY <2>3 DEF OwnOps
    <3>4. CASE Before(t, i) # {}
      BY <2>3, <3>2, <3>3, <3>4
    <3>5. CASE Before(t, i) = {} /\ i <= k
      BY <2>4, <3>3, <3>5
    <3>6. CASE Before(t, i) = {} /\ ~ (i <= k)
      <4>1. ops[t][i].row # r
        BY <2>2, <3>2, <3>6 DEF OwnOps
      <4>2. chain'[ops[t][i].row] = chain[ops[t][i].row]
        BY <1>c, <2>3, <4>1
      <4>3. NoneLive(chain[ops[t][i].row])
        BY <2>2, <2>4, <3>2, <3>6
      <4> QED
        BY <2>3, <3>3, <3>6, <4>2, <4>3
    <3> QED
      BY <3>4, <3>5, <3>6
  <2> QED
    BY <1>b, <2>6, <2>7
<1>6. ASSUME NEW t \in Tx, Begin(t) \/ Commit(t) \/ Abort(t), ~ \E u \in Tx : ApplyOp(u)
      PROVE  InsertsFindNothing'
  <2>1. \A u \in Tx \ {t} : ops'[u] = ops[u] /\ pc'[u] = pc[u]
    BY <1>0, <1>6 DEF Begin, BeginLoad, BeginRegister, Commit, Abort, Goto, TypeOK
  <2>2. ops'[t] = <<>> \/ (ops'[t] = ops[t] /\ pc[t] \in Running)
    BY <1>0, <1>6 DEF Begin, BeginLoad, BeginRegister, Commit, Abort, Goto, TypeOK, Stages
  <2>3. \A u \in Tx : pc'[u] \in Running => Finds(u)'
    BY <1>2, <1>3, <1>6, <2>1, <2>2
  <2> QED
    BY <1>b, <2>3
<1>7. ASSUME ops' = ops, ~ \E t \in Tx : ApplyOp(t),
             \A u \in Tx : pc'[u] \in Running => pc[u] \in Running
      PROVE  InsertsFindNothing'
  BY <1>b, <1>2, <1>7
<1>8. ASSUME NEW t \in Tx, Finish(t), ~ \E u \in Tx : ApplyOp(u) PROVE InsertsFindNothing'
  BY <1>0, <1>7, <1>8
  DEF Finish, LogWrites, LogFails, IndexInsert, Applied, Release, Unsnap, ComputeHorizon,
      Sweep, SkipSweep, CommitReturns, Goto, engine, TypeOK
<1>9. ASSUME NEW t \in Tx, NEW r \in Row, LockRow(t, r), ~ \E u \in Tx : ApplyOp(u)
      PROVE  InsertsFindNothing'
  BY <1>7, <1>9 DEF LockRow
<1>10. CASE UNCHANGED vars /\ ~ \E u \in Tx : ApplyOp(u)
  BY <1>7, <1>10 DEF vars, engine
<1> QED
  BY <1>4, <1>5, <1>6, <1>8, <1>9, <1>10 DEF Next

LEMMA ReadingStep ==
    ASSUME UniqueKeys, Reading, [Next]_vars
    PROVE  Reading'
<1>1. SweepInv'
  BY TypedStep, SnapshotsArePastStep, RegistrationStep, HorizonsAreLowStep DEF SweepInv, Reading
<1>2. Stages' /\ WritesAreOwned' /\ CommittersAreLatest'
  BY StagesStep, WritesAreOwnedStep, CommittersAreLatestStep DEF Reading, SweepInv
<1>3. ChainsAreDisjoint' /\ ChainsArePast' /\ ReadsAreExact'
  BY ReadingStays, ReadingApplies
<1>4. InsertsFindNothing'
  BY InsertsFindNothingStep
<1> QED
  BY <1>1, <1>2, <1>3, <1>4 DEF Reading

LEMMA ReadingInvariant == UniqueKeys => (Spec => []Reading)
<1> SUFFICES ASSUME UniqueKeys PROVE Spec => []Reading
  OBVIOUS
<1>1. Init => Reading
  <2>1. Init => /\ Stages /\ WritesAreOwned /\ CommittersAreLatest /\ InsertsFindNothing
                /\ ChainsAreDisjoint /\ ChainsArePast /\ SweepInv
    BY InitTyped DEF Init, Stages, WritesAreOwned, CommittersAreLatest, InsertsFindNothing,
       ChainsAreDisjoint, ChainsArePast, Disjoint, EmptyChain, Locking, SweepInv,
       Registration, Ownership, HorizonsAreLow, Registered, Lock!Init
  <2>2. ASSUME Init PROVE ReadsAreExact
    <3>1. \A u \in Tx, r \in Row : Done(u, r) = {}
      <4>1. \A u \in Tx : ops[u] = <<>>
        BY <2>2 DEF Init
      <4> QED
        BY <4>1 DEF Done, OwnOps
    <3>2. \A r \in Row, s \in Ts : Read(chain[r], s) = NoRow
      BY <2>2 DEF Init, EmptyChain, Read, Visible
    <3> QED
      BY <3>1, <3>2 DEF ReadsAreExact, Exact, AppliedBy
  <2> QED
    BY <2>1, <2>2 DEF Reading
<1>2. Reading /\ [Next]_vars => Reading'
  BY ReadingStep
<1> QED
  BY <1>1, <1>2, PTL DEF Spec

(* Once nothing in flight wrote r up to s, what was applied is what was
   committed, and an exact read is the committed value. *)
LEMMA ExactIsCommitted ==
    ASSUME TypeOK, Stages, NEW r \in Row, NEW s \in Ts, Exact(r, s),
           \A u \in InFlight : Writes(u, r) => cts[u] > s
    PROVE  Read(chain[r], s) = CommittedValue(r, s)
<1>1. \A u \in Tx : \A i \in OwnOps(u, r) : i \in Nat /\ i <= Len(ops[u]) /\ i >= 1
  BY DEF OwnOps, TypeOK
<1>2. ASSUME NEW u \in Tx, status[u] = "committed" PROVE Done(u, r) = OwnOps(u, r)
  <2>1. AppliedCount(u) = Len(ops[u])
    BY <1>2 DEF AppliedCount, Stages
  <2> QED
    BY <1>1, <2>1 DEF Done
<1>3. ASSUME NEW u \in AppliedBy(r, s) PROVE status[u] = "committed"
  <2>1. u \in Tx /\ Done(u, r) # {} /\ cts[u] <= s /\ cts[u] \in Nat /\ s \in Nat
    BY <1>3 DEF AppliedBy, TypeOK, Ts
  <2>2. AppliedCount(u) # 0 /\ Writes(u, r)
    BY <2>1, AppliedHasStamp
  <2>3. pc[u] \notin {"apply", "index"}
    BY <2>1, <2>2 DEF InFlight
  <2> QED
    BY <2>2, <2>3 DEF AppliedCount
<1>4. AppliedBy(r, s) = CommittedBy(r, s)
  <2>1. AppliedBy(r, s) \subseteq CommittedBy(r, s)
    BY <1>2, <1>3 DEF AppliedBy, CommittedBy, Writes
  <2>2. CommittedBy(r, s) \subseteq AppliedBy(r, s)
    BY <1>2 DEF AppliedBy, CommittedBy, Writes
  <2> QED
    BY <2>1, <2>2
<1>5. CASE CommittedBy(r, s) = {}
  BY <1>4, <1>5 DEF Exact, CommittedValue
<1>6. CASE CommittedBy(r, s) # {}
  <2> DEFINE W == CommittedBy(r, s)
             u == CHOOSE v \in W : \A w \in W : cts[w] <= cts[v]
  <2>1. \E v \in W : \A w \in W : cts[w] <= cts[v]
    <3> DEFINE S == {cts[w] : w \in W}
    <3>1. W # {} /\ \A w \in W : cts[w] \in Nat /\ cts[w] <= MaxTs
      BY <1>6, MaxTsAssumption DEF CommittedBy, TypeOK, Ts
    <3> HIDE DEF W
    <3>2. S \in SUBSET Nat /\ S # {} /\ \A n \in S : n <= MaxTs
      BY <3>1
    <3>3. PICK m \in S : \A n \in S : n <= m
      BY <3>2, MaxTsAssumption, NatMax
    <3> QED
      BY <3>3
  <2>2. u \in W /\ \A w \in W : cts[w] <= cts[u]
    BY <2>1
  <2>3. CommittedValue(r, s) = LastOwnOp(u, r).data
    BY <1>6 DEF CommittedValue
  <2> HIDE DEF u, W
  <2>4. u \in Tx /\ OwnOps(u, r) # {} /\ Done(u, r) = OwnOps(u, r)
    BY <1>2, <2>2 DEF W, CommittedBy, Writes
  <2>5. PICK i \in OwnOps(u, r) : /\ LastOwnOp(u, r) = ops[u][i]
                                 /\ \A j \in OwnOps(u, r) : j <= i
    BY <2>4, LastOwnOpExists
  <2>6. Read(chain[r], s) = ops[u][i].data
    BY <1>4, <2>2, <2>4, <2>5 DEF Exact, W
  <2> QED
    BY <2>3, <2>5, <2>6
<1> QED
  BY <1>5, <1>6

(* A running transaction reads, of every row without a commit in flight that
   its snapshot should see, exactly the value committed last up to its
   snapshot: whatever other transactions begin, write, apply, abort and
   sweep, in whatever order, as long as no horizon overtook its begin. *)
THEOREM SnapshotReads == UniqueKeys => (Spec => []SnapshotReadsAreExact)
<1> SUFFICES ASSUME UniqueKeys PROVE Spec => []SnapshotReadsAreExact
  OBVIOUS
<1>1. ASSUME Reading, NEW t \in Tx, NEW r \in Row, pc[t] = "active", ~ overtaken[t],
             \A u \in InFlight : Writes(u, r) => cts[u] > snap[t]
      PROVE  Read(chain[r], snap[t]) = CommittedValue(r, snap[t])
  <2>1. TypeOK /\ Stages /\ snap[t] \in Ts
    BY <1>1 DEF Reading, SweepInv, Typed, TypeOK
  <2>2. Protected(snap[t])
    BY <1>1, <2>1 DEF Protected, Registered, Ts
  <2>3. Exact(r, snap[t])
    BY <1>1, <2>1, <2>2 DEF Reading, ReadsAreExact
  <2> QED
    BY <1>1, <2>1, <2>3, ExactIsCommitted
<1>2. Reading => SnapshotReadsAreExact
  BY <1>1 DEF SnapshotReadsAreExact
<1> QED
  BY <1>2, ReadingInvariant, PTL

(* execute_update's second look, under the lock, sees the last committed
   value of the row: every earlier holder had applied its writes. *)
THEOREM LockedReads == UniqueKeys => (Spec => []LockedReadIsCurrent)
<1> SUFFICES ASSUME UniqueKeys PROVE Spec => []LockedReadIsCurrent
  OBVIOUS
<1>1. ASSUME Reading, NEW r \in Row, owner[r] # NoTx, pc[owner[r]] = "active"
      PROVE  Read(chain[r], clock) = CommittedValue(r, clock)
  <2>1. TypeOK /\ Stages /\ clock \in Ts
    BY <1>1 DEF Reading, SweepInv, Typed, TypeOK
  <2>2. Exact(r, clock)
    BY <1>1, <2>1 DEF Reading, ReadsAreExact, Protected, Ts
  <2>3. \A u \in InFlight : ~ Writes(u, r)
    BY <1>1 DEF InFlight, Writes, OwnOps, Reading, WritesAreOwned, Locking
  <2> QED
    BY <1>1, <2>1, <2>2, <2>3, ExactIsCommitted
<1>2. Reading => LockedReadIsCurrent
  BY <1>1 DEF LockedReadIsCurrent
<1> QED
  BY <1>2, ReadingInvariant, PTL
==============================================================================
