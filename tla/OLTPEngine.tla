----------------------------- MODULE OLTPEngine ------------------------------
(***************************************************************************)
(* Transactions over the MVCC store, src/src/execution/oltp.rs, with the   *)
(* lock manager seen as RowLock (LockManager implements it).               *)
(*                                                                         *)
(* `begin`, `commit` and `abort` are not critical sections: they take and  *)
(* release one mutex after another, and other transactions run in between. *)
(* Each access to shared state is a step here; pc[t] is the next one:      *)
(*   new      begin not called                                             *)
(*   loaded   begin has read the commit clock, not yet registered it       *)
(*   active   running: reads, writes                                       *)
(*   log      commit has its timestamp; next the WAL append                *)
(*   apply    op cur[t] of the write set is next into its version chain    *)
(*   index    the insert just pushed is next into the primary-key index    *)
(*   release  locks go next        unsnap  the snapshot goes next          *)
(*   horizon  min_active_snapshot  sweep   op cur[t]'s row is swept or not *)
(*   done     commit or abort has returned                                 *)
(* Steps on state nobody else can see (removing the own write set, setting *)
(* the transaction's status) are part of the neighbouring step.            *)
(***************************************************************************)
EXTENDS MVCCStore

CONSTANTS Tx,          \* transaction ids, each begun once
          NoTx,        \* nobody
          MaxOps,      \* bound: writes of one transaction
          UniqueKeys   \* TRUE: clients insert only keys that have no live row,
                       \* which the code never checks; FALSE: any INSERT

ASSUME NoTxAssumption == NoTx \notin Tx
ASSUME MaxOpsAssumption == MaxOps \in Nat
ASSUME UniqueKeysAssumption == UniqueKeys \in BOOLEAN

VARIABLES
    clock,       \* commit_clock
    snapshots,   \* the transactions with an entry in `snapshots`
    snap,        \* snap[t]: the timestamp t read in begin, while it has one
    ops,         \* ops[t]: t's write set (kept after the end, as history)
    status,      \* TransactionManager: "none", "active", "committed", "aborted"
    owner,       \* row locks, see RowLock
    chain,       \* chain[r]: r's version chain
    pkIndex,     \* the rows in the primary-key index
    pc, cts, cur, horizon,   \* t's place, and the locals of its commit
    overtaken    \* history: a horizon was computed while t was "loaded"

engine == <<clock, snapshots, snap, ops, status, owner, chain, pkIndex>>
vars == <<engine, pc, cts, cur, horizon, overtaken>>

Lock == INSTANCE RowLock WITH Key <- Row

TypeOK ==
    /\ clock \in Ts
    /\ snapshots \subseteq Tx
    /\ snap \in [Tx -> Ts]
    /\ ops \in [Tx -> Seq(Op)]
    /\ status \in [Tx -> {"none", "active", "committed", "aborted"}]
    /\ owner \in [Row -> Tx \cup {NoTx}]
    /\ chain \in [Row -> VersionChain]
    /\ pkIndex \subseteq Row
    /\ pc \in [Tx -> {"new", "loaded", "active", "log", "apply", "index",
                      "release", "unsnap", "horizon", "sweep", "done"}]
    /\ cts \in [Tx -> Ts]
    /\ cur \in [Tx -> Nat \ {0}]
    /\ horizon \in [Tx -> Ts]
    /\ overtaken \in [Tx -> BOOLEAN]

Init ==
    /\ clock = 0
    /\ snapshots = {}
    /\ snap = [t \in Tx |-> 0]
    /\ ops = [t \in Tx |-> <<>>]
    /\ status = [t \in Tx |-> "none"]
    /\ Lock!Init
    /\ chain = [r \in Row |-> EmptyChain]
    /\ pkIndex = {}
    /\ pc = [t \in Tx |-> "new"]
    /\ cts = [t \in Tx |-> 0]
    /\ cur = [t \in Tx |-> 1]
    /\ horizon = [t \in Tx |-> 0]
    /\ overtaken = [t \in Tx |-> FALSE]

Goto(t, place) == pc' = [pc EXCEPT ![t] = place]

------------------------------------------------------------------------------
(* begin: an id, then a load of the clock ... *)
BeginLoad(t) ==
    /\ pc[t] = "new"
    /\ snap' = [snap EXCEPT ![t] = clock]
    /\ status' = [status EXCEPT ![t] = "active"]
    /\ Goto(t, "loaded")
    /\ UNCHANGED <<clock, snapshots, ops, owner, chain, pkIndex, cts, cur, horizon, overtaken>>

(* ... and only then the entry that min_active_snapshot looks at. *)
BeginRegister(t) ==
    /\ pc[t] = "loaded"
    /\ snapshots' = snapshots \cup {t}
    /\ Goto(t, "active")
    /\ UNCHANGED <<clock, snap, ops, status, owner, chain, pkIndex, cts, cur, horizon, overtaken>>

(* The writes of t to r so far, and what r is to t once t has its lock. *)
OwnOps(t, r) == {i \in DOMAIN ops[t] : ops[t][i].row = r}
LastOwnOp(t, r) == ops[t][CHOOSE i \in OwnOps(t, r) : \A j \in OwnOps(t, r) : j <= i]
LockedValue(t, r) ==
    IF OwnOps(t, r) # {} THEN LastOwnOp(t, r).data ELSE Read(chain[r], clock)

(* execute_update writes only rows it has re-read under the lock; DELETE is
   written without a second look; INSERT is never checked by the engine. *)
ClientMayWrite(t, op) ==
    /\ op.kind = "update" => LockedValue(t, op.row) # NoRow
    /\ op.kind = "insert" /\ UniqueKeys => LockedValue(t, op.row) = NoRow

(* write: the exclusive lock, then the buffer.  A lock timeout returns an
   error and leaves the engine as it was. *)
Write(t, op) ==
    /\ pc[t] = "active"
    /\ Len(ops[t]) < MaxOps
    /\ Lock!Acquire(t, op.row)
    /\ ClientMayWrite(t, op)
    /\ ops' = [ops EXCEPT ![t] = Append(@, op)]
    /\ UNCHANGED <<clock, snapshots, snap, status, chain, pkIndex, pc, cts, cur, horizon, overtaken>>

(* execute_update locks the row before it looks at it again, and goes on to
   the next one without a write, the lock kept, when the row is gone or no
   longer matches. *)
LockRow(t, r) ==
    /\ pc[t] = "active"
    /\ Lock!Acquire(t, r)
    /\ UNCHANGED <<clock, snapshots, snap, ops, status, chain, pkIndex, pc, cts, cur, horizon, overtaken>>

(* commit: take the write set and a timestamp (fetch_add). *)
Commit(t) ==
    /\ pc[t] = "active"
    /\ clock < MaxTs
    /\ clock' = clock + 1
    /\ cts' = [cts EXCEPT ![t] = clock + 1]
    /\ Goto(t, "log")
    /\ UNCHANGED <<snapshots, snap, ops, status, owner, chain, pkIndex, cur, horizon, overtaken>>

LogWrites_UnlocksEarly(t) ==
    /\ pc[t] = "log"
    /\ Lock!ReleaseAll(t)
    /\ Goto(t, "apply")
    /\ UNCHANGED <<clock, snapshots, snap, ops, status, chain, pkIndex, cts, cur, horizon, overtaken>>

(* The WAL append succeeds, or there is nothing to append or no WAL. *)
LogWrites(t) ==
    /\ pc[t] = "log"
    /\ Goto(t, "apply")
    /\ UNCHANGED <<engine, cts, cur, horizon, overtaken>>

LogFails_ReturnsEarly(t) ==
    /\ pc[t] = "log"
    /\ ops[t] # <<>>
    /\ status' = [status EXCEPT ![t] = "aborted"]
    /\ Goto(t, "done")
    /\ UNCHANGED <<clock, snapshots, snap, ops, owner, chain, pkIndex, cts, cur, horizon, overtaken>>

LogFails_GoesOn(t) ==
    /\ pc[t] = "log"
    /\ ops[t] # <<>>
    /\ status' = [status EXCEPT ![t] = "aborted"]
    /\ Goto(t, "apply")
    /\ UNCHANGED <<clock, snapshots, snap, ops, owner, chain, pkIndex, cts, cur, horizon, overtaken>>

(* The append returns an error: the commit turns into an abort. *)
LogFails(t) ==
    /\ pc[t] = "log"
    /\ ops[t] # <<>>
    /\ status' = [status EXCEPT ![t] = "aborted"]
    /\ Goto(t, "release")
    /\ UNCHANGED <<clock, snapshots, snap, ops, owner, chain, pkIndex, cts, cur, horizon, overtaken>>

(* apply_write_set, one op under the row map's lock at a time. *)
ApplyOp(t) ==
    LET op == ops[t][cur[t]] IN
    /\ pc[t] = "apply"
    /\ cur[t] <= Len(ops[t])
    /\ chain' = [chain EXCEPT ![op.row] = Apply(@, op, cts[t])]
    /\ IF op.kind = "insert"
         THEN Goto(t, "index") /\ UNCHANGED cur
         ELSE cur' = [cur EXCEPT ![t] = @ + 1] /\ UNCHANGED pc
    /\ UNCHANGED <<clock, snapshots, snap, ops, status, owner, pkIndex, cts, horizon, overtaken>>

(* The second half of apply_insert, under the index's own mutex. *)
IndexInsert(t) ==
    /\ pc[t] = "index"
    /\ pkIndex' = pkIndex \cup {ops[t][cur[t]].row}
    /\ cur' = [cur EXCEPT ![t] = @ + 1]
    /\ Goto(t, "apply")
    /\ UNCHANGED <<clock, snapshots, snap, ops, status, owner, chain, cts, horizon, overtaken>>

(* The write set is in the store: the transaction is committed. *)
Applied(t) ==
    /\ pc[t] = "apply"
    /\ cur[t] > Len(ops[t])
    /\ status' = [status EXCEPT ![t] = "committed"]
    /\ Goto(t, "release")
    /\ UNCHANGED <<clock, snapshots, snap, ops, owner, chain, pkIndex, cts, cur, horizon, overtaken>>

(* abort: drop the write set; the store was never touched. *)
Abort(t) ==
    /\ pc[t] = "active"
    /\ ops' = [ops EXCEPT ![t] = <<>>]
    /\ status' = [status EXCEPT ![t] = "aborted"]
    /\ Goto(t, "release")
    /\ UNCHANGED <<clock, snapshots, snap, owner, chain, pkIndex, cts, cur, horizon, overtaken>>

Release(t) ==
    /\ pc[t] = "release"
    /\ Lock!ReleaseAll(t)
    /\ Goto(t, "unsnap")
    /\ UNCHANGED <<clock, snapshots, snap, ops, status, chain, pkIndex, cts, cur, horizon, overtaken>>

Unsnap(t) ==
    /\ pc[t] = "unsnap"
    /\ snapshots' = snapshots \ {t}
    /\ snap' = [snap EXCEPT ![t] = 0]
    /\ Goto(t, IF status[t] = "committed" THEN "horizon" ELSE "done")
    /\ UNCHANGED <<clock, ops, status, owner, chain, pkIndex, cts, cur, horizon, overtaken>>

MinActiveSnapshot_IgnoresReaders == clock

(* min_active_snapshot: the oldest registered snapshot, or the clock. *)
MinActiveSnapshot ==
    IF snapshots = {} THEN clock
    ELSE CHOOSE s \in Ts : /\ \E t \in snapshots : s = snap[t]
                           /\ \A t \in snapshots : s <= snap[t]

ComputeHorizon(t) ==
    /\ pc[t] = "horizon"
    /\ horizon' = [horizon EXCEPT ![t] = MinActiveSnapshot]
    /\ cur' = [cur EXCEPT ![t] = 1]
    /\ overtaken' = [u \in Tx |-> overtaken[u] \/ pc[u] = "loaded"]
    /\ Goto(t, "sweep")
    /\ UNCHANGED <<engine, cts>>

(* The retention predictor lets this op's row be pruned ... *)
Sweep(t) ==
    LET r == ops[t][cur[t]].row IN
    /\ pc[t] = "sweep"
    /\ cur[t] <= Len(ops[t])
    /\ chain' = [chain EXCEPT ![r] = Prune(@, horizon[t])]
    /\ cur' = [cur EXCEPT ![t] = @ + 1]
    /\ UNCHANGED <<clock, snapshots, snap, ops, status, owner, pkIndex, pc, cts, horizon, overtaken>>

(* ... or not. *)
SkipSweep(t) ==
    /\ pc[t] = "sweep"
    /\ cur[t] <= Len(ops[t])
    /\ cur' = [cur EXCEPT ![t] = @ + 1]
    /\ UNCHANGED <<engine, pc, cts, horizon, overtaken>>

CommitReturns(t) ==
    /\ pc[t] = "sweep"
    /\ cur[t] > Len(ops[t])
    /\ cur' = [cur EXCEPT ![t] = 1]
    /\ horizon' = [horizon EXCEPT ![t] = 0]
    /\ Goto(t, "done")
    /\ UNCHANGED <<engine, cts, overtaken>>

Begin(t) == BeginLoad(t) \/ BeginRegister(t)
Finish(t) == \/ LogWrites(t) \/ LogFails(t)
             \/ ApplyOp(t) \/ IndexInsert(t) \/ Applied(t)
             \/ Release(t) \/ Unsnap(t)
             \/ ComputeHorizon(t) \/ Sweep(t) \/ SkipSweep(t) \/ CommitReturns(t)

Next == \E t \in Tx : \/ Begin(t)
                      \/ \E op \in Op : Write(t, op)
                      \/ \E r \in Row : LockRow(t, r)
                      \/ Commit(t)
                      \/ Abort(t)
                      \/ Finish(t)

Spec == Init /\ [][Next]_vars

------------------------------------------------------------------------------
(* What was committed, independently of the chains: the ops of the committed
   transactions in timestamp order.  A snapshot at s should see, of row r,
   the last op on r with a timestamp up to s. *)
InFlight == {u \in Tx : pc[u] \in {"log", "apply", "index"}}
Writes(u, r) == OwnOps(u, r) # {}
CommittedBy(r, s) == {u \in Tx : status[u] = "committed" /\ cts[u] <= s /\ Writes(u, r)}
CommittedValue(r, s) ==
    LET W == CommittedBy(r, s) IN
    IF W = {} THEN NoRow
    ELSE LastOwnOp(CHOOSE u \in W : \A w \in W : cts[w] <= cts[u], r).data

View(t) == [r \in Row |-> Read(chain[r], snap[t])]

(* Snapshot reads are exact: a running transaction reads of each row the
   last value committed up to its timestamp, as long as no commit with a
   timestamp up to its own is still being applied to that row and no sweep
   overtook its begin.  Both provisos are needed (commit advances the clock
   before it applies its writes, and see SweepIsSafe); nothing else is: chains,
   expiry, pruning by any number of other commits and the order of their steps
   do not show. *)
SnapshotReadsAreExact ==
    \A t \in Tx, r \in Row :
        /\ pc[t] = "active"
        /\ ~ overtaken[t]
        /\ \A u \in InFlight : Writes(u, r) => cts[u] > snap[t]
        => Read(chain[r], snap[t]) = CommittedValue(r, snap[t])

(* execute_update's re-read: under the row's lock, a read at the current
   commit clock is the last committed value, however many commits on other
   rows are in flight and whatever has been swept (executor.rs, the comment
   of execute_update: "guaranteed to reflect every prior holder's write"). *)
LockedReadIsCurrent ==
    \A r \in Row :
        owner[r] # NoTx /\ pc[owner[r]] = "active"
        => Read(chain[r], clock) = CommittedValue(r, clock)

(* Every row a snapshot can see is found through the primary-key index, but
   for the moment between the two halves of apply_insert. *)
PkIndexComplete ==
    \A r \in Row :
        \/ r \in pkIndex
        \/ \A v \in chain[r].versions : \E u \in Tx :
               pc[u] = "index" /\ ops[u][cur[u]].row = r

(* However a transaction ends (commit, abort, failed append), it leaves no
   lock and no snapshot behind: a leaked snapshot would hold back every later
   sweep, a leaked lock every later writer. *)
EndedHoldsNothing ==
    \A t \in Tx : pc[t] = "done" => t \notin snapshots /\ \A r \in Row : owner[r] # t

(* A prune is invisible to every transaction whose snapshot was registered
   before a horizon could pass it. *)
SweepStep == \E t \in Tx : Sweep(t)
SweepKeepsRegistered ==
    [][SweepStep => \A t \in Tx : pc[t] = "active" /\ ~ overtaken[t]
                                   => View(t)' = View(t)]_vars

(* oltp.rs, commit: "The sweep itself is always safe -- it only drops
   versions no active snapshot could still need". *)
SweepIsSafe ==
    [][SweepStep => \A t \in Tx : pc[t] = "active" => View(t)' = View(t)]_vars
==============================================================================
