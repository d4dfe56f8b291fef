---------------------------- MODULE DurableEngine ----------------------------
(***************************************************************************)
(* OLTPEngine with its write-ahead log, crashes and recovery:              *)
(* src/src/execution/wal.rs, recovery.rs and QueryExecutor::open.          *)
(*                                                                         *)
(* The log file is a sequence of frames.  A frame is the record of one     *)
(* commit, or Torn: bytes of an append that did not complete.  The file is *)
(* opened in append mode and never truncated, and read_all stops at the    *)
(* first frame it cannot read.  (What follows torn bytes is misframed, so  *)
(* read_all might also decode garbage there; stopping is its best case.)   *)
(* Everything else is memory and is lost in a crash; a transaction that    *)
(* was running then is over (pc "done"), the others begin later.           *)
(***************************************************************************)
EXTENDS OLTPEngine, SequencesExt

CONSTANTS Torn,    \* an unreadable frame
          Fault    \* what the environment may do: "crash" the process; make an
                   \* append return an "error" with nothing written; leave a
                   \* "torn" frame when an append errs or the process dies in
                   \* it; fail the "sync" of a frame that is completely written

(* WalRecord::Commit; `by` is history, it is not in the file: it tells a
   record from that of a later transaction which, after a crash, got the same
   timestamp and wrote the same. *)
LogRecord == [commit_ts : Ts, ops : Seq(Op), by : Tx]

ASSUME TornAssumption == Torn \notin LogRecord
ASSUME FaultAssumption == Fault \subseteq {"crash", "error", "torn", "sync"}

VARIABLES
    file,       \* the log file
    mode,       \* "up", or "recovering": replaying the file in open()
    replayed,   \* the records that recovery has replayed, kept while it serves ...
    redone,     \* ... and the ops of the next one that have been applied
    acked       \* history: the transactions whose commit() returned Ok

dvars == <<vars, file, mode, replayed, redone, acked>>

(* The record of t's commit. *)
Record(t) == [commit_ts |-> cts[t], ops |-> ops[t], by |-> t]
(* WriteAheadLog::read_all: the records before the first unreadable frame. *)
Readable == {i \in DOMAIN file : \A j \in 1 .. i : file[j] # Torn}

DInit ==
    /\ Init
    /\ file = <<>>
    /\ mode = "up"
    /\ replayed = 0
    /\ redone = 0
    /\ acked = {}

------------------------------------------------------------------------------
(* What an append of t's record that does not succeed can leave behind. *)
FilesAfterFailure(t) ==
    {file} \cup (IF "torn" \in Fault THEN {Append(file, Torn)} ELSE {})
           \cup (IF "sync" \in Fault THEN {Append(file, Record(t))} ELSE {})

AppendRecord_Unsynced(t) ==
    /\ LogWrites(t)
    /\ UNCHANGED <<file, mode, replayed, redone, acked>>

(* append: length, payload, fsync, all under the file's mutex; an empty
   write set is not logged. *)
AppendRecord(t) ==
    /\ LogWrites(t)
    /\ file' = IF ops[t] = <<>> THEN file ELSE Append(file, Record(t))
    /\ UNCHANGED <<mode, replayed, redone, acked>>

AppendFails(t) ==
    /\ "error" \in Fault
    /\ LogFails(t)
    /\ file' \in FilesAfterFailure(t)
    /\ UNCHANGED <<mode, replayed, redone, acked>>

Acknowledge(t) ==
    /\ CommitReturns(t)
    /\ acked' = acked \cup {t}
    /\ UNCHANGED <<file, mode, replayed, redone>>

(* Every other step of the engine leaves the log alone. *)
InMemory(t) ==
    /\ \/ Begin(t) \/ Commit(t) \/ Abort(t)
       \/ \E op \in Op : Write(t, op)
       \/ \E r \in Row : LockRow(t, r)
       \/ ApplyOp(t) \/ IndexInsert(t) \/ Applied(t)
       \/ Release(t) \/ Unsnap(t)
       \/ ComputeHorizon(t) \/ Sweep(t) \/ SkipSweep(t)
    /\ UNCHANGED <<file, mode, replayed, redone, acked>>

Restart ==
    /\ mode' = "recovering"
    /\ replayed' = 0
    /\ redone' = 0
    /\ clock' = 0
    /\ snapshots' = {}
    /\ snap' = [t \in Tx |-> 0]
    /\ owner' = [r \in Row |-> NoTx]
    /\ chain' = [r \in Row |-> EmptyChain]
    /\ pkIndex' = {}
    /\ pc' = [t \in Tx |-> IF pc[t] = "new" THEN "new" ELSE "done"]
    /\ cur' = [t \in Tx |-> 1]
    /\ horizon' = [t \in Tx |-> 0]
    /\ UNCHANGED <<ops, status, cts, overtaken, acked>>

(* The process dies; a thread that was inside append may have left any part
   of its frame.  Recovery itself may be cut short, too. *)
Crash ==
    /\ "crash" \in Fault
    /\ file' \in {file} \cup
          UNION {{Append(file, Record(t))} \cup FilesAfterFailure(t) :
                 t \in {u \in Tx : pc[u] = "log" /\ ops[u] # <<>>}}
    /\ Restart

NextOp_Backwards(record) == record.ops[Len(record.ops) - redone]

(* The op of a record that recovery applies next. *)
NextOp(record) == record.ops[redone + 1]

RedoOp_SkipsIndex ==
    /\ mode = "recovering"
    /\ replayed + 1 \in Readable
    /\ redone < Len(file[replayed + 1].ops)
    /\ LET record == file[replayed + 1]
           op == NextOp(record) IN
          chain' = [chain EXCEPT ![op.row] = Apply(@, op, record.commit_ts)]
    /\ redone' = redone + 1
    /\ UNCHANGED <<clock, snapshots, snap, ops, status, owner, pkIndex, pc, cts, cur, horizon,
                   overtaken, file, mode, replayed, acked>>

(* recover: apply_write_set on one record after the other, in log order; an
   op goes into its chain and, if it is an INSERT, into the index. *)
RedoOp ==
    /\ mode = "recovering"
    /\ replayed + 1 \in Readable
    /\ redone < Len(file[replayed + 1].ops)
    /\ LET record == file[replayed + 1]
           op == NextOp(record) IN
          /\ chain' = [chain EXCEPT ![op.row] = Apply(@, op, record.commit_ts)]
          /\ pkIndex' = IF op.kind = "insert" THEN pkIndex \cup {op.row} ELSE pkIndex
    /\ redone' = redone + 1
    /\ UNCHANGED <<clock, snapshots, snap, ops, status, owner, pc, cts, cur, horizon,
                   overtaken, file, mode, replayed, acked>>

(* The write set is in the store: on to the next record. *)
NextRecord ==
    /\ mode = "recovering"
    /\ replayed + 1 \in Readable
    /\ redone = Len(file[replayed + 1].ops)
    /\ replayed' = replayed + 1
    /\ redone' = 0
    /\ UNCHANGED <<vars, file, mode, acked>>

Serve_ClockNotRestored ==
    /\ mode = "recovering"
    /\ replayed + 1 \notin Readable
    /\ mode' = "up"
    /\ UNCHANGED <<clock, snapshots, snap, ops, status, owner, chain, pkIndex, pc, cts, cur,
                   horizon, overtaken, replayed, redone, file, acked>>

(* restore_commit_clock with the highest timestamp replayed, then serve. *)
Serve ==
    /\ mode = "recovering"
    /\ replayed + 1 \notin Readable
    /\ clock' = Max({0} \cup {file[i].commit_ts : i \in 1 .. replayed})
    /\ mode' = "up"
    /\ UNCHANGED <<snapshots, snap, ops, status, owner, chain, pkIndex, pc, cts, cur,
                   horizon, overtaken, replayed, redone, file, acked>>

DNext ==
    \/ /\ mode = "up"
       /\ \E t \in Tx : InMemory(t) \/ AppendRecord(t) \/ AppendFails(t) \/ Acknowledge(t)
    \/ Crash
    \/ RedoOp
    \/ NextRecord
    \/ Serve

DSpec == DInit /\ [][DNext]_dvars

------------------------------------------------------------------------------
(* Torn bytes are a tail when nothing was appended behind them. *)
TornIsTail == \A i \in DOMAIN file : file[i] = Torn => i = Len(file)

(* wal.rs: "once a caller sees success, that data survives a crash": the
   record of an acknowledged commit is among those a restart would read. *)
Durable(t) == ops[t] = <<>> \/ \E i \in Readable : file[i] = Record(t)
AckedSurvives == \A t \in acked : Durable(t)

(* The same while torn bytes are a tail, which is what read_all expects of
   them.  AckedSurvives fails once an append has gone behind torn bytes; so
   would the three properties below, which are stated for a torn tail, too. *)
AckedSurvivesTornTail == TornIsTail => AckedSurvives

(* recovery.rs, "a new transaction after recovery never reuses one": no two
   records of the log have the same timestamp. *)
TimestampsAreUnique ==
    TornIsTail =>
        \A i, j \in Readable : i # j => file[i].commit_ts # file[j].commit_ts

(* What the log says of r: the last op on r of the record with the greatest
   timestamp, whatever order the records were appended in. *)
LoggedOps(r) ==
    UNION {{<<i, k>> : k \in {k \in DOMAIN file[i].ops : file[i].ops[k].row = r}} :
           i \in Readable}
LoggedValue(r) ==
    IF LoggedOps(r) = {} THEN NoRow
    ELSE LET last == CHOOSE p \in LoggedOps(r) : \A q \in LoggedOps(r) :
                        \/ file[q[1]].commit_ts < file[p[1]].commit_ts
                        \/ q[1] = p[1] /\ q[2] <= p[2]
         IN file[last[1]].ops[last[2]].data

(* A record whose sync failed is in the file although its commit returned an
   error; a row is clean when no such record writes it. *)
Disowned(i) == status[file[i].by] = "aborted"
Clean(r) == \A p \in LoggedOps(r) : ~ Disowned(p[1])

(* Before and after any number of crashes the store and the log agree: a row
   nobody is committing to reads, at the clock, what the log says of it,
   although records of different rows are appended out of timestamp order
   and recovery replays them in file order.  It is said of clean rows: what a
   failed sync does to the others, FailedStaysFailed below says. *)
StoreMatchesLog ==
    mode = "up" /\ TornIsTail =>
        \A r \in Row : Clean(r) /\ (\A u \in InFlight : ~ Writes(u, r))
                       => Read(chain[r], clock) = LoggedValue(r)

(* wal.rs: "An error here means the write is NOT durable".  A row that nobody
   has written but commits that returned an error is not there, with the one
   exception that contradicts the comment: append does not take the record of
   a failed sync out of the file, and a restart reads it and applies it. *)
FailedStaysFailed ==
    mode = "up" =>
        \A r \in Row :
            (\A t \in Tx : Writes(t, r) => status[t] = "aborted") /\ Read(chain[r], clock) # NoRow
                => \E p \in LoggedOps(r) : p[1] <= replayed /\ Disowned(p[1])
==============================================================================
