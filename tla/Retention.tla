------------------------------ MODULE Retention ------------------------------
(* The learned retention predictor (execution/learned_retention.rs) and the  *)
(* transaction table (execution/transaction.rs) as OLTPEngine::commit drives *)
(* them: after its locks are gone a commit counts each write, asks whether   *)
(* the row's chain is worth sweeping, sweeps it and feeds the result to the  *)
(* model, one mutex at a time.  Of a chain (mvcc_store.rs) there is here the *)
(* number of its live versions and the end timestamps of its dead ones; what *)
(* readers see of it is the subject of OLTPEngine.                           *)
EXTENDS Integers, Sequences, FiniteSetsExt, SequencesExt, Functions, TLC

CONSTANTS Writers, Readers,
          Rows, WriteSets,    \* the sequences of writes a transaction may buffer
          Bootstrap,          \* jittered_bootstrap: row -> interval before a model exists
          PruneThreshold, MinSamples, RetrainEvery, MaxSamples,
          MaxTransactions     \* bound on the ids handed out

\* A buffered write; one transaction may write a row more than once.
WriteOp == [kind : {"insert", "update", "delete"}, row : Rows]

ASSUME RetentionAssumption ==
  /\ IsFiniteSet(Writers) /\ Writers \cap Readers = {} /\ Bootstrap \in [Rows -> Nat \ {0}]
  /\ WriteSets \subseteq Seq(WriteOp) \ {<<>>}
  /\ {PruneThreshold, MinSamples, RetrainEvery, MaxSamples} \subseteq Nat \ {0}

Models == INSTANCE LinearModels WITH Lanes <- 4, LinearWidth <- 16, WindowWidth <- 32

VARIABLES
  transactions,  \* id -> [state, start, end]
  nextId, clock,
  snapshots,     \* id -> the snapshot of an active transaction
  chain,         \* row -> [live, ends]
  writes,        \* writes_since_prune
  samples, model,
  thread,        \* what each writer and reader is doing
  tally          \* history: row -> [commits, counted]

vars == <<transactions, nextId, clock, snapshots, chain, writes, samples, model, thread, tally>>
engine == <<transactions, nextId, clock, snapshots>>
predictor == <<writes, samples, model>>

Idle == [at |-> "idle", id |-> 0, ops |-> <<>>, next |-> 1, horizon |-> 0, seen |-> 0, fit |-> <<>>]

Init ==
  /\ transactions = <<>> /\ nextId = 1 /\ clock = 0
  /\ snapshots = [x \in {} |-> 0]
  /\ chain = [r \in Rows |-> [live |-> 0, ends |-> <<>>]] /\ writes = [r \in Rows |-> 0]
  /\ samples = <<>> /\ model = Models!NoModel
  /\ thread = [p \in Writers \cup Readers |-> Idle]
  /\ tally = [r \in Rows |-> [commits |-> 0, counted |-> 0]]

Become(p, t) == thread' = [thread EXCEPT ![p] = t]
Step(p, from, to) == thread[p].at = from /\ Become(p, [thread[p] EXCEPT !.at = to])
Row(p) == thread[p].ops[thread[p].next].row

(* ------------------------------ Version chains --------------------------- *)
\* expire_live: the newest live version, if there is one, is dead from ts on.
ExpireLive(c, ts) == IF c.live = 0 THEN c ELSE [live |-> c.live - 1, ends |-> Append(c.ends, ts)]

\* apply_insert, apply_update and apply_delete.
Apply(c, op, ts) ==
  LET expired == IF op.kind = "insert" THEN c ELSE ExpireLive(c, ts) IN
  IF op.kind = "delete" THEN expired ELSE [expired EXCEPT !.live = @ + 1]

\* apply_write_set, as far as row r goes.
ApplyAll(r, ops, ts) ==
  FoldLeft(LAMBDA c, op : IF op.row = r THEN Apply(c, op, ts) ELSE c, chain[r], ops)

OnRow(ops, r) == {k \in DOMAIN ops : ops[k].row = r}

(* -------------------------- The transaction table ------------------------ *)
\* execute_update writes only rows it finds; nobody checks the other writes.
Writable(ops) ==
  \A k \in DOMAIN ops : ops[k].kind = "update" => ApplyAll(ops[k].row, SubSeq(ops, 1, k - 1), clock).live > 0

\* begin; the row locks of the write set are taken as the writes are buffered.
Begin(p, ops) ==
  /\ thread[p].at = "idle" /\ nextId <= MaxTransactions
  /\ \A q \in Writers, r \in Rows : thread[q].at = "running" => OnRow(thread[q].ops, r) = {} \/ OnRow(ops, r) = {}
  /\ Writable(ops)
  /\ transactions' = Append(transactions, [state |-> "Running", start |-> nextId, end |-> 0])
  /\ nextId' = nextId + 1
  /\ snapshots' = [i \in DOMAIN snapshots \cup {nextId} |-> IF i = nextId THEN clock ELSE snapshots[i]]
  /\ Become(p, [Idle EXCEPT !.at = "running", !.id = nextId, !.ops = ops])
  /\ UNCHANGED <<clock, chain, tally>> /\ UNCHANGED predictor

Without(f, x) == Restrict(f, DOMAIN f \ {x})

\* abort: also the end of every read snapshot and of a commit that was not logged.
Abort(p) ==
  /\ thread[p].at = "running"
  /\ transactions' = [transactions EXCEPT ![thread[p].id].state = "Aborted"]
  /\ snapshots' = Without(snapshots, thread[p].id)
  /\ Become(p, Idle)
  /\ UNCHANGED <<nextId, clock, chain, tally>> /\ UNCHANGED predictor

\* The write set is applied, the transaction ends, its locks go.
Commit(p) ==
  LET t == thread[p]  ts == clock + 1 IN
  /\ t.at = "running" /\ p \in Writers
  /\ clock' = ts
  /\ chain' = [r \in Rows |-> ApplyAll(r, t.ops, ts)]
  /\ transactions' = [transactions EXCEPT ![t.id].state = "Committed", ![t.id].end = nextId]
  /\ snapshots' = Without(snapshots, t.id)
  /\ tally' = [r \in Rows |-> [tally[r] EXCEPT !.commits = @ + Cardinality(OnRow(t.ops, r))]]
  /\ Become(p, [t EXCEPT !.at = "committed"])
  /\ UNCHANGED nextId /\ UNCHANGED predictor

\* min_active_snapshot, once for the whole write set.
ComputeHorizon(p) ==
  /\ thread[p].at = "committed"
  /\ Become(p, [thread[p] EXCEPT !.at = "record",
       !.horizon = IF DOMAIN snapshots = {} THEN clock ELSE Min({snapshots[i] : i \in DOMAIN snapshots})])
  /\ UNCHANGED <<chain, tally>> /\ UNCHANGED engine /\ UNCHANGED predictor

(* ------------------------------ The predictor ---------------------------- *)
RecordWrite(p) ==
  /\ Step(p, "record", "ask")
  /\ writes' = [writes EXCEPT ![Row(p)] = @ + 1]
  /\ UNCHANGED <<chain, samples, model, tally>> /\ UNCHANGED engine

NextOp(t) == IF t.next = Len(t.ops) THEN Idle ELSE [t EXCEPT !.at = "record", !.next = @ + 1]

\* should_prune reads the counter under one mutex ...
Ask(p) ==
  /\ thread[p].at = "ask"
  /\ Become(p, [thread[p] EXCEPT !.at = "decide", !.seen = writes[Row(p)]])
  /\ UNCHANGED <<chain, tally>> /\ UNCHANGED engine /\ UNCHANGED predictor

AtLeast(q, n) == q[1] >= n * q[2]
WorthSweeping_OneLate(row, n) ==
  n # 0 /\ IF model = Models!NoModel THEN n > Bootstrap[row] ELSE AtLeast(Models!Predict(model, Models!Whole(n)), PruneThreshold)

WorthSweeping(row, n) ==
  n # 0 /\ IF model = Models!NoModel THEN n >= Bootstrap[row] ELSE AtLeast(Models!Predict(model, Models!Whole(n)), PruneThreshold)

\* ... and the model under another.
Decide(p) ==
  /\ thread[p].at = "decide"
  /\ Become(p, IF WorthSweeping(Row(p), thread[p].seen) THEN [thread[p] EXCEPT !.at = "sweep"] ELSE NextOp(thread[p]))
  /\ UNCHANGED <<chain, tally>> /\ UNCHANGED engine /\ UNCHANGED predictor

\* prune_row: the live versions stay.
Sweep(p) ==
  LET ends == chain[Row(p)].ends
      kept == SelectSeq(ends, LAMBDA e : e > thread[p].horizon)
  IN /\ thread[p].at = "sweep"
     /\ chain' = [chain EXCEPT ![Row(p)].ends = kept]
     /\ Become(p, [thread[p] EXCEPT !.at = "reset", !.seen = Len(ends) - Len(kept)])
     /\ UNCHANGED tally /\ UNCHANGED engine /\ UNCHANGED predictor

Reset_OnlyOwn(p) ==
  LET x == IF Bootstrap[Row(p)] < writes[Row(p)] THEN Bootstrap[Row(p)] ELSE writes[Row(p)] IN
  /\ thread[p].at = "reset"
  /\ writes' = [writes EXCEPT ![Row(p)] = 0]
  /\ tally' = [tally EXCEPT ![Row(p)].counted = @ + x]
  /\ Become(p, [thread[p] EXCEPT !.at = "sample", !.fit = <<<<x, thread[p].seen>>>>])
  /\ UNCHANGED <<chain, samples, model>> /\ UNCHANGED engine

\* record_prune_result: the counter is read and reset under one mutex, ...
Reset(p) ==
  LET x == writes[Row(p)] IN
  /\ thread[p].at = "reset"
  /\ writes' = [writes EXCEPT ![Row(p)] = 0]
  /\ tally' = [tally EXCEPT ![Row(p)].counted = @ + x]
  /\ Become(p, [thread[p] EXCEPT !.at = "sample", !.fit = <<<<x, thread[p].seen>>>>])
  /\ UNCHANGED <<chain, samples, model>> /\ UNCHANGED engine

\* ... the sample joins the window under a second, ...
Sample(p) ==
  LET all == samples \o thread[p].fit
      window == SubSeq(all, Max({1, Len(all) - MaxSamples + 1}), Len(all))
      trains == Len(window) >= MinSamples /\ Len(window) % RetrainEvery = 0
  IN /\ thread[p].at = "sample"
     /\ samples' = window
     /\ Become(p, IF trains THEN [thread[p] EXCEPT !.at = "train", !.fit = window] ELSE NextOp(thread[p]))
     /\ UNCHANGED <<chain, writes, model, tally>> /\ UNCHANGED engine

\* ... and a fit of the copied window replaces the model under a third.
Train(p) ==
  LET set == thread[p].fit
      fitted == Models!Fit([i \in DOMAIN set |-> set[i][1]], [i \in DOMAIN set |-> set[i][2]])
  IN /\ thread[p].at = "train"
     /\ model' = IF fitted = Models!NoModel THEN model ELSE fitted
     /\ Become(p, NextOp(thread[p]))
     /\ UNCHANGED <<chain, writes, samples, tally>> /\ UNCHANGED engine

Next ==
  \/ \E w \in Writers : \E ops \in WriteSets : Begin(w, ops)
  \/ \E r \in Readers : Begin(r, <<>>)
  \/ \E p \in DOMAIN thread : Abort(p)
  \/ \E w \in Writers : \/ Commit(w) \/ ComputeHorizon(w) \/ RecordWrite(w) \/ Ask(w) \/ Decide(w)
                        \/ Sweep(w) \/ Reset(w) \/ Sample(w) \/ Train(w)

Spec == Init /\ [][Next]_vars

(* ------------------------------- Properties ------------------------------ *)
Counting(r) == {p \in Writers : thread[p].at \in {"ask", "decide", "sweep", "reset"} /\ Row(p) = r}
\* The committed writes of p to r that record_write has not counted.
Awaiting(p, r) ==
  {k \in OnRow(thread[p].ops, r) :
     \/ thread[p].at \in {"committed", "record"} /\ k >= thread[p].next
     \/ thread[p].at \in {"ask", "decide", "sweep", "reset", "sample", "train"} /\ k > thread[p].next}
Unrecorded(r) == UNION {{p} \X Awaiting(p, r) : p \in Writers}

\* Before a model exists no row is written its bootstrap interval without a
\* sweep, but for the writers that are about to decide: the fallback is never
\* "never sweep", whatever two threads do to one counter.  A fitted model may
\* well say "never": one that was taught by sweeps that removed nothing.
BootstrapSweeps ==
  model = Models!NoModel => \A r \in Rows : writes[r] < Bootstrap[r] + Cardinality(Counting(r))

\* Each committed write is in the counter, in one sample or on its way: two
\* threads that sweep one row neither lose nor repeat one, nor does the reset.
EveryWriteIsCountedOnce ==
  \A r \in Rows : tally[r].commits = tally[r].counted + writes[r] + Cardinality(Unrecorded(r))
=============================================================================
