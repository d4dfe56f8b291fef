# ShrestiDB: a verification development

TLA+ modules for ShrestiDB, from its row locks to its SQL front end, the TLC
configurations that check them, and theorems about them checked by TLAPS: locks,
transactions, the log, retention, UPDATE, the secondary index, the catalog and
the database a log makes, insertion into HNSW and its search. Every definition is
translated from the Rust source;
`PROJECT.json` gives the lines each one stands for, the hazards the properties
are aimed at, and the places where the code and its documentation disagree.

## 1. The system

ShrestiDB is one process. `QueryExecutor` (src/src/execution/executor.rs) parses
and plans a SQL statement and runs it, in the caller's thread, against an
in-memory multi-version store. Several threads may share one executor; all
sharing goes through mutexes, read-write locks and one atomic counter.

| component | source | state | operations | module |
|---|---|---|---|---|
| Row lock manager | `lock_manager.rs` | under one mutex: `entries` (row → holders, waiters), `held_by` (transaction → rows); one condition variable for all waiters | `acquire_shared`, `acquire_exclusive` (100 ms timeout), `release_all` | `RowLock`, `LockManager` |
| Transaction engine | `oltp.rs`, `transaction.rs` | `commit_clock` (atomic), `snapshots`, `write_sets`, transaction states, each under its own mutex | `begin`, `read`, `scan_table`, `write`, `commit`, `abort`, `with_read_snapshot`, `log_schema_change`, `log_index_change` | `OLTPEngine`, `Database` |
| MVCC store | `mvcc_store.rs` | per table: row → version chain, primary-key index | `apply_write_set`, `read`, `scan`, `prune_row`, `create_table`, `index_range` | `MVCCStore`, `OLTPEngine`, `Database` |
| Learned retention | `learned_retention.rs` | per row: write counters; a sample window, a linear model | `record_write`, `should_prune`, `record_prune_result` | `Retention` |
| Write-ahead log, recovery | `wal.rs`, `recovery.rs`, `QueryExecutor::open` | an append-only file of length-prefixed records | `open`, `append` (with fsync), `read_all`; replay into catalog, store and clock, rebuild of the indexes | `DurableEngine`, `Database` |
| Catalog | `catalog.rs` | tables by id and by name | `register_table`, lookups | `Database` |
| Write statements, DDL | `executor.rs` | secondary and vector indexes | INSERT, UPDATE, DELETE, CREATE TABLE, CREATE INDEX | `SqlStatements`, `Database` |
| Queries, prepared statements | `executor.rs`, `aggregate.rs` | statistics of ANALYZE | SELECT: scans, joins, groups, sorting; placeholders | `QueryExecutor`, `Relational`, `QueryReference` |
| Row codec | `row_codec.rs` | none | conditions: parser, three-valued evaluation; SET expressions; sort and hash keys | `Values`, `Predicates` |
| Secondary index | `secondary_index.rs` | value → row ids | `insert`, `equals`, `range` | `SqlStatements`, `QueryExecutor` |
| SQL front end | `sql/parser.rs`, `sql/binder.rs` | none | from sqlparser's tree to a statement; names against the catalog | `SqlParser`, `Database` |
| Optimizer | `optimizer/` | none | plans, join order, selectivities, costs | `Planner`, `JoinOrder`, `ColumnStats` |
| Learned indexes, B+ tree | `index/pgm.rs`, `rmi.rs`, `models.rs`, `btree.rs` | segments and an insert buffer; models; nodes | build, insert, search, range search | `PGMIndex`, `LinearModels`, `BTreeIndex` |
| HNSW index | `index/hnsw.rs` | a layered graph, a lock per list, entry point and level under two more | `insert`, `search`, `remove` | `HNSW` |
| Kernels | `compute/` | none | searches, filters, vector arithmetic | `SearchKernels`, `VectorMath` |
| Assistant | `ai/mod.rs` | none | a prompt to a statement | `Assistant` |
| Distributed scaffold | `distributed/` | bounded task queue, worker table | enqueue, next task, partitioning; nothing constructs it | — |
| Studio, binaries | `studio.rs`, `main.rs`, `bin/` | none that matters here | terminal and HTTP I/O | — |

(Sources without a directory are in src/src/execution/.)

### How the parts interact

A statement begins a transaction (`begin`: load the clock, then register the
snapshot), scans rows at the snapshot, locks each row it will change, buffers its
writes, and commits. `commit` takes a timestamp with `fetch_add`, appends the
write set to the log, applies it to the store one operation at a time, releases
the locks, removes the snapshot, computes a horizon (the oldest registered
snapshot) and, for the rows the retention predictor picks, drops the versions
that ended at or before it. None of this is one critical section: `commit`
takes and gives back a mutex for every one of these steps. After `commit`
returns, the executor updates the secondary and vector indexes. CREATE TABLE
holds the catalog's lock while it logs and registers, and creates the table in
the store after it; CREATE INDEX logs, scans and registers in three steps. A
query takes the tables of a join one by one, each under a snapshot of its own.
All of memory is rebuilt from the log by `open`.

### What is hard here

- *Order inside commit and begin.* The clock moves before the writes are there;
  a snapshot counts for pruning only some time after its clock was read; a
  horizon is computed once and used later.
- *Waiting.* One condition variable for all rows, a FIFO rule for shared
  requests, re-entry and upgrade, timers that race with releases. Deadlocks are
  not detected, only timed out.
- *Failure inside commit and DDL.* The append can fail or be cut short by a
  crash at any byte, `sync_data` can fail after the bytes are written, and the
  timestamp has been taken by then. Records reach the log in an order that is not
  the timestamp order. DDL is logged before it is done.
- *Indexes.* They are updated after the commit, never cleaned, built from a scan
  that is over before the index is registered, and consulted by statements that
  hold no lock. Their candidates are hints only.
- *Stale reads.* UPDATE re-reads a row under its lock; DELETE does not.
- *Reordering.* Placeholders are counted in the order of the text and bound in
  the order of the plan; the optimizer moves joins; access paths replace filters.
- *Learned structures.* A rank is predicted in floating point and corrected by a
  bounded search; a model decides when rows are swept.
- *Fine locks.* HNSW holds no lock across the layers of an insert.

What makes each component correct: the lock manager owes mutual exclusion, no
lost wake-up, an answer to every request and nothing held after `release_all`;
the engine owes exact snapshot reads, current reads under a lock, invisible
pruning, nothing leaked; retention owes every write a count and every hot row a
sweep; log and recovery owe that what was acknowledged is there after any crash,
what was refused is not, and no timestamp is used twice; the catalog owes one id
per name; the write statements owe no lost update and exactly the rows their
WHERE means; a query owes the answer its text means, whatever the plan, or an
error if it is outside the language; the indexes owe the answer a scan would
give. `PROJECT.json` lists the hazards with their lines.

## 2. The modules

| module | models | composes or refines |
|---|---|---|
| `RowLock` | the promise: exclusive row locks with at most one owner, released all at once | |
| `LockManager` | lock_manager.rs, a critical section per action | implements `RowLock` |
| `MVCCStore` | operators on version chains (mvcc_store.rs) | |
| `OLTPEngine` | oltp.rs, one access to shared state per action | `MVCCStore`, `RowLock` |
| `DurableEngine` | wal.rs, crashes, recovery.rs | `OLTPEngine` |
| `SqlStatements` | the statements of executor.rs on one table, concurrently, with secondary_index.rs | `OLTPEngine` |
| `Retention` | learned_retention.rs and transaction.rs as commits drive them | `LinearModels` |
| `Values`, `Predicates` | row_codec.rs: values, conditions, SET, placeholders | |
| `SqlParser` | sql/parser.rs on the trees of the sqlparser library | `Predicates` |
| `Database` | catalog, DDL, typed write statements, indexes, log records, recovery | `SqlParser` |
| `Assistant` | ai/mod.rs beside the sessions | `Database` |
| `SearchKernels`, `VectorMath` | compute/: lanes, tails, searches, distances | |
| `LinearModels` | index/models.rs, index/rmi.rs | `SearchKernels` |
| `PGMIndex` | index/pgm.rs, static and dynamic | `SearchKernels` |
| `BTreeIndex` | index/btree.rs | `SearchKernels` |
| `ColumnStats` | optimizer/cardinality.rs | `PGMIndex` |
| `IndexWorkload` | the index structures under one history of inserts | the six above |
| `JoinOrder`, `Planner` | join_reorder.rs, cost_model.rs, planner.rs | `Predicates`, `ColumnStats`, `SqlParser` |
| `Relational` | joins, aggregates, sorting, DISTINCT, LIMIT on rows in memory | `Planner` |
| `QueryExecutor` | a SELECT from text to answer, a plan node per action, among other connections | `Relational` |
| `QueryReference` | what a SELECT means, without plans, rows in sequence or token streams | states the properties of `QueryExecutor` |
| `HNSW` | index/hnsw.rs, a lock per action, several threads | |
| `MC*` | constants, workloads and symmetry for TLC | |
| `LockManagerProofs`, `HNSWProofs`, `RetentionProofs` | theorems about one module each | |
| `OLTPEngineProofs` | theorems about the engine: types, pruning, locks, the index, reads | |
| `DurableEngineProofs` | theorems about the log, crashes and recovery | rests on `OLTPEngineProofs` |
| `SqlStatementsProofs` | theorems about UPDATE | rests on the engine's |
| `SqlIndexProofs` | theorems about the secondary index and SELECT | rests on `SqlStatementsProofs` |
| `DatabaseProofs` | theorems about catalog, typed rows, log and indexes, the assistant included | about `Assistant`, hence `Database` |

`LockManager` implements `RowLock` (theorem `RowLockRefinement`, property
`ImplementsRowLock`), which is why `OLTPEngine` may be written over `RowLock`:
its `Write` and `LockRow` take a lock with `Lock!Acquire` and its `Release` is
`Lock!ReleaseAll`. A wait or a timeout is invisible at that level, where the
caller simply has not got the lock, or aborts. The layers above divide the work:
`SqlStatements` interleaves statements step by step but knows rows only as
values; `Database` knows schemas, types and predicates but takes the transaction
of a write statement in one step; `Retention` keeps of a chain the ends of its
dead versions only, because what readers see of it is `OLTPEngine`'s.

**LockManager.** `pc[t]` is where t's thread is in `acquire`: outside, about to
run an iteration of the loop, parked, or back from a timer. `Grant`, `Queue` and
`GiveUp` are the three ways an iteration ends, `TimerFires` and `NotifyAll` the
two ways out of the condition variable. `ReleaseAll` is enabled whenever t is
not inside `acquire`. The holder and waiter vectors become functions from
transactions to modes because the code never reads their order.

**MVCCStore.** A chain is a set of versions, each with its push number, in place
of a `Vec` with the newest in front: `read`'s "first visible" is the visible
version with the greatest number, `expire_live`'s first live one likewise.
Nothing in the operators assumes that lifetimes are disjoint.

**OLTPEngine.** One action per access to shared state: `BeginLoad`,
`BeginRegister`, `Write`, `LockRow`, `Commit` (the `fetch_add`), `LogWrites` or
`LogFails`, `ApplyOp` and `IndexInsert` (the two halves of `apply_insert`),
`Applied`, `Release`, `Unsnap`, `ComputeHorizon`, `Sweep` or `SkipSweep`,
`CommitReturns`, `Abort`. Reads change nothing and are operators
(`View`, `LockedValue`). The callers' discipline is part of the model, because
the engine itself checks nothing: `ClientMayWrite` says that UPDATE writes only
rows it has just re-read under the lock, that DELETE writes without a second
look, and, when `UniqueKeys` is set, that a key with a live row is not inserted
again. `SkipSweep` stands for every "no" of the retention predictor, so safety
does not depend on what it learned. `overtaken[t]` is history: it records that
some committer computed a horizon while t had its timestamp and was not yet
registered.

**DurableEngine.** The log is a sequence of records and torn frames. `Fault`
says what the environment may do: crash at any moment (recovery included), fail
an append with nothing, torn bytes or the whole record written. `Crash` loses
everything but the file. Recovery is as fine as the code's loops: `RedoOp` applies
the next operation of the record it is at, and enters the key of an INSERT in the
index, `NextRecord` moves on, `Serve` restores the clock and opens the engine; a
crash may come between any two of them.

**SqlStatements.** Every transaction but one is a statement of a client thread;
`at[t]` is where the executor is with it and the engine's `pc[t]` runs below. A
SELECT looks its candidates up in an index *before* it begins a transaction
(`SelectLookUp`, `BeginAfterLookUp`), UPDATE and DELETE after (`WriteLookUp`);
candidates are read one by one (`Fetch`); rows are then written one by one
(`InsertRow`, `UpdateRow`, `DeleteRow`). UPDATE takes the lock, reads the row
again, and may find it gone or changed (`UpdateSkips`) or be unable to compute
its SET (`UpdateFails`); DELETE writes what its snapshot showed. A lock may time
out (`LockTimesOut`) while somebody else has the row. After the commit has
returned, index entries are added a row at a time (`IndexRow`). CREATE INDEX
builds from a snapshot scan (`BuildIndex`) and puts the result in place later
(`Register`). The index maps values to the *sequence* of rows entered, because
duplicates and stale entries matter: only SELECT turns candidates into a set.
The transaction `Loader` stands for the rows a test would start with; its INSERT
has committed at timestamp 1. `before[t]` (what had returned when t was called)
and `raced` (a writer overlapped a CREATE INDEX) are history. `OLTPEngine`
actions are used as they are; `SqlStatements` decides only when they happen. The
instances set `UniqueKeys`, so a second INSERT of a key that has a live row stays
where it is: what it would do is among the disagreements of section 4.

**Retention.** A commit that has given up its locks walks over its write set
through the mutex sections of the predictor: `RecordWrite`, `Ask` (the counter),
`Decide` (the model), `Sweep` (the chain), `Reset` (the counter, and the writes it
held become a sample), `Sample` (the window), `Train`. Between any two of them
another committer may be at the same row. A write set holds inserts, updates and
deletes, a row twice if the statement does so; every one is counted, but an insert
leaves no dead version, nor does an update or a delete of a row that is not there
(`Apply`). Of a chain there is the number of live versions and the ends of the
dead ones. The fit is exact least squares from `LinearModels`. `Bootstrap[r]` is the
jittered interval of a row. `tally` is history.

**Values, Predicates, SqlParser.** A value is a variant and an integer; a Float
is counted in halves, so Integer and Float meet; a String is its rank. A
condition reaches the engine as text, so it is a sequence of tokens here and the
recursive-descent parser is modelled over them, with what it does not take
(`Reject`). `Compile` and `Eval` are three-valued, `BindPlan` and the placeholder
scan keep the order in which the code counts. `SqlParser` converts a syntax tree
or refuses it: a result is a set, empty for `Err`. What recurses in the code
recurses here as a function of numbers or paths, not as an operator: `ParseChains`
is the operands of an AND or OR from a position on, `EvalTri` goes down the paths
of a tree. Theorems can then be stated above these modules.

**Database.** Sessions send statements. A statement is parsed and bound when it
is received (`Receive`), and then runs in the steps others can come between:
`CreateTable` (the check under the lock, the log record, the catalog entry) and
`StoreTable`; `LogIndex`, `ScanForIndex`, `RegisterIndex`; `Write` (the
transaction) and `EnterRow` (one index entry at a time), `Return`. `Crash` leaves
the log, `Recover` is `open`. A secondary index is the set of the values entered
with their row ids (the duplicates the code keeps in a list make no difference to
what a look-up finds), a vector index the ids and the positions they were inserted
with. A vector is a payload whose number of components is `Length`; it enters an
index only if that is the dimension of the column (`HasDims`), since both callers of
`HNSWIndex::insert` ignore its error. The instance
is opened either on an empty log or on the log of an earlier session with one
table, two rows and two indexes, in which one key may have been inserted twice.
`Redo` is one turn of recovery's loop and `Replay` all of them; `Consistent` says
what a replayed log is like, and `LogAssumption` that the first one is of that kind.

**Assistant.** A prompt is its key words and table names. `Chat` answers from a
summary of catalog and store, `Speak` executes the statement it made of a prompt
in the session, among whatever the other session does meanwhile.

**QueryExecutor.** `ExecuteSql`, or `Prepare` and `ExecutePrepared`, choose a
plan from `Plans`, the set of all plans that the statistics, hash order and
rounding allow; then each node is an action (the table scan, the index nodes with the
look-up and the read as two steps, `FilterNode`, `JoinNode`, ...). In between
other connections commit a whole new content of a table (`Commit`), create
indexes or analyze, `MaxCommits` times. `read` remembers the contents each
scan saw: `AnswersAreRight` compares the answer with the meaning of the statement
on exactly those contents.

**QueryReference** is the abstract specification of a SELECT: a statement is a
tree, a row of a join is a combination of row ids, AND and OR are minimum and
maximum of 0, 1, 2, an outer join is a set difference, groups are a partition,
ORDER BY and LIMIT a condition on sequences. The answer has to be in the set of
sequences it allows: ties may come in any order.

**HNSW.** `insert[th]` is where a thread is in `insert`. The entry point and the
level are read under two locks, layers are searched under the read lock of the
node map (one step), forward edges are written (`SetForward`), each reverse edge
is pushed (`AddReverse`) and, the lock given back, pruned (`Prune`), and the entry
point and the level are promoted in two steps. Vectors are points of a line with
pairwise different distances.

**PGMIndex, LinearModels, BTreeIndex, ColumnStats, SearchKernels, VectorMath** are
pure operators. Slopes are fractions; where f64 may round an exact integer down,
`Predictions` holds both outcomes and every property quantifies over them.
`IndexWorkload` inserts keys one at a time, repeats included, into a
`DynamicPGMIndex`, a static one rebuilt and a tree.

Definitions with an underscore (`CanGrant_IgnoresHolders`, ...) are deliberate
mistakes. The specifications never use them; put in the place of the definition
they are named after, each makes a property fail. They show that the properties
can notice the bugs they are there for.

## 3. The runs

| run | instance | states | what it shows |
|---|---|---|---|
| `lock_exclusive` | 3 transactions, 2 rows, X only | 55 751 | the two maps agree, no ghost in a queue, no lost wake-up, `RowLock` is implemented; every `acquire` returns |
| `oltp_chain` | 3 transactions, 2 rows, 2 values, 1 operation each | 1.66 M | exact snapshot reads, current reads under the lock, invisible sweeps, nothing leaked |
| `oltp_sweep` | 3 transactions, 1 row | | *violation of* `SweepIsSafe` |
| `durable_crash` | 2 transactions, 2 rows, 2 values, 2 operations each; crashes, errors, torn frames, failed syncs | 0.83 M | acknowledged commits survive, timestamps are not reused, store and log agree on rows that no failed sync has left a record of, failed commits stay failed until a restart reads such a record, the primary-key index is complete after recovery too |
| `durable_torn` | 2 transactions, 1 row; crashes with torn frames | | *violation of* `AckedSurvives` |
| `sql_mixture` | any 3 statements out of 6 kinds, 2 rows (one loaded), 2 values | 2.1 M | no lost update, no row lost from the index unless CREATE INDEX overlaps a writer, a SELECT through any access path sees what earlier statements left, once |
| `index_search` | all histories of 6 inserts of 5 keys, 12 probes, windows and lanes scaled down | 19 531 | learned indexes find what they hold within their bounds, ranges miss nothing, rebuilds stay amortised, the tree is a balanced map, kernels agree with their scalar meaning, estimates of a comparison and its negation add up |
| `query_answers` | 70 statements, 3 tables with 1 or 2 contents, 2 commits, CREATE INDEX or ANALYZE in between | 129 068 | each answer is one the statement means on the tables as read, the order of groups excepted; the statements outside the language are refused and no others, but for a mistyped literal an index is asked for and for ORDER BY over groups, which also is all that can panic |
| `query_columns` | filters with a column on both sides, an index | | *violation of* `AnythingElseIsScanned` |
| `hnsw_insert` | 2 threads, 4 vectors, 1 removal | 472 588 | capacities hold, searches in between are sound, the entry point is the highest node, search is exact while nothing overlapped or was pruned |
| `database_ddl` | 2 sessions, 3 out of 20 statements or 8 prompts, vectors of two lengths, failed appends, 1 crash, three initial logs | 314 119 | log, catalog, rows and indexes agree; names and ids are one to one; write statements mean what they say; the assistant is understood |
| `retention` | 2 writers that insert, update and delete, a long reader, 2 rows, 4 transactions | 1.52 M | no row misses its bootstrap interval, each write is counted once |

### Bounds, and why they are enough

- *Transactions.* Each begins once, so the clock never passes their number:
  `MaxTs = Cardinality(Tx)` excludes nothing. In `oltp_sweep` three are the
  fewest that show the fault (one creates the row, one changes it, one reads),
  so three are the least the passing runs must have to mean anything.
  `durable_crash` has two, one of which may run before and one after a crash, or
  both around one; its properties about the log relate at most two records. A
  fourth would add a second reader or a longer chain; versions interact only with
  the one above and below, and a read depends on one version.
- *Rows.* Two let records reach the log out of timestamp order, commits on other
  rows be in flight, and lock cycles form. Operations on a third row commute
  with everything.
- *Operations* (`MaxOps`). Two are needed for a half-applied write set, for an
  overwritten own write and for an order within a record.
- *Statements.* Three clients of `SqlStatements` take any statement of the
  mixture, the same one included. A lost update needs two of them, an index that
  misses or duplicates a row three (build, write, read). `Database` sends three in
  total: two that overlap and one before or after them. Its statements are
  chosen so that each kind of refusal, type error, stale index candidate and
  recovery path occurs, vectors of the column's length and of another (`MCLength`);
  row ids wrap at `TwoTo64`, scaled down to 256.
- *Crashes* are not bounded in `DurableEngine` (a crash adds at most one frame,
  and a transaction that was running is over). `Database` has one, at any step,
  recovery included.
- *Queries.* The contents hold NULLs, duplicates, unmatched rows on both sides
  and equal sort keys; the statements are all filters, join kinds, groupings and
  clauses the executor distinguishes, and what it must refuse. Two foreign
  commits fall between any two nodes, so a join may see two states of a table.
- *Index structures.* Six inserts of five keys, four of them consecutive, force
  repeats, three segments, three rebuilds and a tree of height three. `Lanes` 2,
  `LinearWidth` 2 and `WindowWidth` 4 in place of 4, 16 and 32 bring chunks and
  tails to lists of that length; `GrowthDivisor` is 1 in place of 8. The error bound of
  `index_search` gives windows short enough to be scanned, as that of the row-id
  index does (8, mvcc_store.rs:24); the binary search of a wider one, such as that
  of the benchmark of studio.rs:377 (16), is checked on its own.
- *HNSW.* `M = 2` makes lists overflow with four nodes; two levels make an entry
  point be promoted. Distances are pairwise different, so a set is ordered in one
  way. Two threads are the fewest that interleave; a third meets the same locks.
- *Retention.* 2 samples to fit, a refit every 2 and a window of 2 in place of
  30, 20 and 200 reach the fitted model within four transactions, and the window is
  full at a refit, as 200 is a multiple of 20.
- *Symmetry* is used for transactions, rows, values, threads, sessions and
  writers, never in a run with a temporal property.
- `CHECK_DEADLOCK FALSE` is set where the system really stops: every transaction
  has ended, every statement was sent, every insert was made. The lock manager's
  run checks for deadlock.

### Fairness

Only `lock_exclusive` checks liveness (`AcquireReturns`). A thread inside
`acquire` runs its next iteration (weak fairness of `Grant`, `Queue`, `GiveUp`
together: the mutex is held only for short sections and the operating system
schedules the thread), its deadline passes (the clock), and the timer of
`wait_for` fires. Nothing is assumed of callers: a holder may never release,
which is what makes the property say that deadlocks are broken.

## 4. Where code and documentation disagree

Three have a run. Its property is what the documentation, a comment or the name of
the thing says; TLC finds it violated.

1. `oltp_sweep` (oltp.rs:120): a sweep drops versions of a transaction that has
   read the clock and not yet registered. `commit` calls the sweep "always safe"
   (oltp.rs:194).
2. `durable_torn` (wal.rs:55): the log is opened for appending behind the torn
   bytes of an earlier crash. Everything acknowledged after that restart is behind
   bytes the next restart stops at.
3. `query_columns` (executor.rs:1088): an indexed column compared with another
   column asks the index for NULL and finds nothing. So does one compared with a
   literal of another type (`Mistyped`), whether or not the comparison would be an
   error without the index; `RefusedExactlyIfUnsupported` excepts it.

Of the others the passing runs state the strongest thing that is still true, with
the exception in a formula or a constant. The first six contradict a comment of the
code. `KernelsMatchScalar` and the refusal of a NULLS clause are exact, so that
their runs would notice a repair too; the other four would notice that the exception
has grown.

- wal.rs:70: an append whose `sync_data` fails returns an error, which "means the
  write is NOT durable" (wal.rs:60), and the transaction aborts; its whole record is
  in the file, and the next restart applies it. `FailedStaysFailed` has just this
  exception: a row only failed commits wrote is not there unless a restart has
  read a record of theirs. `StoreMatchesLog` is said of the rows without such a
  record (`Clean`). "sync" is among the faults of `durable_crash` and of the theorems
  about both.
- simd_ops.rs:33: `binary_search` keeps the half before the middle when the middle is
  not less than the target, and so loses a target that is the middle;
  `bounded_search`, "designed specifically for learned index structures" (line 40),
  uses it for windows above 32, and `PGMIndex::search` misses keys there.
  `KernelsMatchScalar` says of exactly which keys (`Middles`).
- executor.rs:870: `ORDER BY f DESC NULLS LAST` is refused, where the doc of
  `parse_order_by` says that the clause is silently ignored (row_codec.rs:569).
  `RefusedExactlyIfUnsupported` counts it among what is refused (`NullsClauses`).
- executor.rs:779: an Aggregate node keeps the schema of its input, so ORDER BY over
  groups sorts by a wrong column or panics; the comment at the Sort node says it is
  "not a silent wrong order" (821). `AnswersAreRight` leaves the order of groups out
  (`SortsGroups`), and only such a statement may panic.
- row_codec.rs:118: a vector literal of any length is stored in a vector column, and
  `HNSWIndex::insert`, which does compare the lengths (hnsw.rs:321), has its error
  ignored (executor.rs:1974, 1992): the row is in no vector index. `Vector(384)`
  "stores exactly 384" components (catalog.rs:25). `IndexesCoverRows` is said of
  vectors of the right length (`HasDims`).
- learned_retention.rs:112: sweeps that removed nothing, because a reader held the
  horizon or because the writes were inserts, which are counted like updates
  (oltp.rs:221), fit a model that predicts nothing for any number of writes, and
  without sweeps there are no samples to teach it otherwise. Line 56 promises that
  a row is "always eventually" swept. `BootstrapSweeps` is said of the time before a
  model is fitted.

The rest were met while modelling.

*Transactions and locks*

- A shared holder that asks for X gets it next to other shared holders
  (lock_manager.rs:55; line 9 says S and X exclude each other). The engine asks
  for X only. With `Mode = {"S", "X"}` and three transactions `NoLostWakeup` fails
  as well: a waiter that gives up does not notify, and a shared request queued
  only behind it sleeps until its own timeout.
- A transaction that begins between a committer's `fetch_add` (oltp.rs:199) and
  the end of its `apply_write_set` (213) sees those writes appear, one row at a
  time, while it runs; src/README.md:162 promises a snapshot.
  `SnapshotReadsAreExact` excepts rows with such a commit in flight.
- Two INSERTs of a key leave two live versions, and a DELETE ends only the newer
  (mvcc_store.rs:170): the older row is back. `UniqueKeys` excludes it. A restart in
  between builds the indexes from the newer one, and the row that is back is in none
  (`Uncovered`).

*Write statements and DDL*

- DELETE never compares WHERE again under the lock (executor.rs:1762), so it
  deletes a row that a concurrent UPDATE has moved out of its WHERE.
- A row committed between the scan of a CREATE INDEX and the registration
  (executor.rs:1925, 1935) is in neither; `IndexFindsRowsUnlessRaced`.
- An UPDATE by an indexed range gets a row twice when a stale entry and the
  current one are both in the range, and counts it twice (executor.rs:1534).
  A row that is committed and not yet entered is missed by UPDATE and DELETE.
- SET copies the value of another column whatever its type (row_codec.rs:341). An
  Integer in an indexed Float column is not where the index looks, and a DELETE or
  UPDATE whose WHERE is true of the row leaves it. The comment on
  `candidate_rows_for_write` says that a wrong candidate costs only work
  (executor.rs:1503), the one on `IndexKey` that a column has one type
  (secondary_index.rs:29); `Searchable` excepts such a value.
- CREATE TABLE takes two columns of one name; every look-up finds the first
  (`Named`).
- A SELECT asks the index before its snapshot exists (executor.rs:1051), and each
  table of a join has a snapshot of its own (959).
- The vector index keeps the old position of an updated vector and of a key
  that is deleted and inserted again (executor.rs:1984).
- If the append of a CREATE TABLE fails in `sync_data`, the record is in the log
  and its id is given to the next table. `database_ddl` leaves that fault out.
- NOT NULL is never enforced. A negative primary key is stored as `u64`, and
  `WHERE id = -1` finds nothing through the primary-key index.

*Queries*

- A hash join keeps Integer and Float apart, a nested loop compares them.
- `parse_order_by` says NULL comes first whatever the direction (row_codec.rs:570);
  descending puts it last.
- SELECT * over reordered joins gives the columns in join order; `t.*` in a join
  gives all columns.
- The parser drops a second FROM table, a second statement, all but one column of
  CREATE INDEX, the list of DISTINCT ON; SEMI and ANTI joins become inner ones;
  INSERT ... SELECT inserts nothing.
- planner.rs:240 calls the row count of a column's statistics the table's; NULLs
  are not in it. `join_reorder` minimises the rows that joins put out, the plan's
  cost charges what they take in.

*Indexes, assistant*

- Two overlapping first inserts into HNSW, or a forward list written over a
  reverse edge, leave nodes no search finds; the entry point and its level are
  promoted under two locks (hnsw.rs:320, 398). A node far from all others is
  pruned from every list (411). `ExactWhileSmall` excepts both.
- The assistant's summary panics for a table that is in the catalog and not yet in
  the store, a state mvcc_store.rs:245 calls legitimate; its age filter names a
  column that most tables do not have.
- The hash partitioner of the distributed scaffold puts all small integers in
  partition 0.

## 5. What is proved

The theorems hold for arbitrary sets of transactions, rows and values, infinite
ones included, where nothing else is said; `Writers` of `Retention`, the row
ids of `SqlStatements` and the ids and threads of `HNSW` are finite. Each invariant below was checked by TLC on the
instance of its module before it was proved.

**LockManagerProofs.** `TypeCorrect`. `HeldByCorrect`: `held_by` and the entries
name the same holdings and no queue has a ghost, for all modes. The invariant is
`Bookkeeping == TypeOK /\ HeldByMatchesHolders /\ QueueIsLive`; the second part
needs the third for `ReleaseAll`, which drops an entry only if its queue is
empty, and the third needs the first to know that a request has a key. With
`Mode = {"X"}`, as the engine uses it: `MutualExclusion`, `WakeupsAreNotLost`
and `RowLockRefinement`. They rest on `ExclusiveInv`, which adds `OneHolder` and
`NoLostWakeup`; one holder is what makes `OwnerOf` of the refinement mapping
well defined, and it is where S and X together would fail.

**OLTPEngineProofs.** `TypeCorrect` needs more than types: `Newest` must exist in
every chain an operator looks into, so the invariant `Typed` bounds the push
numbers of a chain by its counter, and a bounded non-empty set of naturals has a
greatest element (`NatMax`, from well-foundedness of `<` on the naturals).
`NothingLeaks`: whatever way a transaction ends, it holds no lock and no
snapshot (`Registration` and `Ownership` tie both to the program counter).
`PruningIsInvisible`: no prune changes what a running transaction reads, unless a
horizon overtook its begin. The argument is `HorizonsAreLow`: while a committer
sweeps, its horizon is at most every registered snapshot. It needs
`SnapshotsArePast` (a snapshot taken later is at least the clock, the clock never
goes back, and the horizon was at most the clock), and it holds for transactions
that are only `loaded` when no horizon overtook them. `PruneKeepsReads` is the
lemma on chains: dropping versions that ended by the horizon does not change a
read at or above it.

In the same module, `WritersTakeTurns`: transactions that have not released
their locks write different rows, and a committer is later than every earlier
writer of its rows, from `WritesAreOwned` and `CommittersAreLatest`.
`IndexMissesNothing`: an UPDATE is indexed because the INSERT it follows was
(`UpdatesFollowInserts`), across transactions. `SnapshotReads` and `LockedReads`
are the two promises the executor relies on. Both follow from
`ReadsAreExact`: at every *protected* timestamp - the clock and later, or at least
the snapshot of a running transaction that no horizon overtook - a row reads as
the last value written to it by the operations *applied* so far. That is
inductive where the properties themselves are not: in the middle of a commit
"committed" and "applied" differ, and what the next reader will see depends on
timestamps nobody has yet. It needs the chains to be disjoint and behind their
last writer (`ChainsAreDisjoint`, `ChainsArePast`), and that an INSERT finds no
live version when its turn comes (`InsertsFindNothing`), several steps after the
client looked. The hypothesis `UniqueKeys` is the client's discipline of section
4; without it both statements are false.

**DurableEngineProofs.** `AcknowledgedSurvive` and `StampsAreUnique`, for any number
of crashes and whatever appends fail, in recovery too. The invariant
`LogInv` says that every record is that of a transaction past its append
(`FileIsHistory`), that a commit past its append has its record where a restart
looks (`CommittedIsLogged`), that the clock is past every record a restart reads,
and that a record still to be written has a timestamp of its own (`Stamps`): a
committer may hold a timestamp for a long time before it appends, and a restart
puts the clock back.

`FailuresStayFailed`: what nobody wrote but failed commits is not in the store, unless
this start of the process has read it in the log. The invariant
`VersionsHaveSources` says of every row with versions where they come from: a
commit past its append that has not failed, or an op that has been replayed. Nothing
is assumed of the faults; that a failed sync leaves such an op is the exception.

`StoreSurvives`: what the log says of a row is what the store has for it, before a
crash, after it and in between, up to the operations that are still to be applied.
Commit and recovery write the same rows by different code, and the invariant
`StoreInv` says it of both: `StoreHasLog` compares each row with the log up to the
operation that is being applied. It is the order of the log that makes the two
agree. `RowsInOrder`: two records of one row are in the order of their timestamps,
because a writer keeps its locks until it has logged. `InFlightIsLatest`: a record
that is logged and not yet applied is its rows' last one, so applying it late changes
nothing about what comes after. `InsertsFollowDeletes` and `PendingInserts`: an INSERT
finds no live version, neither when its transaction applies it nor when recovery
does; this is where `UniqueKeys` is used, and the first fails without it. A failed
sync leaves a record the store never saw. The claim is therefore made of the rows
that no such record writes (`Clean`), and so is each part of the invariant; rows do
not become clean again (`CleanStays`), so the others never have to be taken back in.

`IndexSurvives` has no hypothesis. After a crash an UPDATE is indexed by the INSERT
before it in the *log* (`UpdatesFollowInLog`), before it by that of the running
process. `IndexedIsLogged` and `RecoveredIsIndexed` say that the two histories agree
on what the index must have, through any number of crashes in recovery.

**RetentionProofs.** `WritesAreCounted` and `BootstrapNeverStarves`, for any
number of committers at one counter, whatever a model would predict. The second is
not inductive: a committer reads the counter in one mutex section and decides in
another. `LooksAreFresh` says why it may still go: what came after its look is
still on its way to the predictor, or was looked at since by one that went.

**HNSWProofs.** `EntryStaysHighest`, whatever the searches return. The invariant
`Serial` follows the one insert through its locks: the node is in the map before it
is linked, the entry point moves before the level does, and what `Tops` says of
all nodes holds of the others meanwhile (`Inside`).

The other three need to know what a search returns. Its loops are one recursive
function (`Loop`), and what holds between two rounds holds after it (`LoopRuns`,
`LoopStays`, `LoopLeads`, by the least round at which it would not); a sorted list
is the ranks of its elements (`InOrderIs`). `TypeCorrect` holds for threads in any
order. Its invariant `Listed` has the bound on a list as the code has it: a push
and the pruning it calls for take the lock twice, so a list is too long by the
threads that are between the two *for that list* (`Pruners`), which is stronger
than what `HTypeOK` says and inductive where that is not. `SearchesAreSound` follows
from it in every state. `SmallIsExact` is about two graphs at once, that of the new
node and that of the others (`Linked`): until the node is linked no list of the
layers to come leads to it, so the descent and the searches find others
(`OthersAreClosed`); the others stay connected among themselves; and on layer 0 each
neighbour of the node leads back to it or is still in hand, so at the end of the layer
all are connected (`WholeWithOneMore`). `BeamReaches` is the other half: with
room for every node a round of the beam closes one node, so as many rounds as nodes
close all that the entry point leads to. Ids and threads are finite sets, and a
vector is a point of a line here as in the runs.

**SqlStatementsProofs.** `EngineSteps`: every step of a statement is a step of
`OLTPEngine` or leaves it alone, so the engine's invariants hold below SQL
although its table starts with rows in it. `NoUpdateIsLost`: every committed
UPDATE has changed the value committed last before it. `WritesFollow` carries the
fact from the re-read under the lock (`LockedReadIsCurrent`) to the commit: until
it gets a timestamp the row cannot change, since nobody else can be committing to
it (`NobodyCommitting`, `CommittedStays`).

**SqlIndexProofs.** `IndexLosesNoRow` and `SelectsAreCurrent`, both while no writer
has overlapped a CREATE INDEX. Three facts carry the first. `EntriesAreThere`: a row
that a read at the clock finds is in the index under its value, or a client that
has applied a write to it still has the entry in hand (`Owes`), which it makes
before it returns (`OwesStep`). `BuiltIsCurrent`: as long as nobody can have written
since the CREATE INDEX was called (`NoWriterSince`), its snapshot is the clock, the
table stands still and what it builds stays current, so putting it in place loses
nothing. `CalledAfter`: what had returned at a call takes no step. The second adds
that a SELECT's snapshot is not before what had returned (`SnapshotsFollowReturns`),
so that it sees a row nobody else writes as it is (`KnownRow`) even when a sweep
has overtaken it, that it reads a candidate once (`ReadsOnce`), and that what it has
gathered is right at every step (`SelectsSee`). The look-up itself rests on
`PkIndexComplete` for the primary key and on `EntriesAreThere` for the column
(`LookUpFinds`).

**DatabaseProofs.** For any number of sessions, any statements, prompts and
parameters, and any first log that an earlier life of the database could have left:
`NamesAndIdsCorrespond`, `LogGivesDatabase`, `IndexesSurviveRecovery`,
`RowIdsAreKeys`, `IndexesFindRows`, `WritesAreMeant` and `AssistantMakesSense`, with
the assistant beside the sessions. None of the seven is inductive. What the process has is at each moment behind what it has logged, and
who is to make up for it is a session in the middle of a statement. The
invariant of the first four is `DbInv`. `LogIsSound`: what the log replays to is consistent; it keeps
the name map and the id map inverse, gives every row the id its key has, and makes
every logged index one that recovery can build, so a restart never fails.
`StoreIsReplayed`: catalog and names are those of the replay, and so is each table,
but for one that a session has still to create, which the replay has empty.
`IndexesFollowLog`: a logged index is in use or a session is building it.
`SessionsAreSound`: what a session carries between two steps, a table id, an ordered
column, still means what it meant when it was read, for tables and columns are never
taken back. Each record is logged in a step of its own, so
the proof is about one more `Redo`: `ReplayAppend` unrolls the replay by
its last record, `RedoCreates`, `RedoIndexes` and `RedoCommits` are the three kinds,
and `LogIsSound` goes through each. For the last kind, `InsertOps`, `UpdateOps` and
`DeleteOps` are shown to write only rows under their key: an INSERT takes the id
from the row it builds, and an UPDATE cannot assign to the key's column.
That is induction on positions in a list, done by the least position
at which the claim would fail. What a WHERE or a SET expression evaluates
to does not matter for these four, so nothing is needed of the parser.

`IndexesFindRows` needs more than names and ids, and `CoverInv` adds it to `DbInv`.
`RowsAreKept`: a row is in every index of its table with its present values, or in
the list of a session in `EnterRow` with the same values (`Owed`), or the log has a
commit that deleted a version of it and left an older one (`Uncovered`). The property
itself asks only for the row in the list, which is not inductive: `EnterRow` would
enter values from before an UPDATE. What a write set leaves as the newest version of
a row is the one there was or one it brings; or it has deleted versions of the row
(`WriteSetLeaves`, `CommitLeaves`), and then the log is one that uncovers it, and
stays one (`UncoveredLater`). An index comes about in three ways. `Write` puts each row
it brings on the list of its session, and `EnterRow` enters what it takes off
(`WriteCovers`, `EnterCovers`). CREATE INDEX enters what its scan saw, and if the
table has changed since, the claim is given up (`raced`; `RegisterIndexCovers`).
Recovery builds every index from all rows (`RecoverCovers`). What a vector index
refuses for its length it refuses in all three, so the claim is about the same
vectors in each (`HasDims`).

`WritesAreMeant` compares what a write statement did with what it says
(`WritesMeanWhatTheySay`): the rows WHERE is true for, and no others, get the values
their last assignments give from the row as it was. Its invariant is `CoverInv` with
the property in a form that speaks of one write and one log (`Means`), so that a
longer log keeps it (`MeansLater`); all the work is in the step `Write`
(`WriteMeans`). Three things come together there. First, the candidates: a WHERE
that is looked up in the primary key or in an index is three tokens, and these
compile to the comparison they spell or are refused (`CompileIs`, from the levels of
the precedence parser). The value of a condition tree is a largest set of nodes that
keeps the rules of AND and OR, so that a value exists and obeys the equation of its
root (`Spreads`, `EvalIs`); of a comparison it is the comparison (`LeafIs`). If that
is true for a row, its column is the literal looked up, by content and by type
(`TrueIs`, `LiteralsAgree`), so the row is under the key or, by `RowsAreKept`, in the
index (`IndexedIs`, `FoundAgain`): no chosen row is missing from the candidates, and
the check against the whole WHERE takes the superfluous ones out (`MatchingExact`).
Second, the write set has one operation for each matched row and none for another
(`EachOnce`, `WritesOnce`), and applying it leaves exactly that (`VersionsLeft`,
`ChangedIs`); INSERT only adds (`InsertsAdd`). Third, the values are those of the
last assignment to the column (`ValuesAre`). The exceptions are those of the
property: a key inserted twice, and rows an index need not find (`Searchable`).

`AssistantMakesSense`: what the assistant asks for is converted again by the parser,
names a registered table, and orders by columns that table has. Its invariant adds
`TalkInv` to `DbInv`: what was said last fits the catalog of its moment (`SaidFits`),
and a catalog only grows while the process runs (`Keeps`), so it fits the present one;
no step of a statement starts a conversation (`EngineStepIs`). The rest is what the
parser makes of generated text: each pattern is a plain query on one table
(`TranslationAsks`, `QueryIs`) with a limit that is read again (`LimitIs`) and at most
one key to order by. That key is followed token by token through the splitting at
commas and brackets (`TokenTaken`, `OneKey`), and its first token is a column of the
table (`FirstIs`).

The hypothesis is `"sync" \notin Faults`: where an append fails after the record is
written, the log has a table or a commit the process refused (section 4), and three
of the first four are false. TLC checked `DbInv` and `CoverInv` on the instance of
`database_ddl`.

Assumptions: the named ones on the constants. `StatementsAssumption` and
`PromptsAssumption` say of the trees the sqlparser library hands over that lists
are lists and integers integers, and `LogAssumption` what the first log is: one
that replays to a consistent database, as the empty one does, and as the theorems
show that every log does that grew from such a one. `AlphabetAssumption`: the
names are a sequence. Of those that are not types, `NoTx`, `None`, `NoRow` and
`Torn` are none of the things they stand beside; readers and
writers of `Retention` are different threads. Hypotheses of theorems are written
out in them: `Mode = {"X"}`, `UniqueKeys`, `"sync" \notin Faults`.

### Only model-checked

- `AcquireReturns` is liveness, which the prover does not do.
- The properties of `QueryExecutor` and `IndexWorkload`: plans, joins, trees and
  learned indexes recurse over data, which keeps them, and the modules that extend
  them, with TLC.

## 6. What is left out

- *Distributed scaffold* (`distributed/`): nothing in the program constructs a
  coordinator or a worker and no message leaves the process, so there is no
  behaviour to check.
- *Volcano iterators* (`operators.rs`): no statement runs them. *Studio and
  binaries*: terminal and HTTP input and output around the executor.
- *Text.* The grammar of SQL is the sqlparser library's; the model begins with its
  tree and with tokens. The wording of errors, answers and suggestions is left
  out, and so are the bytes of rows and records.
- *Rounding* of floating-point numbers, except where a prediction is cut to a
  position. Fits, distances and estimates are exact.
- *Decoding garbage behind torn bytes*: `read_all` might misframe what follows;
  the model stops there, which is its best case.
- *Poisoned mutexes*: a panic inside a critical section is not modelled.
- *Timestamps at `u64::MAX`*: the clock is assumed to stay below `TS_INFINITY`.
- *Reads inside one lock.* A search in HNSW is one step, though it takes the lock
  of each list in turn. The transaction of a write statement is one step of
  `Database`: its concurrency is `SqlStatements`'.
- *Empty entries* of the lock table and *ended transactions* in the transaction
  table are never removed (lock_manager.rs:124, transaction.rs:60): plain in
  `GiveUp` and in `Retention`, and no decision reads them.

## 7. Plan

What is left is proof, and it is the hard part of it: the kernels and the bounded
window of `SearchKernels`, where a lane is a function of its position, and the
halving of `BinarySearch`, whose losses (`Middles`) are stated for every length but
checked for few.
