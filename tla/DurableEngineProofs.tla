------------------------- MODULE DurableEngineProofs --------------------------
(***************************************************************************)
(* Proofs about the log of DurableEngine, for any number of transactions,  *)
(* rows, values, writes, crashes and failed appends: what was acknowledged *)
(* can be read again, what failed can not but from the record of a failed  *)
(* sync, no two records have the same timestamp, and the store and its     *)
(* primary-key index agree with the log, before a crash and after it.      *)
(***************************************************************************)
EXTENDS DurableEngine, OLTPEngineProofs

------------------------------------------------------------------------------
(* The places of a transaction that may still change its write set, and of
   one whose record cannot be in the file. *)
Undecided == {"new", "loaded", "active"}
Unlogged == Undecided \cup {"log"}

(* The types of the variables the log's invariants speak about; chains are
   not among them. *)
LogTyped ==
    /\ clock \in Ts
    /\ ops \in [Tx -> Seq(Op)]
    /\ status \in [Tx -> {"none", "active", "committed", "aborted"}]
    /\ pc \in [Tx -> {"new", "loaded", "active", "log", "apply", "index",
                      "release", "unsnap", "horizon", "sweep", "done"}]
    /\ cts \in [Tx -> Ts]
    /\ file \in Seq(LogRecord \cup {Torn})
    /\ mode \in {"up", "recovering"}
    /\ replayed \in Nat
    /\ redone \in Nat
    /\ acked \subseteq Tx

(* What the place of a transaction says of its status; nobody runs while the
   file is replayed. *)
Places ==
    \A t \in Tx :
        /\ pc[t] = "new" => status[t] = "none"
        /\ pc[t] \in {"loaded", "active", "log", "apply", "index"} => status[t] = "active"
        /\ pc[t] \in {"horizon", "sweep"} => status[t] = "committed"
        /\ t \in acked => pc[t] = "done" /\ status[t] = "committed"
        /\ mode = "recovering" => pc[t] \in {"new", "done"}

(* Every record is that of a transaction which is past its append. *)
FileIsHistory ==
    \A i \in DOMAIN file : file[i] # Torn =>
        \E u \in Tx : file[i] = Record(u) /\ pc[u] \notin Unlogged

(* A commit that got past its append is in the log. *)
CommittedIsLogged ==
    TornIsTail =>
        \A t \in Tx : status[t] = "committed" \/ pc[t] \in {"apply", "index"} => Durable(t)

(* Recovery has replayed the records up to some place. *)
ReplayIsPrefix == mode = "recovering" => 1 .. replayed \subseteq Readable

(* The clock is past every record that a restart would read, and a record
   still to be appended has a timestamp of its own. *)
ClockIsPast == mode = "up" => \A i \in Readable : file[i].commit_ts <= clock
PendingAreFresh ==
    \A t \in Tx : pc[t] = "log" =>
        /\ cts[t] <= clock
        /\ \A i \in Readable : file[i].commit_ts # cts[t]
PendingDiffer ==
    \A t, u \in Tx : pc[t] = "log" /\ pc[u] = "log" /\ t # u => cts[t] # cts[u]
LoggedDiffer ==
    \A i, j \in Readable : i # j => file[i].commit_ts # file[j].commit_ts
Stamps ==
    TornIsTail => ClockIsPast /\ PendingAreFresh /\ PendingDiffer /\ LoggedDiffer

LogInv == LogTyped /\ Places /\ FileIsHistory /\ CommittedIsLogged /\ ReplayIsPrefix /\ Stamps

------------------------------------------------------------------------------
(* Facts about the file. *)
LEMMA RecordType ==
    ASSUME LogTyped, NEW t \in Tx
    PROVE  Record(t) \in LogRecord /\ Record(t) # Torn
<1>1. Record(t) \in LogRecord
  BY DEF LogTyped, Record, LogRecord
<1> QED
  BY <1>1, TornAssumption

LEMMA ReadableFacts ==
    ASSUME LogTyped
    PROVE  /\ \A i \in Readable : /\ i \in DOMAIN file /\ i \in Nat \ {0}
                                  /\ file[i] # Torn /\ file[i] \in LogRecord
           /\ \A i \in Readable, j \in Nat \ {0} : j <= i => j \in Readable
<1>1. ASSUME NEW i \in Readable
      PROVE  i \in DOMAIN file /\ i \in Nat \ {0} /\ file[i] # Torn /\ file[i] \in LogRecord
  BY DEF LogTyped, Readable
<1>2. ASSUME NEW i \in Readable, NEW j \in Nat \ {0}, j <= i PROVE j \in Readable
  BY <1>2 DEF LogTyped, Readable
<1> QED
  BY <1>1, <1>2

(* What an append does to the readable prefix. *)
LEMMA AppendGrows ==
    ASSUME LogTyped, NEW f \in LogRecord \cup {Torn}, file' = Append(file, f)
    PROVE  /\ DOMAIN file' = 1 .. Len(file) + 1
           /\ \A i \in DOMAIN file : file'[i] = file[i]
           /\ file'[Len(file) + 1] = f
           /\ Readable \subseteq Readable'
           /\ \A i \in Readable' : i \in Readable \/ (i = Len(file) + 1 /\ f # Torn)
           /\ TornIsTail' => /\ TornIsTail
                             /\ \A i \in DOMAIN file : file[i] # Torn
                             /\ f # Torn => Len(file) + 1 \in Readable'
<1>0. /\ file \in Seq(LogRecord \cup {Torn})
      /\ Len(file) \in Nat /\ DOMAIN file = 1 .. Len(file)
  BY DEF LogTyped
<1>1. /\ DOMAIN file' = 1 .. Len(file) + 1
      /\ Len(file') = Len(file) + 1
      /\ \A i \in DOMAIN file : file'[i] = file[i]
      /\ file'[Len(file) + 1] = f
  BY <1>0
<1>2. Readable \subseteq Readable'
  BY <1>0, <1>1 DEF Readable
<1>3. ASSUME NEW i \in Readable' PROVE i \in Readable \/ (i = Len(file) + 1 /\ f # Torn)
  <2>1. i \in 1 .. Len(file) + 1 /\ \A j \in 1 .. i : file'[j] # Torn
    BY <1>1 DEF Readable
  <2> QED
    BY <1>0, <1>1, <2>1 DEF Readable
<1>4. ASSUME TornIsTail'
      PROVE  /\ TornIsTail
             /\ \A i \in DOMAIN file : file[i] # Torn
             /\ f # Torn => Len(file) + 1 \in Readable'
  <2>1. \A i \in DOMAIN file : file[i] # Torn
    <3>1. \A i \in DOMAIN file' : file'[i] = Torn => i = Len(file) + 1
      BY <1>1, <1>4 DEF TornIsTail
    <3> QED
      BY <1>0, <1>1, <3>1
  <2>2. ASSUME f # Torn PROVE Len(file) + 1 \in Readable'
    <3>1. \A j \in 1 .. Len(file) + 1 : file'[j] # Torn
      BY <1>0, <1>1, <2>1, <2>2
    <3> QED
      BY <1>0, <1>1, <3>1 DEF Readable
  <2> QED
    BY <2>1, <2>2 DEF TornIsTail
<1> QED
  BY <1>1, <1>2, <1>3, <1>4

(* What any step does to the file and to the records of those who decided. *)
Appends(t) == /\ pc[t] = "log" /\ ops[t] # <<>>
              /\ pc'[t] \notin Unlogged
              /\ file' = Append(file, Record(t))
FileStep ==
    \/ file' = file
    \/ file' = Append(file, Torn)
    \/ \E t \in Tx : Appends(t)
RecordsStay ==
    \A u \in Tx :
        /\ pc[u] \notin Undecided => /\ ops'[u] = ops[u] /\ cts'[u] = cts[u]
                                     /\ Record(u)' = Record(u)
                                     /\ pc'[u] \notin Undecided
        /\ pc[u] \notin Unlogged => pc'[u] \notin Unlogged

(* The four kinds of steps InMemory(t) stands for. *)
Prepares(t) ==
    /\ pc[t] \in Undecided /\ pc'[t] \in Undecided \ {"new"}
    /\ status'[t] = "active"
    /\ clock' = clock /\ cts' = cts
TakesStamp(t) ==
    /\ pc[t] = "active" /\ pc'[t] = "log"
    /\ status' = status /\ ops' = ops
    /\ clock < MaxTs /\ clock' = clock + 1
    /\ cts' = [cts EXCEPT ![t] = clock + 1]
GivesUp(t) ==
    /\ pc[t] = "active" /\ pc'[t] = "release"
    /\ status'[t] = "aborted"
    /\ clock' = clock /\ cts' = cts
Proceeds(t) ==
    /\ pc[t] \notin Unlogged \cup {"done"} /\ pc'[t] \notin Unlogged
    /\ \/ status' = status
       \/ pc[t] = "apply" /\ pc'[t] = "release" /\ status'[t] = "committed"
    /\ pc'[t] \in {"apply", "index"} => pc[t] \in {"apply", "index"}
    /\ pc'[t] \in {"horizon", "sweep"} => status'[t] = "committed"
    /\ clock' = clock /\ cts' = cts /\ ops' = ops

LEMMA InMemoryShape ==
    ASSUME LogTyped, Places, NEW t \in Tx, InMemory(t)
    PROVE  /\ \A u \in Tx \ {t} : /\ pc'[u] = pc[u] /\ status'[u] = status[u]
                                  /\ ops'[u] = ops[u]
           /\ ops' \in [Tx -> Seq(Op)]
           /\ status' \in [Tx -> {"none", "active", "committed", "aborted"}]
           /\ pc' \in [Tx -> {"new", "loaded", "active", "log", "apply", "index",
                              "release", "unsnap", "horizon", "sweep", "done"}]
           /\ Prepares(t) \/ TakesStamp(t) \/ GivesUp(t) \/ Proceeds(t)
           /\ UNCHANGED <<file, mode, replayed, redone, acked>>
<1> USE DEF Goto, LogTyped, Undecided, Unlogged
<1>1. CASE Begin(t)
  BY <1>1 DEF Begin, BeginLoad, BeginRegister, Prepares, Places, InMemory
<1>2. ASSUME NEW op \in Op, Write(t, op)
      PROVE  /\ ops' \in [Tx -> Seq(Op)]
             /\ \A u \in Tx \ {t} : ops'[u] = ops[u]
             /\ status' = status /\ pc' = pc /\ Prepares(t)
  <2>1. Append(ops[t], op) \in Seq(Op)
    OBVIOUS
  <2> QED
    BY <1>2, <2>1 DEF Write, Prepares, Places
<1>3. ASSUME NEW r \in Row, LockRow(t, r)
      PROVE  ops' = ops /\ status' = status /\ pc' = pc /\ Prepares(t)
  BY <1>3 DEF LockRow, Prepares, Places
<1>4. CASE Commit(t)
  BY <1>4 DEF Commit, TakesStamp, InMemory
<1>5. CASE Abort(t)
  BY <1>5 DEF Abort, GivesUp, InMemory
<1>6. CASE ApplyOp(t) \/ IndexInsert(t) \/ Applied(t)
  BY <1>6 DEF ApplyOp, IndexInsert, Applied, Proceeds, InMemory
<1>7. CASE Release(t) \/ Unsnap(t)
  BY <1>7 DEF Release, Unsnap, Proceeds, InMemory
<1>8. CASE ComputeHorizon(t) \/ Sweep(t) \/ SkipSweep(t)
  BY <1>8 DEF ComputeHorizon, Sweep, SkipSweep, Proceeds, engine, Places, InMemory
<1>9. CASE \E op \in Op : Write(t, op)
  BY <1>2, <1>9 DEF InMemory
<1>10. CASE \E r \in Row : LockRow(t, r)
  BY <1>3, <1>10 DEF InMemory
<1> QED
  BY <1>1, <1>4, <1>5, <1>6, <1>7, <1>8, <1>9, <1>10 DEF InMemory

(* A failed append, in memory. *)
LEMMA FailureShape ==
    ASSUME LogTyped, NEW t \in Tx, AppendFails(t)
    PROVE  /\ pc[t] = "log" /\ ops[t] # <<>>
           /\ pc' = [pc EXCEPT ![t] = "release"]
           /\ status' = [status EXCEPT ![t] = "aborted"]
           /\ UNCHANGED <<clock, ops, cts, mode, replayed, redone, acked>>
           /\ \/ file' = file
              \/ file' = Append(file, Torn)
              \/ "sync" \in Fault /\ file' = Append(file, Record(t))
BY DEF AppendFails, LogFails, Goto, FilesAfterFailure

LEMMA CrashShape ==
    ASSUME Crash
    PROVE  \/ file' = file
           \/ file' = Append(file, Torn)
           \/ \E t \in Tx : /\ pc[t] = "log" /\ ops[t] # <<>>
                            /\ file' = Append(file, Record(t))
<1>1. file' = file \/ \E t \in Tx : /\ pc[t] = "log" /\ ops[t] # <<>>
                                     /\ file' \in {Append(file, Record(t))} \cup FilesAfterFailure(t)
  BY DEF Crash
<1> QED
  BY <1>1 DEF FilesAfterFailure

LEMMA StepShape ==
    ASSUME LogTyped, Places, [DNext]_dvars
    PROVE  FileStep /\ RecordsStay
<1> USE DEF Undecided, Unlogged
<1>1. ASSUME NEW t \in Tx, InMemory(t) PROVE FileStep /\ RecordsStay
  <2>1. file' = file
    BY <1>1, InMemoryShape
  <2>2. RecordsStay
    BY <1>1, InMemoryShape
    DEF RecordsStay, Record, Prepares, TakesStamp, GivesUp, Proceeds, LogTyped
  <2> QED
    BY <2>1, <2>2 DEF FileStep
<1>2. ASSUME NEW t \in Tx, AppendRecord(t) PROVE FileStep /\ RecordsStay
  <2>1. /\ pc[t] = "log" /\ pc' = [pc EXCEPT ![t] = "apply"]
        /\ ops' = ops /\ cts' = cts
        /\ file' = IF ops[t] = <<>> THEN file ELSE Append(file, Record(t))
    BY <1>2 DEF AppendRecord, LogWrites, Goto, engine
  <2> QED
    BY <2>1 DEF FileStep, Appends, RecordsStay, Record, LogTyped
<1>3. ASSUME NEW t \in Tx, AppendFails(t) PROVE FileStep /\ RecordsStay
  <2>1. /\ pc[t] = "log" /\ pc' = [pc EXCEPT ![t] = "release"]
        /\ ops' = ops /\ cts' = cts
        /\ \/ file' = file
           \/ file' = Append(file, Torn)
           \/ file' = Append(file, Record(t))
    BY <1>3, FailureShape
  <2>2. RecordsStay
    BY <2>1 DEF RecordsStay, Record, LogTyped
  <2>3. CASE file' = file \/ file' = Append(file, Torn)
    BY <2>2, <2>3 DEF FileStep
  <2>4. CASE file' = Append(file, Record(t))
    <3>1. ops[t] # <<>> /\ pc'[t] = "release"
      BY <1>3, <2>1, FailureShape DEF LogTyped
    <3>2. Appends(t)
      BY <2>1, <2>4, <3>1 DEF Appends
    <3> QED
      BY <2>2, <3>2 DEF FileStep
  <2> QED
    BY <2>1, <2>3, <2>4
<1>4. ASSUME NEW t \in Tx, Acknowledge(t) PROVE FileStep /\ RecordsStay
  BY <1>4 DEF Acknowledge, CommitReturns, Goto, engine, FileStep, RecordsStay, Record, LogTyped
<1>5. ASSUME Crash PROVE FileStep /\ RecordsStay
  <2>1. /\ ops' = ops /\ cts' = cts
        /\ \A u \in Tx : pc'[u] = IF pc[u] = "new" THEN "new" ELSE "done"
    BY <1>5 DEF Crash, Restart
  <2>2. RecordsStay
    BY <2>1 DEF RecordsStay, Record
  <2> QED
    BY <1>5, <2>1, <2>2, CrashShape DEF FileStep, Appends
<1>6. CASE RedoOp \/ NextRecord
  BY <1>6 DEF RedoOp, NextRecord, vars, engine, FileStep, RecordsStay, Record
<1>7. CASE Serve
  BY <1>7 DEF Serve, FileStep, RecordsStay, Record
<1>8. CASE UNCHANGED dvars
  BY <1>8 DEF dvars, vars, engine, FileStep, RecordsStay, Record
<1> QED
  BY <1>1, <1>2, <1>3, <1>4, <1>5, <1>6, <1>7, <1>8 DEF DNext

------------------------------------------------------------------------------
(* Recovery is through with the records when the next one cannot be read. *)
LEMMA AllReplayed ==
    ASSUME LogTyped, replayed + 1 \notin Readable
    PROVE  \A i \in Readable : i \in 1 .. replayed
<1>1. SUFFICES ASSUME NEW i \in Readable, i > replayed PROVE FALSE
  BY ReadableFacts DEF LogTyped
<1>2. replayed + 1 <= i /\ replayed + 1 \in Nat \ {0}
  BY <1>1, ReadableFacts DEF LogTyped
<1> QED
  BY <1>1, <1>2, ReadableFacts

(* Serve: everything readable has been replayed, and the clock is set past it. *)
LEMMA ServeRestoresClock ==
    ASSUME LogTyped, ReplayIsPrefix, Serve
    PROVE  clock' \in Ts /\ \A i \in Readable : file[i].commit_ts <= clock'
<1> DEFINE S == {0} \cup {file[i].commit_ts : i \in 1 .. replayed}
<1>1. 1 .. replayed \subseteq Readable /\ clock' = Max(S)
  BY DEF Serve, ReplayIsPrefix
<1>2. \A i \in Readable : i \in 1 .. replayed
  BY AllReplayed DEF Serve
<1>3. \A i \in 1 .. replayed : file[i].commit_ts \in Ts
  BY <1>1, ReadableFacts DEF LogRecord
<1>4. S \in SUBSET Nat /\ S # {} /\ \A n \in S : n \in Ts /\ n <= MaxTs
  BY <1>3, MaxTsAssumption DEF Ts
<1>5. PICK m \in S : \A n \in S : n <= m
  BY <1>4, MaxTsAssumption, NatMax
<1>6. \A n \in S : m >= n
  BY <1>4, <1>5
<1>7. Max(S) \in S /\ \A n \in S : Max(S) >= n
  BY <1>5, <1>6 DEF Max
<1>8. \A n \in S : n <= clock'
  BY <1>1, <1>4, <1>7
<1> QED
  BY <1>1, <1>2, <1>4, <1>7, <1>8

LEMMA LogTypedStep ==
    ASSUME LogTyped, Places, ReplayIsPrefix, [DNext]_dvars
    PROVE  LogTyped'
<1>0. file' \in Seq(LogRecord \cup {Torn})
  <2>1. file \in Seq(LogRecord \cup {Torn})
    BY DEF LogTyped
  <2>2. ASSUME NEW t \in Tx, file' = Append(file, Record(t))
        PROVE  file' \in Seq(LogRecord \cup {Torn})
    BY <2>1, <2>2, RecordType
  <2>3. CASE file' = Append(file, Torn)
    BY <2>1, <2>3
  <2> QED
    BY <2>1, <2>2, <2>3, StepShape DEF FileStep, Appends
<1>1. ASSUME NEW t \in Tx, InMemory(t) PROVE LogTyped'
  <2>1. \/ clock' = clock /\ cts' = cts
        \/ clock < MaxTs /\ clock' = clock + 1 /\ cts' = [cts EXCEPT ![t] = clock + 1]
    BY <1>1, InMemoryShape DEF Prepares, TakesStamp, GivesUp, Proceeds
  <2>2. clock < MaxTs => clock + 1 \in Ts
    BY MaxTsAssumption DEF LogTyped, Ts
  <2>3. clock' \in Ts /\ cts' \in [Tx -> Ts]
    BY <2>1, <2>2 DEF LogTyped
  <2> QED
    BY <1>0, <1>1, <2>3, InMemoryShape DEF LogTyped
<1>2. ASSUME NEW t \in Tx, AppendRecord(t) PROVE LogTyped'
  BY <1>0, <1>2 DEF AppendRecord, LogWrites, Goto, engine, LogTyped
<1>3. ASSUME NEW t \in Tx, AppendFails(t) PROVE LogTyped'
  BY <1>0, <1>3, FailureShape DEF LogTyped
<1>4. ASSUME NEW t \in Tx, Acknowledge(t) PROVE LogTyped'
  BY <1>0, <1>4 DEF Acknowledge, CommitReturns, Goto, engine, LogTyped
<1>5. CASE Crash
  BY <1>0, <1>5, MaxTsAssumption DEF Crash, Restart, LogTyped, Ts
<1>6. CASE RedoOp \/ NextRecord
  BY <1>0, <1>6 DEF RedoOp, NextRecord, vars, engine, LogTyped
<1>7. CASE Serve
  BY <1>0, <1>7, ServeRestoresClock DEF Serve, LogTyped
<1>8. CASE UNCHANGED dvars
  BY <1>8 DEF dvars, vars, engine, LogTyped
<1> QED
  BY <1>1, <1>2, <1>3, <1>4, <1>5, <1>6, <1>7, <1>8 DEF DNext

LEMMA PlacesStep ==
    ASSUME LogTyped, Places, [DNext]_dvars
    PROVE  Places'
<1> USE DEF Undecided, Unlogged
<1>1. ASSUME mode = "up", NEW t \in Tx, InMemory(t) PROVE Places'
  BY <1>1, InMemoryShape DEF Prepares, TakesStamp, GivesUp, Proceeds, LogTyped, Places
<1>2. ASSUME mode = "up", NEW t \in Tx, AppendRecord(t) PROVE Places'
  BY <1>2 DEF AppendRecord, LogWrites, Goto, engine, LogTyped, Places
<1>3. ASSUME mode = "up", NEW t \in Tx, AppendFails(t) PROVE Places'
  BY <1>3, FailureShape DEF LogTyped, Places
<1>4. ASSUME mode = "up", NEW t \in Tx, Acknowledge(t) PROVE Places'
  BY <1>4 DEF Acknowledge, CommitReturns, Goto, engine, LogTyped, Places
<1>5. CASE Crash
  BY <1>5 DEF Crash, Restart, LogTyped, Places
<1>6. CASE RedoOp \/ NextRecord
  BY <1>6 DEF RedoOp, NextRecord, vars, engine, Places
<1>7. CASE Serve
  BY <1>7 DEF Serve, Places
<1>8. CASE UNCHANGED dvars
  BY <1>8 DEF dvars, vars, engine, Places
<1> QED
  BY <1>1, <1>2, <1>3, <1>4, <1>5, <1>6, <1>7, <1>8 DEF DNext

LEMMA FileIsHistoryStep ==
    ASSUME LogTyped, Places, FileIsHistory, [DNext]_dvars
    PROVE  FileIsHistory'
<1>0. FileStep /\ RecordsStay
  BY StepShape
<1> SUFFICES ASSUME NEW i \in DOMAIN file', file'[i] # Torn
             PROVE  \E u \in Tx : file'[i] = Record(u)' /\ pc'[u] \notin Unlogged
  BY DEF FileIsHistory
<1>1. ASSUME i \in DOMAIN file, file'[i] = file[i]
      PROVE  \E u \in Tx : file'[i] = Record(u)' /\ pc'[u] \notin Unlogged
  <2>1. PICK u \in Tx : file[i] = Record(u) /\ pc[u] \notin Unlogged
    BY <1>1 DEF FileIsHistory
  <2> QED
    BY <1>0, <1>1, <2>1 DEF RecordsStay, Unlogged
<1>2. CASE file' = file
  BY <1>1, <1>2
<1>3. CASE file' = Append(file, Torn)
  BY <1>1, <1>3, AppendGrows DEF LogTyped
<1>4. ASSUME NEW t \in Tx, Appends(t)
      PROVE  \E u \in Tx : file'[i] = Record(u)' /\ pc'[u] \notin Unlogged
  <2>1. Record(t)' = Record(t) /\ Record(t) \in LogRecord
    BY <1>0, <1>4, RecordType DEF Appends, RecordsStay, Undecided
  <2>2. \/ i \in DOMAIN file /\ file'[i] = file[i]
        \/ i = Len(file) + 1 /\ file'[i] = Record(t)
    BY <1>4, <2>1, AppendGrows DEF LogTyped, Appends
  <2> QED
    BY <1>1, <1>4, <2>1, <2>2 DEF Appends
<1> QED
  BY <1>0, <1>2, <1>3, <1>4 DEF FileStep

LEMMA ReplayIsPrefixStep ==
    ASSUME LogTyped, Places, ReplayIsPrefix, [DNext]_dvars
    PROVE  ReplayIsPrefix'
<1>1. ASSUME mode = "up", NEW t \in Tx,
             InMemory(t) \/ AppendRecord(t) \/ AppendFails(t) \/ Acknowledge(t)
      PROVE  ReplayIsPrefix'
  BY <1>1 DEF InMemory, AppendRecord, AppendFails, Acknowledge, ReplayIsPrefix
<1>2. CASE Crash
  BY <1>2 DEF Crash, Restart, ReplayIsPrefix
<1>3. CASE NextRecord
  <2>1. 1 .. replayed + 1 \subseteq Readable
    BY <1>3 DEF NextRecord, ReplayIsPrefix, LogTyped
  <2>2. Readable' = Readable /\ replayed' = replayed + 1
    BY <1>3 DEF NextRecord, Readable
  <2> QED
    BY <2>1, <2>2 DEF ReplayIsPrefix
<1>4. CASE Serve
  BY <1>4 DEF Serve, ReplayIsPrefix
<1>5. CASE RedoOp \/ UNCHANGED dvars
  BY <1>5 DEF RedoOp, dvars, ReplayIsPrefix, Readable
<1> QED
  BY <1>1, <1>2, <1>3, <1>4, <1>5 DEF DNext

(* Nothing that can be read is lost, and torn bytes that are a tail after a
   step were one before it. *)
LEMMA FileGrows ==
    ASSUME LogTyped, Places, [DNext]_dvars
    PROVE  /\ \A i \in Readable : i \in Readable' /\ file'[i] = file[i]
           /\ TornIsTail' => TornIsTail
<1>1. ASSUME NEW f \in LogRecord \cup {Torn}, file' = Append(file, f)
      PROVE  /\ \A i \in Readable : i \in Readable' /\ file'[i] = file[i]
             /\ TornIsTail' => TornIsTail
  BY <1>1, AppendGrows, ReadableFacts
<1>2. CASE file' = file
  BY <1>2 DEF Readable, TornIsTail
<1>3. ASSUME NEW t \in Tx, Appends(t)
      PROVE  /\ \A i \in Readable : i \in Readable' /\ file'[i] = file[i]
             /\ TornIsTail' => TornIsTail
  BY <1>1, <1>3, RecordType DEF Appends
<1> QED
  BY <1>1, <1>2, <1>3, StepShape DEF FileStep

LEMMA DurableStays ==
    ASSUME LogTyped, Places, [DNext]_dvars, NEW t \in Tx, pc[t] \notin Undecided, Durable(t)
    PROVE  Durable(t)'
<1>1. ops'[t] = ops[t] /\ Record(t)' = Record(t)
  BY StepShape DEF RecordsStay
<1>2. CASE ops[t] = <<>>
  BY <1>1, <1>2 DEF Durable
<1>3. ASSUME NEW i \in Readable, file[i] = Record(t) PROVE Durable(t)'
  BY <1>1, <1>3, FileGrows DEF Durable
<1> QED
  BY <1>2, <1>3 DEF Durable

LEMMA CommittedIsLoggedStep ==
    ASSUME LogTyped, Places, CommittedIsLogged, [DNext]_dvars
    PROVE  CommittedIsLogged'
<1> USE DEF Undecided, Unlogged
<1> DEFINE Past(u) == status[u] = "committed" \/ pc[u] \in {"apply", "index"}
           PastNext(u) == status'[u] = "committed" \/ pc'[u] \in {"apply", "index"}
<1> SUFFICES ASSUME TornIsTail', NEW t \in Tx, PastNext(t)
             PROVE  Durable(t)'
  BY DEF CommittedIsLogged
<1>1. TornIsTail
  BY FileGrows
<1>2. ASSUME Past(t) PROVE Durable(t)'
  <2>1. pc[t] \notin Undecided
    BY <1>2 DEF Places, LogTyped
  <2> QED
    BY <1>1, <1>2, <2>1, DurableStays DEF CommittedIsLogged
<1>3. ASSUME NEW u \in Tx, InMemory(u) PROVE Past(t)
  BY <1>3, InMemoryShape DEF Prepares, TakesStamp, GivesUp, Proceeds, LogTyped
<1>4. ASSUME NEW u \in Tx, AppendRecord(u) PROVE Past(t) \/ Durable(t)'
  <2>1. /\ pc' = [pc EXCEPT ![u] = "apply"] /\ pc[u] = "log"
        /\ UNCHANGED <<status, ops, cts>>
        /\ file' = IF ops[u] = <<>> THEN file ELSE Append(file, Record(u))
    BY <1>4 DEF AppendRecord, LogWrites, Goto, engine
  <2>2. CASE t # u
    BY <2>1, <2>2 DEF LogTyped
  <2>3. CASE t = u /\ ops[u] = <<>>
    BY <2>1, <2>3 DEF Durable
  <2>4. CASE t = u /\ ops[u] # <<>>
    <3>1. Len(file) + 1 \in Readable' /\ file'[Len(file) + 1] = Record(u)
      BY <2>1, <2>4, AppendGrows, RecordType
    <3>2. Record(u)' = Record(u)
      BY <2>1 DEF Record
    <3> QED
      BY <2>4, <3>1, <3>2 DEF Durable
  <2> QED
    BY <2>2, <2>3, <2>4
<1>5. ASSUME NEW u \in Tx, AppendFails(u) PROVE Past(t)
  BY <1>5, FailureShape DEF LogTyped
<1>6. ASSUME NEW u \in Tx, Acknowledge(u) PROVE Past(t)
  BY <1>6 DEF Acknowledge, CommitReturns, Goto, engine, LogTyped
<1>7. CASE Crash
  BY <1>2, <1>7 DEF Crash, Restart, LogTyped
<1>8. CASE RedoOp \/ NextRecord \/ Serve
  BY <1>2, <1>8 DEF RedoOp, NextRecord, Serve, vars, engine
<1>9. CASE UNCHANGED dvars
  BY <1>2, <1>9 DEF dvars, vars, engine
<1> QED
  BY <1>2, <1>3, <1>4, <1>5, <1>6, <1>7, <1>8, <1>9 DEF DNext

(* A record appended by a transaction whose timestamp is its own. *)
LEMMA AppendKeepsStamps ==
    ASSUME LogTyped, Places, TornIsTail', PendingAreFresh, PendingDiffer, LoggedDiffer,
           NEW t \in Tx, Appends(t), cts' = cts,
           \A u \in Tx : pc'[u] = "log" => pc[u] = "log" /\ u # t,
           clock \in Nat /\ (clock' = clock \/ \A u \in Tx : pc'[u] # "log")
    PROVE  PendingAreFresh' /\ PendingDiffer' /\ LoggedDiffer'
<1>1. /\ \A i \in Readable' : i \in Readable \/ file'[i] = Record(t)
      /\ \A i \in Readable' \ Readable : i = Len(file) + 1
      /\ \A i \in Readable : file'[i] = file[i]
  BY AppendGrows, ReadableFacts, RecordType DEF Appends
<1>2. pc[t] = "log" /\ Record(t).commit_ts = cts[t]
  BY DEF Appends, Record
<1>3. PendingAreFresh'
  BY <1>1, <1>2 DEF PendingAreFresh, PendingDiffer
<1>4. PendingDiffer'
  BY DEF PendingDiffer
<1>5. LoggedDiffer'
  BY <1>1, <1>2 DEF LoggedDiffer, PendingAreFresh
<1> QED
  BY <1>3, <1>4, <1>5

(* The same for a step that leaves the records as they are. *)
LEMMA SameRecordsKeepStamps ==
    ASSUME LogTyped, PendingAreFresh, PendingDiffer, LoggedDiffer,
           file' = file \/ file' = Append(file, Torn), cts' = cts,
           \A u \in Tx : pc'[u] = "log" => pc[u] = "log",
           clock' = clock \/ \A u \in Tx : pc'[u] # "log"
    PROVE  /\ Readable' = Readable /\ \A i \in Readable : file'[i] = file[i]
           /\ PendingAreFresh' /\ PendingDiffer' /\ LoggedDiffer'
<1>1. Readable' = Readable /\ \A i \in Readable : file'[i] = file[i]
  <2>1. CASE file' = file
    BY <2>1 DEF Readable
  <2>2. CASE file' = Append(file, Torn)
    BY <2>2, AppendGrows, ReadableFacts
  <2> QED
    BY <2>1, <2>2
<1> QED
  BY <1>1 DEF PendingAreFresh, PendingDiffer, LoggedDiffer

LEMMA StampsStep ==
    ASSUME LogTyped, Places, ReplayIsPrefix, Stamps, [DNext]_dvars
    PROVE  Stamps'
<1> USE DEF Undecided, Unlogged
<1> SUFFICES ASSUME TornIsTail'
             PROVE  ClockIsPast' /\ PendingAreFresh' /\ PendingDiffer' /\ LoggedDiffer'
  BY DEF Stamps
<1>0. ClockIsPast /\ PendingAreFresh /\ PendingDiffer /\ LoggedDiffer
  BY FileGrows DEF Stamps
<1>1. clock \in Nat /\ \A i \in Readable : file[i].commit_ts \in Nat
  BY ReadableFacts DEF LogTyped, LogRecord, Ts
<1>2. ASSUME NEW t \in Tx, Appends(t), cts' = cts, clock' = clock, mode' = mode,
             \A u \in Tx : pc'[u] = "log" => pc[u] = "log" /\ u # t
      PROVE  ClockIsPast' /\ PendingAreFresh' /\ PendingDiffer' /\ LoggedDiffer'
  <2>1. PendingAreFresh' /\ PendingDiffer' /\ LoggedDiffer'
    BY <1>0, <1>1, <1>2, AppendKeepsStamps
  <2>2. \A i \in Readable' : \/ i \in Readable /\ file'[i] = file[i]
                             \/ file'[i] = Record(t)
    BY <1>2, AppendGrows, RecordType, ReadableFacts DEF Appends
  <2>3. Record(t).commit_ts <= clock
    BY <1>0, <1>2 DEF Appends, PendingAreFresh, Record
  <2> QED
    BY <1>0, <1>2, <2>1, <2>2, <2>3 DEF ClockIsPast
<1>3. ASSUME file' = file \/ file' = Append(file, Torn),
             UNCHANGED <<cts, clock, mode>>,
             \A u \in Tx : pc'[u] = "log" => pc[u] = "log"
      PROVE  ClockIsPast' /\ PendingAreFresh' /\ PendingDiffer' /\ LoggedDiffer'
  BY <1>0, <1>3, SameRecordsKeepStamps DEF ClockIsPast
<1>4. ASSUME mode = "up", NEW t \in Tx, InMemory(t)
      PROVE  ClockIsPast' /\ PendingAreFresh' /\ PendingDiffer' /\ LoggedDiffer'
  <2>1. CASE TakesStamp(t)
    <3>1. /\ Readable' = Readable /\ file' = file
          /\ clock' = clock + 1 /\ cts'[t] = clock + 1
          /\ \A u \in Tx \ {t} : cts'[u] = cts[u] /\ pc'[u] = pc[u]
      BY <1>4, <2>1, InMemoryShape DEF TakesStamp, LogTyped, Readable
    <3>2. \A u \in Tx \ {t} : pc'[u] = "log" => cts'[u] = cts[u] /\ cts[u] \in Nat /\ cts[u] <= clock
      BY <1>0, <3>1 DEF PendingAreFresh, LogTyped, Ts
    <3>3. \A i \in Readable : file[i].commit_ts <= clock
      BY <1>0, <1>4 DEF ClockIsPast
    <3>4. ClockIsPast'
      BY <1>1, <3>1, <3>3 DEF ClockIsPast
    <3>5. PendingAreFresh'
      <4>1. SUFFICES ASSUME NEW u \in Tx, pc'[u] = "log"
                     PROVE  /\ cts'[u] <= clock'
                            /\ \A i \in Readable : file[i].commit_ts # cts'[u]
        BY <3>1 DEF PendingAreFresh
      <4>2. CASE u = t
        BY <1>1, <3>1, <3>3, <4>2
      <4>3. CASE u # t
        BY <1>0, <1>1, <3>1, <3>2, <4>1, <4>3 DEF PendingAreFresh
      <4> QED
        BY <4>2, <4>3
    <3>6. PendingDiffer'
      BY <1>0, <1>1, <3>1, <3>2 DEF PendingDiffer
    <3>7. LoggedDiffer'
      BY <1>0, <3>1 DEF LoggedDiffer
    <3> QED
      BY <3>4, <3>5, <3>6, <3>7
  <2>2. CASE Prepares(t) \/ GivesUp(t) \/ Proceeds(t)
    BY <1>3, <1>4, <2>2, InMemoryShape DEF Prepares, GivesUp, Proceeds
  <2> QED
    BY <1>4, <2>1, <2>2, InMemoryShape
<1>5. ASSUME NEW t \in Tx, AppendRecord(t)
      PROVE  ClockIsPast' /\ PendingAreFresh' /\ PendingDiffer' /\ LoggedDiffer'
  <2>1. /\ pc' = [pc EXCEPT ![t] = "apply"] /\ pc[t] = "log"
        /\ UNCHANGED <<clock, ops, cts, mode>>
        /\ file' = IF ops[t] = <<>> THEN file ELSE Append(file, Record(t))
    BY <1>5 DEF AppendRecord, LogWrites, Goto, engine
  <2>2. CASE ops[t] = <<>>
    BY <1>3, <2>1, <2>2 DEF LogTyped
  <2>3. CASE ops[t] # <<>>
    BY <1>2, <2>1, <2>3 DEF LogTyped, Appends
  <2> QED
    BY <2>2, <2>3
<1>6. ASSUME NEW t \in Tx, AppendFails(t)
      PROVE  ClockIsPast' /\ PendingAreFresh' /\ PendingDiffer' /\ LoggedDiffer'
  <2>0. /\ pc[t] = "log" /\ ops[t] # <<>> /\ UNCHANGED <<clock, cts, mode>>
        /\ \A u \in Tx : pc'[u] = IF u = t THEN "release" ELSE pc[u]
    BY <1>6, FailureShape DEF LogTyped
  <2>1. CASE file' = file \/ file' = Append(file, Torn)
    BY <1>3, <2>0, <2>1
  <2>2. CASE file' = Append(file, Record(t))
    <3>1. Appends(t)
      BY <2>0, <2>2 DEF Appends
    <3> QED
      BY <1>2, <2>0, <3>1
  <2> QED
    BY <1>6, <2>1, <2>2, FailureShape
<1>7. ASSUME NEW t \in Tx, Acknowledge(t)
      PROVE  ClockIsPast' /\ PendingAreFresh' /\ PendingDiffer' /\ LoggedDiffer'
  BY <1>3, <1>7 DEF Acknowledge, CommitReturns, Goto, engine, LogTyped
<1>8. CASE Crash
  <2>1. /\ cts' = cts /\ mode' = "recovering"
        /\ \A u \in Tx : pc'[u] = IF pc[u] = "new" THEN "new" ELSE "done"
    BY <1>8 DEF Crash, Restart
  <2>2. ClockIsPast'
    BY <2>1 DEF ClockIsPast
  <2>3. CASE file' = file \/ file' = Append(file, Torn)
    BY <1>0, <2>1, <2>2, <2>3, SameRecordsKeepStamps
  <2>4. ASSUME NEW t \in Tx, pc[t] = "log", ops[t] # <<>>, file' = Append(file, Record(t))
        PROVE  PendingAreFresh' /\ PendingDiffer' /\ LoggedDiffer'
    <3>1. Appends(t)
      BY <2>1, <2>4 DEF Appends
    <3> QED
      BY <1>0, <1>1, <2>1, <3>1, AppendKeepsStamps
  <2> QED
    BY <1>8, <2>2, <2>3, <2>4, CrashShape
<1>9. CASE RedoOp \/ NextRecord
  BY <1>3, <1>9 DEF RedoOp, NextRecord, vars, engine
<1>10. CASE Serve
  <2>1. Readable' = Readable /\ file' = file /\ cts' = cts
    BY <1>10 DEF Serve, Readable
  <2>2. ClockIsPast'
    BY <1>10, <2>1, ServeRestoresClock DEF ClockIsPast
  <2>3. \A u \in Tx : pc'[u] # "log"
    BY <1>10 DEF Serve, Places
  <2> QED
    BY <1>0, <2>1, <2>2, <2>3 DEF PendingAreFresh, PendingDiffer, LoggedDiffer
<1>11. CASE UNCHANGED dvars
  BY <1>3, <1>11 DEF dvars, vars, engine
<1> QED
  BY <1>4, <1>5, <1>6, <1>7, <1>8, <1>9, <1>10, <1>11 DEF DNext

(* The log's invariant, whatever fails. *)
LEMMA LogInvariant == DSpec => []LogInv
<1>1. DInit => LogInv
  <2>1. DInit => LogTyped /\ file = <<>>
    BY MaxTsAssumption DEF DInit, Init, LogTyped, Ts
  <2>2. DInit => Places
    BY DEF DInit, Init, Places, Undecided
  <2>3. DInit => /\ \A t \in Tx : status[t] = "none" /\ pc[t] = "new"
                 /\ mode = "up" /\ Readable = {}
    BY DEF DInit, Init, Readable
  <2> QED
    BY <2>1, <2>2, <2>3
    DEF LogInv, FileIsHistory, CommittedIsLogged, ReplayIsPrefix, Stamps, ClockIsPast,
        PendingAreFresh, PendingDiffer, LoggedDiffer
<1>2. LogInv /\ [DNext]_dvars => LogInv'
  BY LogTypedStep, PlacesStep, FileIsHistoryStep, CommittedIsLoggedStep,
     ReplayIsPrefixStep, StampsStep DEF LogInv
<1> QED
  BY <1>1, <1>2, PTL DEF DSpec

------------------------------------------------------------------------------
(* wal.rs, "once a caller sees success, that data survives a crash": as long
   as torn bytes are the tail of the file, the record of every acknowledged
   commit can be read again, after any number of crashes, failed appends and
   failed syncs and with other commits appending in any order. *)
THEOREM AcknowledgedSurvive == DSpec => []AckedSurvivesTornTail
<1>1. LogInv => AckedSurvivesTornTail
  BY DEF LogInv, Places, CommittedIsLogged, AckedSurvivesTornTail, AckedSurvives, LogTyped
<1> QED
  BY <1>1, LogInvariant, PTL

(* recovery.rs, "a new transaction after recovery never reuses one": under
   the same proviso no two records of the log have the same timestamp, those
   of a commit whose append failed or whose process died included. *)
THEOREM StampsAreUnique == DSpec => []TimestampsAreUnique
<1>1. LogInv => TimestampsAreUnique
  BY DEF LogInv, Stamps, LoggedDiffer, TimestampsAreUnique
<1> QED
  BY <1>1, LogInvariant, PTL

(* A commit that has failed stays failed. *)
LEMMA AbortedStays ==
    ASSUME LogTyped, Places, [DNext]_dvars, NEW t \in Tx,
           status[t] = "aborted", pc[t] \notin Unlogged
    PROVE  status'[t] = "aborted"
<1> USE DEF Undecided, Unlogged
<1>1. ASSUME NEW u \in Tx, InMemory(u) PROVE status'[t] = "aborted"
  <2>1. CASE u = t
    BY <1>1, <2>1, InMemoryShape DEF Prepares, TakesStamp, GivesUp, Proceeds, Places
  <2> QED
    BY <1>1, <2>1, InMemoryShape
<1>2. ASSUME NEW u \in Tx, AppendRecord(u) PROVE status'[t] = "aborted"
  BY <1>2 DEF AppendRecord, LogWrites, engine
<1>3. ASSUME NEW u \in Tx, AppendFails(u) PROVE status'[t] = "aborted"
  BY <1>3, FailureShape DEF LogTyped
<1>4. ASSUME NEW u \in Tx, Acknowledge(u) PROVE status'[t] = "aborted"
  BY <1>4 DEF Acknowledge, CommitReturns, engine
<1>5. CASE Crash
  BY <1>5 DEF Crash, Restart
<1>6. CASE RedoOp \/ NextRecord \/ Serve \/ UNCHANGED dvars
  BY <1>6 DEF RedoOp, NextRecord, Serve, dvars, vars, engine
<1> QED
  BY <1>1, <1>2, <1>3, <1>4, <1>5, <1>6 DEF DNext

------------------------------------------------------------------------------
(* The store and the log.  The clock starts over. *)
ClockStartsOver == mode = "recovering" => clock = 0
EngineInv == Typed /\ SnapshotsArePast /\ Starts /\ WritesAreOwned /\ ClockStartsOver

LEMMA UpIsNext ==
    ASSUME NEW t \in Tx, InMemory(t) \/ AppendRecord(t) \/ AppendFails(t) \/ Acknowledge(t)
    PROVE  Next
<1>1. CASE InMemory(t)
  BY <1>1 DEF InMemory, Next, Finish
<1>2. CASE AppendRecord(t) \/ AppendFails(t) \/ Acknowledge(t)
  BY <1>2 DEF AppendRecord, AppendFails, Acknowledge, Next, Finish
<1> QED
  BY <1>1, <1>2

LEMMA StepKinds ==
    ASSUME [DNext]_dvars
    PROVE  \/ [Next]_vars /\ mode' = mode
           \/ Crash \/ RedoOp \/ Serve
<1>1. ASSUME NEW t \in Tx, InMemory(t) \/ AppendRecord(t) \/ AppendFails(t) \/ Acknowledge(t)
      PROVE  Next /\ mode' = mode
  BY <1>1, UpIsNext DEF InMemory, AppendRecord, AppendFails, Acknowledge
<1>2. CASE NextRecord \/ UNCHANGED dvars
  BY <1>2 DEF NextRecord, dvars
<1> QED
  BY <1>1, <1>2 DEF DNext

(* The record that recovery is at, and its next op. *)
LEMMA RedoneOp ==
    ASSUME LogTyped, RedoOp,
           NEW op, op = file[replayed + 1].ops[redone + 1]
    PROVE  /\ replayed + 1 \in Readable /\ redone + 1 \in DOMAIN file[replayed + 1].ops
           /\ op \in Op /\ op.row \in Row /\ file[replayed + 1].commit_ts \in Ts
           /\ chain' = [chain EXCEPT ![op.row] =
                            Apply(chain[op.row], op, file[replayed + 1].commit_ts)]
           /\ pkIndex' = IF op.kind = "insert" THEN pkIndex \cup {op.row} ELSE pkIndex
<1>1. replayed + 1 \in Readable /\ redone < Len(file[replayed + 1].ops)
  BY DEF RedoOp
<1>2. file[replayed + 1] \in LogRecord
  BY <1>1, ReadableFacts
<1>3. file[replayed + 1].ops \in Seq(Op) /\ file[replayed + 1].commit_ts \in Ts
  BY <1>2 DEF LogRecord
<1>4. redone + 1 \in DOMAIN file[replayed + 1].ops
  BY <1>1, <1>3 DEF LogTyped
<1>5. op \in Op /\ op.row \in Row
  BY <1>3, <1>4 DEF Op
<1> QED
  BY <1>1, <1>3, <1>4, <1>5 DEF RedoOp, NextOp

LEMMA EngineInvStep ==
    ASSUME LogTyped, Places, ReplayIsPrefix, EngineInv, [DNext]_dvars
    PROVE  EngineInv'
<1>0. TypeOK /\ ChainsBounded /\ IndexPending /\ Typed
  BY DEF EngineInv, Typed
<1>1. CASE [Next]_vars /\ mode' = mode
  <2>1. Typed' /\ SnapshotsArePast'
    BY <1>1, TypedStep, SnapshotsArePastStep DEF EngineInv
  <2>2. Starts'
    BY <1>0, <1>1, StartsStep DEF EngineInv
  <2>3. WritesAreOwned'
    BY <1>1, OwnedUntilRelease DEF EngineInv, Starts
  <2>4. ClockStartsOver'
    <3>1. mode = "recovering" => clock' = clock \/ clock' = 0
      BY <1>1 DEF DNext, Crash, Restart, RedoOp, NextRecord, Serve, dvars, vars, engine
    <3> QED
      BY <1>1, <3>1 DEF EngineInv, ClockStartsOver
  <2> QED
    BY <2>1, <2>2, <2>3, <2>4 DEF EngineInv
<1>2. CASE Crash
  <2>1. /\ clock' = 0 /\ snapshots' = {} /\ snap' = [t \in Tx |-> 0]
        /\ owner' = [r \in Row |-> NoTx] /\ chain' = [r \in Row |-> EmptyChain]
        /\ pkIndex' = {} /\ cur' = [t \in Tx |-> 1] /\ horizon' = [t \in Tx |-> 0]
        /\ pc' = [t \in Tx |-> IF pc[t] = "new" THEN "new" ELSE "done"]
        /\ UNCHANGED <<ops, status, cts, overtaken>>
    BY <1>2 DEF Crash, Restart
  <2>2. EmptyChain \in VersionChain /\ PosBounded(EmptyChain)
    BY DEF EmptyChain, VersionChain, PosBounded
  <2>3. TypeOK'
    BY <1>0, <2>1, <2>2, MaxTsAssumption DEF TypeOK, Ts
  <2>4. ChainsBounded' /\ IndexPending' /\ SnapshotsArePast' /\ WritesAreOwned'
        /\ ClockStartsOver'
    BY <2>1, <2>2 DEF ChainsBounded, IndexPending, SnapshotsArePast, WritesAreOwned, Locking,
       ClockStartsOver
  <2>5. Starts'
    BY <2>1 DEF EngineInv, Starts
  <2> QED
    BY <2>3, <2>4, <2>5 DEF EngineInv, Typed
<1>3. CASE RedoOp
  <2> DEFINE record == file[replayed + 1]
             op == record.ops[redone + 1]
             after == Apply(chain[op.row], op, record.commit_ts)
  <2>1. /\ op \in Op /\ op.row \in Row /\ record.commit_ts \in Ts
        /\ chain' = [chain EXCEPT ![op.row] = after]
        /\ pkIndex' = IF op.kind = "insert" THEN pkIndex \cup {op.row} ELSE pkIndex
    BY <1>3, RedoneOp
  <2>2. after \in VersionChain /\ PosBounded(after)
    BY <1>0, <2>1, ApplyType DEF TypeOK, ChainsBounded
  <2> HIDE DEF after, op, record
  <2>3. chain' \in [Row -> VersionChain] /\ ChainsBounded' /\ pkIndex' \subseteq Row
    BY <1>0, <2>1, <2>2 DEF TypeOK, ChainsBounded
  <2>4. UNCHANGED <<clock, snapshots, snap, ops, status, owner, pc, cts, cur, horizon,
                    overtaken, mode>>
    BY <1>3 DEF RedoOp
  <2>5. Typed'
    BY <1>0, <2>3, <2>4 DEF Typed, TypeOK, IndexPending
  <2> QED
    BY <2>4, <2>5 DEF EngineInv, SnapshotsArePast, Starts, WritesAreOwned, ClockStartsOver
<1>4. CASE Serve
  <2>1. clock' \in Ts /\ clock = 0 /\ mode' = "up"
        /\ UNCHANGED <<snapshots, snap, ops, status, owner, chain, pkIndex, pc, cts, cur,
                       horizon, overtaken>>
    BY <1>4, ServeRestoresClock DEF Serve, EngineInv, ClockStartsOver
  <2>2. Typed'
    BY <1>0, <2>1 DEF Typed, TypeOK, ChainsBounded, IndexPending
  <2>3. SnapshotsArePast'
    BY <1>0, <2>1 DEF EngineInv, SnapshotsArePast, TypeOK, Ts
  <2> QED
    BY <2>1, <2>2, <2>3 DEF EngineInv, Starts, WritesAreOwned, ClockStartsOver
<1> QED
  BY <1>1, <1>2, <1>3, <1>4, StepKinds

------------------------------------------------------------------------------
(* Where an op is in the log: the number of its record and its place in it. *)
OpAt(p) == file[p[1]].ops[p[2]]
StampAt(p) == file[p[1]].commit_ts
Before(p, q) == p[1] < q[1] \/ (p[1] = q[1] /\ p[2] < q[2])
IsLast(p, S) == p \in S /\ \A q \in S : q = p \/ Before(q, p)

(* The ops on r that are in the store: those recovery has come to, or, when
   the engine is up, all but those a commit is still to apply. *)
InStore(p) ==
    IF mode = "recovering"
      THEN p[1] <= replayed \/ (p[1] = replayed + 1 /\ p[2] <= redone)
      ELSE LET u == file[p[1]].by IN
           /\ pc[u] = "apply" => p[2] < cur[u]
           /\ pc[u] = "index" => p[2] <= cur[u]
Stored(r) == {p \in LoggedOps(r) : InStore(p)}

(* A chain that reads d from ts on, and has room for what comes later. *)
Shows(c, ts, d) == /\ UpTo(c, ts) /\ Disjoint(c)
                   /\ \A s \in Ts : ts <= s => Read(c, s) = d

(* The row's chain shows the last op in the store; this and what follows is
   said of clean rows: a record whose commit returned an error is unknown to
   the clients, who may insert its key again. *)
StoreHas(r) ==
    \/ Stored(r) = {} /\ chain[r].versions = {}
    \/ \E p \in Stored(r) : /\ IsLast(p, Stored(r))
                            /\ Shows(chain[r], StampAt(p), OpAt(p).data)
StoreHasLog == \A r \in Row : Clean(r) => StoreHas(r)

(* Records on one row were appended in the order of their timestamps, and
   whoever still commits to the row is later than all of them. *)
RowsInOrder ==
    \A r \in Row : \A p, q \in LoggedOps(r) : p[1] < q[1] => StampAt(p) < StampAt(q)
InFlightIsLatest ==
    \A t \in InFlight, r \in Row : Writes(t, r) =>
        \A p \in LoggedOps(r) : file[p[1]].by # t => StampAt(p) < cts[t]

(* An INSERT in the log comes first on its row or right after a DELETE, ... *)
InsertsFollowDeletes ==
    \A r \in Row : Clean(r) => \A q \in LoggedOps(r) : OpAt(q).kind = "insert" =>
        \A p : IsLast(p, {o \in LoggedOps(r) : Before(o, q)}) => OpAt(p).kind = "delete"

(* ... and so does an INSERT that is not yet in the log: right after a DELETE
   of its own transaction, or on a row that has no live version. *)
PendingInserts ==
    \A t \in Tx : pc[t] \in {"active", "log"} =>
        \A r \in Row : Clean(r) => \A i \in OwnOps(t, r) : ops[t][i].kind = "insert" =>
            LET before == {j \in OwnOps(t, r) : j < i}
            IN IF before = {} THEN NoneLive(chain[r])
               ELSE \E j \in before : /\ ops[t][j].kind = "delete"
                                      /\ \A k \in before : k <= j

StoreInv ==
    TornIsTail => /\ StoreHasLog /\ RowsInOrder /\ InFlightIsLatest
                  /\ InsertsFollowDeletes /\ PendingInserts

(* What it is to be in the log. *)
LEMMA LoggedOpsAre ==
    ASSUME NEW r
    PROVE  /\ \A p \in LoggedOps(r) : \E i \in Readable : \E k \in DOMAIN file[i].ops :
                  file[i].ops[k].row = r /\ p = <<i, k>>
           /\ \A i \in Readable : \A k \in DOMAIN file[i].ops :
                  file[i].ops[k].row = r => <<i, k>> \in LoggedOps(r)
           /\ \A p \in LoggedOps(r)' : \E i \in Readable' : \E k \in DOMAIN file'[i].ops :
                  file'[i].ops[k].row = r /\ p = <<i, k>>
           /\ \A i \in Readable' : \A k \in DOMAIN file'[i].ops :
                  file'[i].ops[k].row = r => <<i, k>> \in LoggedOps(r)'
BY DEF LoggedOps

LEMMA LoggedOpType ==
    ASSUME LogTyped, NEW r \in Row, NEW p \in LoggedOps(r)
    PROVE  /\ p = <<p[1], p[2]>>
           /\ p[1] \in Readable /\ p[1] \in DOMAIN file /\ p[1] \in Nat
           /\ p[2] \in DOMAIN file[p[1]].ops /\ p[2] \in Nat \ {0}
           /\ file[p[1]] \in LogRecord /\ file[p[1]] # Torn /\ file[p[1]].by \in Tx
           /\ OpAt(p) \in Op /\ OpAt(p).row = r /\ StampAt(p) \in Ts /\ StampAt(p) \in Nat
<1>1. PICK i \in Readable : \E k \in DOMAIN file[i].ops :
          file[i].ops[k].row = r /\ p = <<i, k>>
  BY LoggedOpsAre
<1>2. PICK k \in DOMAIN file[i].ops : file[i].ops[k].row = r /\ p = <<i, k>>
  BY <1>1
<1>3. i \in DOMAIN file /\ i \in Nat /\ file[i] # Torn /\ file[i] \in LogRecord
  BY ReadableFacts
<1>4. file[i].ops \in Seq(Op) /\ file[i].commit_ts \in Ts /\ file[i].by \in Tx
  BY <1>3 DEF LogRecord
<1>5. k \in Nat \ {0} /\ file[i].ops[k] \in Op
  BY <1>4
<1> QED
  BY <1>2, <1>3, <1>4, <1>5 DEF OpAt, StampAt, Ts

(* What an append adds to the log of a row. *)
LEMMA LoggedOpsGrow ==
    ASSUME LogTyped, NEW f \in LogRecord \cup {Torn}, file' = Append(file, f),
           NEW r \in Row
    PROVE  /\ \A p \in LoggedOps(r) :
                  /\ p \in LoggedOps(r)' /\ file'[p[1]] = file[p[1]]
                  /\ OpAt(p)' = OpAt(p) /\ StampAt(p)' = StampAt(p)
                  /\ p[1] <= Len(file)
           /\ \A p \in LoggedOps(r)' : p \notin LoggedOps(r) =>
                  /\ f # Torn /\ p[1] = Len(file) + 1 /\ file'[p[1]] = f
                  /\ p = <<p[1], p[2]>>
                  /\ p[2] \in DOMAIN f.ops /\ f.ops[p[2]].row = r
                  /\ OpAt(p)' = f.ops[p[2]] /\ StampAt(p)' = f.commit_ts
           /\ f # Torn /\ TornIsTail' =>
                  \A k \in DOMAIN f.ops :
                      f.ops[k].row = r => <<Len(file) + 1, k>> \in LoggedOps(r)'
<1>1. ASSUME NEW p \in LoggedOps(r)
      PROVE  /\ p \in LoggedOps(r)' /\ file'[p[1]] = file[p[1]]
             /\ OpAt(p)' = OpAt(p) /\ StampAt(p)' = StampAt(p)
             /\ p[1] <= Len(file)
  <2>1. /\ p = <<p[1], p[2]>> /\ p[1] \in Readable /\ p[1] \in DOMAIN file
        /\ p[2] \in DOMAIN file[p[1]].ops /\ file[p[1]].ops[p[2]].row = r
    BY LoggedOpType DEF OpAt
  <2>2. p[1] \in Readable' /\ file'[p[1]] = file[p[1]] /\ p[1] <= Len(file)
    BY <2>1, AppendGrows DEF LogTyped
  <2> QED
    BY <2>1, <2>2, LoggedOpsAre DEF OpAt, StampAt
<1>2. ASSUME NEW p \in LoggedOps(r)', p \notin LoggedOps(r)
      PROVE  /\ f # Torn /\ p[1] = Len(file) + 1 /\ file'[p[1]] = f
             /\ p = <<p[1], p[2]>>
             /\ p[2] \in DOMAIN f.ops /\ f.ops[p[2]].row = r
             /\ OpAt(p)' = f.ops[p[2]] /\ StampAt(p)' = f.commit_ts
  <2>1. PICK i \in Readable' : \E k \in DOMAIN file'[i].ops :
            file'[i].ops[k].row = r /\ p = <<i, k>>
    BY <1>2, LoggedOpsAre
  <2>2. PICK k \in DOMAIN file'[i].ops : file'[i].ops[k].row = r /\ p = <<i, k>>
    BY <2>1
  <2>3. i \notin Readable
    <3>1. i \in Readable => file'[i] = file[i]
      BY ReadableFacts, AppendGrows
    <3> QED
      BY <1>2, <2>2, <3>1, LoggedOpsAre
  <2>4. i = Len(file) + 1 /\ f # Torn /\ file'[i] = f
    BY <2>3, AppendGrows
  <2> QED
    BY <2>2, <2>4 DEF OpAt, StampAt
<1>3. ASSUME f # Torn, TornIsTail', NEW k \in DOMAIN f.ops, f.ops[k].row = r
      PROVE  <<Len(file) + 1, k>> \in LoggedOps(r)'
  <2>1. Len(file) + 1 \in Readable' /\ file'[Len(file) + 1] = f
    BY <1>3, AppendGrows
  <2> QED
    BY <1>3, <2>1, LoggedOpsAre
<1> QED
  BY <1>1, <1>2, <1>3

LEMMA LoggedOpsStay ==
    ASSUME LogTyped, file' = file \/ file' = Append(file, Torn), NEW r \in Row
    PROVE  /\ LoggedOps(r)' = LoggedOps(r)
           /\ \A p \in LoggedOps(r) : /\ file'[p[1]] = file[p[1]]
                                      /\ OpAt(p)' = OpAt(p) /\ StampAt(p)' = StampAt(p)
<1>1. CASE file' = file
  BY <1>1 DEF LoggedOps, Readable, OpAt, StampAt
<1>2. CASE file' = Append(file, Torn)
  BY <1>2, LoggedOpsGrow
<1> QED
  BY <1>1, <1>2

(* Nothing is taken out of the log. *)
LEMMA LoggedStays ==
    ASSUME LogTyped, Places, [DNext]_dvars, NEW r \in Row
    PROVE  \A p \in LoggedOps(r) : /\ p \in LoggedOps(r)'
                                   /\ OpAt(p)' = OpAt(p) /\ StampAt(p)' = StampAt(p)
<1>1. CASE file' = file \/ file' = Append(file, Torn)
  BY <1>1, LoggedOpsStay
<1>2. ASSUME NEW t \in Tx, Appends(t)
      PROVE  \A p \in LoggedOps(r) : /\ p \in LoggedOps(r)'
                                     /\ OpAt(p)' = OpAt(p) /\ StampAt(p)' = StampAt(p)
  BY <1>2, RecordType, LoggedOpsGrow DEF Appends
<1> QED
  BY <1>1, <1>2, StepShape DEF FileStep

(* A row that a step leaves clean was clean before it. *)
LEMMA CleanStays ==
    ASSUME LogTyped, Places, FileIsHistory, [DNext]_dvars, NEW r \in Row, Clean(r)'
    PROVE  Clean(r)
<1> SUFFICES ASSUME NEW p \in LoggedOps(r), Disowned(p[1]) PROVE FALSE
  BY DEF Clean
<1>1. p[1] \in Readable /\ p[1] \in DOMAIN file /\ file[p[1]] # Torn
  BY LoggedOpType
<1>2. PICK u \in Tx : file[p[1]] = Record(u) /\ pc[u] \notin Unlogged
  BY <1>1 DEF FileIsHistory
<1>3. file[p[1]].by = u /\ status[u] = "aborted"
  BY <1>2 DEF Record, Disowned
<1>4. p \in LoggedOps(r)' /\ file'[p[1]] = file[p[1]] /\ status'[u] = "aborted"
  BY <1>1, <1>2, <1>3, LoggedStays, FileGrows, AbortedStays
<1> QED
  BY <1>3, <1>4 DEF Clean, Disowned

(* A step that leaves status and log alone leaves the clean rows alone. *)
LEMMA CleanUnchanged ==
    ASSUME LogTyped, file' = file, status' = status, NEW r \in Row
    PROVE  Clean(r)' <=> Clean(r)
BY LoggedOpsStay DEF Clean, Disowned

------------------------------------------------------------------------------
(* Chains under a sweep and under an op. *)
LEMMA NoneLiveReadsNothing ==
    ASSUME NEW c \in VersionChain, NEW s \in Ts, UpTo(c, s), NoneLive(c)
    PROVE  Read(c, s) = NoRow
<1>1. \A v \in c.versions : ~ VisibleAt(v, s)
  BY DEF NoneLive, UpTo, VisibleAt, VersionChain, RowVersion, Ts
<1> QED
  BY <1>1 DEF Read, Visible

LEMMA PruneKeepsShows ==
    ASSUME NEW c \in VersionChain, NEW ts \in Ts, NEW d, NEW h \in Ts, Shows(c, ts, d)
    PROVE  Shows(Prune(c, h), ts, d)
<1> DEFINE p == Prune(c, h)
<1>1. p.versions = {v \in c.versions : v.end_ts > h}
  BY DEF Prune, VersionChain
<1> HIDE DEF p
<1>2. UpTo(p, ts) /\ Disjoint(p)
  BY <1>1 DEF Shows, UpTo, Disjoint
<1>3. ASSUME NEW s \in Ts, ts <= s PROVE Read(p, s) = d
  <2>1. \A v \in c.versions : VisibleAt(v, s) => v.end_ts > h
    BY <1>3, MaxTsAssumption
    DEF Shows, UpTo, VisibleAt, VersionChain, RowVersion, Ts, TS_INFINITY
  <2>2. Visible(p, s) = Visible(c, s)
    BY <1>1, <2>1 DEF Visible
  <2> QED
    BY <1>3, <2>2 DEF Shows, Read
<1> QED
  BY <1>2, <1>3 DEF Shows, p

LEMMA ApplyShows ==
    ASSUME NEW c \in VersionChain, PosBounded(c), NEW op \in Op, NEW ts \in Ts,
           UpTo(c, ts), Disjoint(c), op.kind = "insert" => NoneLive(c)
    PROVE  Shows(Apply(c, op, ts), ts, op.data)
BY ApplyShape, ApplyReads DEF Shows

(* A step that applies nothing to r. *)
LEMMA StoreHasStays ==
    ASSUME LogTyped, TypeOK, NEW r \in Row, StoreHas(r), Stored(r)' = Stored(r),
           \A p \in Stored(r) : OpAt(p)' = OpAt(p) /\ StampAt(p)' = StampAt(p),
           chain'[r] = chain[r] \/ \E h \in Ts : chain'[r] = Prune(chain[r], h)
    PROVE  StoreHas(r)'
<1>0. chain[r] \in VersionChain
  BY DEF TypeOK
<1>1. CASE Stored(r) = {} /\ chain[r].versions = {}
  BY <1>0, <1>1 DEF StoreHas, Prune, VersionChain
<1>2. ASSUME NEW p \in Stored(r), IsLast(p, Stored(r)),
             Shows(chain[r], StampAt(p), OpAt(p).data)
      PROVE  StoreHas(r)'
  <2>1. StampAt(p) \in Ts
    BY LoggedOpType DEF Stored
  <2>2. Shows(chain'[r], StampAt(p), OpAt(p).data)
    BY <1>0, <1>2, <2>1, PruneKeepsShows
  <2>3. Shows(chain[r], StampAt(p), OpAt(p).data)' = Shows(chain'[r], StampAt(p), OpAt(p).data)
    BY DEF Shows, UpTo, Disjoint, Read, Visible, VisibleAt
  <2> QED
    BY <1>2, <2>2 DEF StoreHas, IsLast, Before
<1> QED
  BY <1>1, <1>2 DEF StoreHas

(* A step that applies the next op on r, q, to its chain. *)
LEMMA StoreHasGrows ==
    ASSUME LogTyped, Typed, NEW r \in Row, StoreHas(r),
           NEW q \in LoggedOps(r), Stored(r)' = Stored(r) \cup {q},
           \A p \in Stored(r) \cup {q} : OpAt(p)' = OpAt(p) /\ StampAt(p)' = StampAt(p),
           \A p \in Stored(r) : Before(p, q) /\ StampAt(p) <= StampAt(q),
           OpAt(q).kind = "insert" =>
               \A p : IsLast(p, Stored(r)) => OpAt(p).kind = "delete",
           chain'[r] = Apply(chain[r], OpAt(q), StampAt(q))
    PROVE  StoreHas(r)'
<1> DEFINE op == OpAt(q)
           ts == StampAt(q)
<1>0. /\ chain[r] \in VersionChain /\ PosBounded(chain[r])
      /\ op \in Op /\ ts \in Ts
  BY LoggedOpType DEF Typed, TypeOK, ChainsBounded
<1>1. UpTo(chain[r], ts) /\ Disjoint(chain[r]) /\ (op.kind = "insert" => NoneLive(chain[r]))
  <2>1. CASE Stored(r) = {} /\ chain[r].versions = {}
    BY <2>1 DEF UpTo, Disjoint, NoneLive
  <2>2. ASSUME NEW p \in Stored(r), IsLast(p, Stored(r)),
               Shows(chain[r], StampAt(p), OpAt(p).data)
        PROVE  UpTo(chain[r], ts) /\ Disjoint(chain[r])
               /\ (op.kind = "insert" => NoneLive(chain[r]))
    <3>1. /\ StampAt(p) \in Ts /\ StampAt(p) <= ts /\ OpAt(p) \in Op
          /\ UpTo(chain[r], StampAt(p)) /\ Disjoint(chain[r])
      BY <2>2, LoggedOpType DEF Stored, Shows
    <3>2. UpTo(chain[r], ts)
      BY <1>0, <3>1 DEF UpTo, VersionChain, RowVersion, Ts, TS_INFINITY
    <3>3. ASSUME op.kind = "insert" PROVE NoneLive(chain[r])
      <4>1. OpAt(p).data = NoRow
        BY <2>2, <3>1, <3>3 DEF Op
      <4>2. Read(chain[r], StampAt(p)) = NoRow
        BY <2>2, <3>1, <4>1 DEF Shows, Ts
      <4> QED
        BY <1>0, <3>1, <4>2, NothingReadNoneLive
    <3> QED
      BY <3>1, <3>2, <3>3
  <2> QED
    BY <2>1, <2>2 DEF StoreHas
<1>2. Shows(chain'[r], ts, op.data)
  BY <1>0, <1>1, ApplyShows
<1>3. q \in Stored(r)' /\ IsLast(q, Stored(r)')
  BY DEF IsLast
<1> QED
  BY <1>2, <1>3 DEF StoreHas, IsLast, Before

------------------------------------------------------------------------------
(* Whose record it is, and who else may write its rows. *)
LEMMA RecordIsOf ==
    ASSUME LogTyped, FileIsHistory, NEW r \in Row, NEW p \in LoggedOps(r),
           NEW u, u = file[p[1]].by
    PROVE  /\ u \in Tx /\ pc[u] \notin Unlogged
           /\ file[p[1]].ops = ops[u] /\ StampAt(p) = cts[u]
           /\ p[2] \in OwnOps(u, r) /\ Writes(u, r)
<1>1. /\ p[1] \in DOMAIN file /\ file[p[1]] # Torn
      /\ p[2] \in DOMAIN file[p[1]].ops /\ file[p[1]].ops[p[2]].row = r
  BY LoggedOpType DEF OpAt
<1>2. PICK w \in Tx : file[p[1]] = Record(w) /\ pc[w] \notin Unlogged
  BY <1>1 DEF FileIsHistory
<1>3. w = u /\ file[p[1]].ops = ops[u] /\ file[p[1]].commit_ts = cts[u]
  BY <1>2 DEF Record
<1>4. p[2] \in OwnOps(u, r)
  BY <1>1, <1>3 DEF OwnOps
<1> QED
  BY <1>2, <1>3, <1>4 DEF StampAt, Writes

LEMMA WritersDiffer ==
    ASSUME WritesAreOwned, NEW t \in Tx, NEW u \in Tx, NEW r,
           pc[t] \in Locking, pc[u] \in Locking, Writes(t, r), Writes(u, r)
    PROVE  t = u
BY DEF WritesAreOwned, Writes, OwnOps

(* Nobody who is still applying writes r: the whole log of r is in the store. *)
LEMMA AllStored ==
    ASSUME LogTyped, FileIsHistory, NEW r \in Row, mode = "up",
           \A u \in Tx : pc[u] \in {"apply", "index"} => ~ Writes(u, r)
    PROVE  Stored(r) = LoggedOps(r)
<1>1. ASSUME NEW p \in LoggedOps(r) PROVE InStore(p)
  BY RecordIsOf DEF InStore
<1> QED
  BY <1>1 DEF Stored

(* Who is committing after a step was committing before it, or takes its
   timestamp in it. *)
LEMMA FlightStep ==
    ASSUME LogTyped, Places, [DNext]_dvars, NEW t \in Tx, t \in InFlight'
    PROVE  \/ t \in InFlight /\ ops'[t] = ops[t] /\ cts'[t] = cts[t]
           \/ /\ mode = "up" /\ pc[t] = "active" /\ file' = file
              /\ ops' = ops /\ cts'[t] = clock + 1
<1> DEFINE Flying == {"log", "apply", "index"}
<1>0. pc'[t] \in Flying /\ (t \in InFlight <=> pc[t] \in Flying)
  BY DEF InFlight
<1>1. pc[t] \in Flying => t \in InFlight /\ ops'[t] = ops[t] /\ cts'[t] = cts[t]
  BY <1>0, StepShape DEF RecordsStay, Undecided
<1>2. ASSUME mode = "up", NEW u \in Tx, InMemory(u)
      PROVE  \/ pc[t] \in Flying
             \/ /\ mode = "up" /\ pc[t] = "active" /\ file' = file
                /\ ops' = ops /\ cts'[t] = clock + 1
  <2>1. CASE TakesStamp(u)
    BY <1>0, <1>2, <2>1, InMemoryShape DEF TakesStamp, LogTyped
  <2>2. CASE Prepares(u) \/ GivesUp(u) \/ Proceeds(u)
    BY <1>0, <1>2, <2>2, InMemoryShape DEF Prepares, GivesUp, Proceeds, Undecided, Unlogged
  <2> QED
    BY <1>2, <2>1, <2>2, InMemoryShape
<1>3. ASSUME NEW u \in Tx, AppendRecord(u) \/ AppendFails(u) \/ Acknowledge(u)
      PROVE  pc[t] \in Flying
  <2>1. CASE AppendRecord(u)
    BY <1>0, <2>1 DEF AppendRecord, LogWrites, Goto, LogTyped
  <2>2. CASE AppendFails(u)
    BY <1>0, <2>2, FailureShape DEF LogTyped
  <2>3. CASE Acknowledge(u)
    BY <1>0, <2>3 DEF Acknowledge, CommitReturns, Goto, LogTyped
  <2> QED
    BY <1>3, <2>1, <2>2, <2>3
<1>4. ASSUME Crash PROVE FALSE
  BY <1>0, <1>4 DEF Crash, Restart
<1>5. ASSUME RedoOp \/ NextRecord \/ Serve \/ UNCHANGED dvars PROVE pc[t] \in Flying
  BY <1>0, <1>5 DEF RedoOp, NextRecord, Serve, dvars, vars
<1>6. \/ pc[t] \in Flying
      \/ mode = "up" /\ pc[t] = "active" /\ file' = file /\ ops' = ops /\ cts'[t] = clock + 1
  BY <1>2, <1>3, <1>4, <1>5 DEF DNext
<1> HIDE DEF Flying
<1> QED
  BY <1>1, <1>6

(* Two-phase locking and timestamps taken under the locks order the log. *)
LEMMA InFlightIsLatestStep ==
    ASSUME LogTyped, Places, FileIsHistory, ClockIsPast, WritesAreOwned, InFlightIsLatest,
           [DNext]_dvars
    PROVE  InFlightIsLatest'
<1> SUFFICES ASSUME NEW t \in Tx, t \in InFlight', NEW r \in Row, Writes(t, r)',
                    NEW p, p \in LoggedOps(r)', file'[p[1]].by # t
             PROVE  StampAt(p)' < cts'[t]
  BY DEF InFlightIsLatest, InFlight
<1>1. CASE t \in InFlight /\ ops'[t] = ops[t] /\ cts'[t] = cts[t]
  <2>1. Writes(t, r) /\ pc[t] \in Locking
    BY <1>1 DEF Writes, OwnOps, InFlight, Locking
  <2>2. ASSUME p \in LoggedOps(r), file'[p[1]] = file[p[1]], StampAt(p)' = StampAt(p)
        PROVE  StampAt(p)' < cts'[t]
    BY <1>1, <2>1, <2>2 DEF InFlightIsLatest
  <2>3. CASE file' = file \/ file' = Append(file, Torn)
    BY <2>2, <2>3, LoggedOpsStay
  <2>4. ASSUME NEW u \in Tx, Appends(u) PROVE StampAt(p)' < cts'[t]
    <3>1. Record(u) \in LogRecord /\ file' = Append(file, Record(u)) /\ pc[u] = "log"
      BY <2>4, RecordType DEF Appends
    <3>2. CASE p \in LoggedOps(r)
      <4>1. \A o \in LoggedOps(r) : file'[o[1]] = file[o[1]] /\ StampAt(o)' = StampAt(o)
        BY <3>1, LoggedOpsGrow
      <4> QED
        BY <2>2, <3>2, <4>1
    <3>3. CASE p \notin LoggedOps(r)
      <4>1. /\ file'[p[1]] = Record(u)
            /\ p[2] \in DOMAIN Record(u).ops /\ Record(u).ops[p[2]].row = r
        BY <3>1, <3>3, LoggedOpsGrow
      <4>2. Writes(u, r) /\ u # t
        BY <4>1 DEF Record, Writes, OwnOps
      <4> QED
        BY <2>1, <3>1, <4>2, WritersDiffer DEF Locking
    <3> QED
      BY <3>2, <3>3
  <2> QED
    BY <2>3, <2>4, StepShape DEF FileStep
<1>2. CASE mode = "up" /\ file' = file /\ cts'[t] = clock + 1
  <2>1. p \in LoggedOps(r) /\ StampAt(p)' = StampAt(p)
    BY <1>2, LoggedOpsStay
  <2>2. StampAt(p) <= clock /\ StampAt(p) \in Nat /\ clock \in Nat
    BY <1>2, <2>1, LoggedOpType DEF ClockIsPast, StampAt, LogTyped, Ts
  <2> QED
    BY <1>2, <2>1, <2>2
<1> QED
  BY <1>1, <1>2, FlightStep

LEMMA RowsInOrderStep ==
    ASSUME LogTyped, Places, FileIsHistory, InFlightIsLatest, RowsInOrder, [DNext]_dvars
    PROVE  RowsInOrder'
<1> SUFFICES ASSUME NEW r \in Row, NEW p, p \in LoggedOps(r)', NEW q, q \in LoggedOps(r)',
                    p[1] < q[1]
             PROVE  StampAt(p)' < StampAt(q)'
  BY DEF RowsInOrder
<1>1. CASE file' = file \/ file' = Append(file, Torn)
  BY <1>1, LoggedOpsStay DEF RowsInOrder
<1>2. ASSUME NEW t \in Tx, Appends(t) PROVE StampAt(p)' < StampAt(q)'
  <2>1. Record(t) \in LogRecord /\ file' = Append(file, Record(t)) /\ pc[t] = "log"
        /\ Record(t).ops = ops[t] /\ Record(t).commit_ts = cts[t] /\ Len(file) \in Nat
    BY <1>2, RecordType DEF Appends, Record, LogTyped
  <2>2. p \in LoggedOps(r)
    <3>1. SUFFICES ASSUME p \notin LoggedOps(r) PROVE FALSE
      OBVIOUS
    <3>2. p[1] = Len(file) + 1
      BY <2>1, <3>1, LoggedOpsGrow
    <3>3. q[1] \in Nat /\ q[1] <= Len(file) + 1
      <4>1. CASE q \in LoggedOps(r)
        BY <2>1, <4>1, LoggedOpType, LoggedOpsGrow
      <4>2. CASE q \notin LoggedOps(r)
        BY <2>1, <4>2, LoggedOpsGrow
      <4> QED
        BY <4>1, <4>2
    <3> QED
      BY <2>1, <3>2, <3>3
  <2>3. StampAt(p)' = StampAt(p)
    BY <2>1, <2>2, LoggedOpsGrow
  <2>4. CASE q \in LoggedOps(r)
    BY <2>1, <2>2, <2>3, <2>4, LoggedOpsGrow DEF RowsInOrder
  <2>5. CASE q \notin LoggedOps(r)
    <3>1. StampAt(q)' = cts[t] /\ q[2] \in DOMAIN ops[t] /\ ops[t][q[2]].row = r
      BY <2>1, <2>5, LoggedOpsGrow
    <3>2. Writes(t, r) /\ t \in InFlight
      BY <2>1, <3>1 DEF Writes, OwnOps, InFlight
    <3>3. file[p[1]].by # t
      BY <2>1, <2>2, RecordIsOf DEF Unlogged
    <3> QED
      BY <2>2, <2>3, <3>1, <3>2, <3>3 DEF InFlightIsLatest
  <2> QED
    BY <2>4, <2>5
<1> QED
  BY <1>1, <1>2, StepShape DEF FileStep

(* What an INSERT that is appended comes after in the log. *)
LEMMA InsertsFollowDeletesStep ==
    ASSUME LogTyped, Places, FileIsHistory, Typed, WritesAreOwned, TornIsTail',
           StoreHasLog, InsertsFollowDeletes, PendingInserts, [DNext]_dvars
    PROVE  InsertsFollowDeletes'
<1> SUFFICES ASSUME NEW r \in Row, Clean(r)', NEW q, q \in LoggedOps(r)',
                    OpAt(q)'.kind = "insert",
                    NEW p, IsLast(p, {o \in LoggedOps(r)' : Before(o, q)})
             PROVE  OpAt(p)'.kind = "delete"
  BY DEF InsertsFollowDeletes, IsLast, Before
<1>c. Clean(r)
  BY CleanStays
<1>0. p \in LoggedOps(r)' /\ Before(p, q)
      /\ \A o \in LoggedOps(r)' : Before(o, q) => o = p \/ Before(o, p)
  BY DEF IsLast
<1>1. CASE file' = file \/ file' = Append(file, Torn)
  <2>1. LoggedOps(r)' = LoggedOps(r) /\ OpAt(q)' = OpAt(q) /\ OpAt(p)' = OpAt(p)
    BY <1>0, <1>1, LoggedOpsStay
  <2> QED
    BY <1>c, <2>1 DEF InsertsFollowDeletes
<1>2. ASSUME NEW t \in Tx, Appends(t) PROVE OpAt(p)'.kind = "delete"
  <2> DEFINE n == Len(file) + 1
  <2>1. /\ Record(t) \in LogRecord /\ Record(t) # Torn /\ file' = Append(file, Record(t))
        /\ pc[t] = "log" /\ Record(t).ops = ops[t] /\ Len(file) \in Nat
    BY <1>2, RecordType DEF Appends, Record, LogTyped
  <2>2. \A o \in LoggedOps(r) : /\ o \in LoggedOps(r)' /\ OpAt(o)' = OpAt(o)
                                /\ o[1] \in Nat /\ o[2] \in Nat /\ o[1] < n
    <3>1. \A o \in LoggedOps(r) : o \in LoggedOps(r)' /\ OpAt(o)' = OpAt(o) /\ o[1] <= Len(file)
      BY <2>1, LoggedOpsGrow
    <3>2. \A o \in LoggedOps(r) : o[1] \in Nat /\ o[2] \in Nat
      BY LoggedOpType
    <3> QED
      BY <2>1, <3>1, <3>2
  <2>3. ASSUME NEW o, o \in LoggedOps(r)', o \notin LoggedOps(r)
        PROVE  /\ o[1] = n /\ o = <<n, o[2]>> /\ o[2] \in OwnOps(t, r) /\ o[2] \in Nat
               /\ OpAt(o)' = ops[t][o[2]]
    <3>1. /\ o[1] = n /\ o = <<o[1], o[2]>> /\ o[2] \in DOMAIN ops[t]
          /\ ops[t][o[2]].row = r /\ OpAt(o)' = ops[t][o[2]]
      BY <2>1, <2>3, LoggedOpsGrow
    <3> QED
      BY <3>1 DEF OwnOps, LogTyped
  <2>4. \A k \in OwnOps(t, r) : <<n, k>> \in LoggedOps(r)'
    BY <2>1, LoggedOpsGrow DEF OwnOps
  <2> HIDE DEF n
  <2>n. n \in Nat
    BY <2>1 DEF n
  <2>5. CASE q \in LoggedOps(r)
    <3>1. \A o \in LoggedOps(r)' : Before(o, q) => o \in LoggedOps(r)
      BY <2>2, <2>3, <2>5, <2>n DEF Before
    <3>2. IsLast(p, {o \in LoggedOps(r) : Before(o, q)}) /\ OpAt(p)' = OpAt(p)
      BY <1>0, <2>2, <3>1 DEF IsLast
    <3> QED
      BY <1>c, <2>2, <2>5, <3>2 DEF InsertsFollowDeletes
  <2>6. CASE q \notin LoggedOps(r)
    <3> DEFINE k == q[2]
               before == {j \in OwnOps(t, r) : j < k}
    <3>1. /\ q[1] = n /\ k \in OwnOps(t, r) /\ k \in Nat /\ ops[t][k].kind = "insert"
          /\ k \in DOMAIN ops[t] /\ ops[t][k].row = r
      BY <2>3, <2>6 DEF OwnOps
    <3>2. IF before = {} THEN NoneLive(chain[r])
          ELSE \E j \in before : /\ ops[t][j].kind = "delete"
                                 /\ \A i \in before : i <= j
      BY <1>c, <2>1, <3>1 DEF PendingInserts
    <3>3. p \notin LoggedOps(r) => p[2] \in before
      BY <1>0, <2>3, <2>n, <3>1 DEF Before
    <3>4. CASE before # {}
      <4>1. PICK j \in before : ops[t][j].kind = "delete" /\ \A i \in before : i <= j
        BY <3>2, <3>4
      <4>2. j \in Nat /\ j < k /\ <<n, j>> \in LoggedOps(r)'
        BY <2>4, <3>1, <4>1 DEF OwnOps, LogTyped
      <4>3. <<n, j>> = p \/ Before(<<n, j>>, p)
        <5>1. Before(<<n, j>>, q)
          BY <3>1, <4>2 DEF Before
        <5> QED
          BY <1>0, <4>2, <5>1
      <4>4. p \notin LoggedOps(r)
        BY <2>2, <2>n, <4>2, <4>3 DEF Before
      <4>5. p = <<n, p[2]>> /\ p[2] <= j /\ p[2] \in Nat /\ p[1] = n
        BY <1>0, <2>3, <3>3, <4>1, <4>4
      <4>6. p[2] = j
        BY <2>n, <4>2, <4>3, <4>5 DEF Before
      <4> QED
        BY <1>0, <2>3, <4>1, <4>4, <4>6
    <3>5. CASE before = {}
      <4>1. p \in LoggedOps(r) /\ OpAt(p)' = OpAt(p)
        BY <2>2, <3>3, <3>5
      <4>2. \A o \in LoggedOps(r) : o = p \/ Before(o, p)
        BY <1>0, <2>2, <3>1 DEF Before
      <4>3. mode = "up"
        BY <2>1 DEF Places, LogTyped
      <4>4. \A u \in Tx : pc[u] \in {"apply", "index"} => ~ Writes(u, r)
        BY <2>1, <3>1, WritersDiffer DEF Locking, Writes
      <4>5. Stored(r) = LoggedOps(r)
        BY <4>3, <4>4, AllStored
      <4>6. PICK o \in LoggedOps(r) : /\ IsLast(o, LoggedOps(r))
                                      /\ Shows(chain[r], StampAt(o), OpAt(o).data)
        BY <1>c, <4>1, <4>5 DEF StoreHasLog, StoreHas
      <4>7. o = p
        BY <2>2, <4>1, <4>2, <4>6 DEF IsLast, Before
      <4>8. /\ chain[r] \in VersionChain /\ StampAt(p) \in Ts /\ StampAt(p) <= StampAt(p)
            /\ OpAt(p) \in Op
        BY <4>1, LoggedOpType DEF Typed, TypeOK
      <4>9. OpAt(p).data = NoRow
        BY <3>2, <3>5, <4>6, <4>7, <4>8, NoneLiveReadsNothing DEF Shows
      <4> QED
        BY <4>1, <4>8, <4>9, NoRowAssumption DEF Op
    <3> QED
      BY <3>4, <3>5
  <2> QED
    BY <2>5, <2>6
<1> QED
  BY <1>1, <1>2, StepShape DEF FileStep

(* Who has an INSERT to come after a step had it before, or writes it now. *)
LEMMA PendingStep ==
    ASSUME LogTyped, Places, Starts, [DNext]_dvars, NEW t \in Tx, pc'[t] \in {"active", "log"}
    PROVE  /\ mode = "up"
           /\ \/ pc[t] \in {"active", "log"} /\ ops'[t] = ops[t]
              \/ ops'[t] = <<>>
              \/ \E op \in Op : Write(t, op)
<1> DEFINE Goal == \/ pc[t] \in {"active", "log"} /\ ops'[t] = ops[t]
                   \/ ops'[t] = <<>>
                   \/ \E op \in Op : Write(t, op)
<1>1. ASSUME NEW u \in Tx, InMemory(u), u # t PROVE Goal
  BY <1>1, InMemoryShape
<1>2. ASSUME InMemory(t) PROVE Goal
  <2>1. CASE Begin(t)
    BY <2>1 DEF Begin, BeginLoad, BeginRegister, Goto, LogTyped, Starts
  <2>2. CASE Commit(t) \/ Abort(t) \/ \E r \in Row : LockRow(t, r)
    BY <2>2 DEF Commit, Abort, LockRow, Goto, LogTyped
  <2>3. CASE \E op \in Op : Write(t, op)
    BY <2>3
  <2>4. CASE ApplyOp(t) \/ IndexInsert(t) \/ Applied(t)
    BY <2>4 DEF ApplyOp, IndexInsert, Applied, Goto, LogTyped
  <2>5. CASE Release(t) \/ Unsnap(t)
    BY <2>5 DEF Release, Unsnap, Goto, LogTyped
  <2>6. CASE ComputeHorizon(t) \/ Sweep(t) \/ SkipSweep(t)
    BY <2>6 DEF ComputeHorizon, Sweep, SkipSweep, Goto, LogTyped
  <2> QED
    BY <1>2, <2>1, <2>2, <2>3, <2>4, <2>5, <2>6 DEF InMemory
<1>3. ASSUME NEW u \in Tx, AppendRecord(u) PROVE Goal
  BY <1>3 DEF AppendRecord, LogWrites, Goto, engine, LogTyped
<1>4. ASSUME NEW u \in Tx, AppendFails(u) PROVE Goal
  BY <1>4, FailureShape DEF LogTyped
<1>5. ASSUME NEW u \in Tx, Acknowledge(u) PROVE Goal
  BY <1>5 DEF Acknowledge, CommitReturns, Goto, engine, LogTyped
<1>6. ASSUME Crash PROVE FALSE
  BY <1>6 DEF Crash, Restart
<1>7. ASSUME RedoOp \/ NextRecord \/ Serve PROVE FALSE
  BY <1>7 DEF RedoOp, NextRecord, Serve, vars, Places
<1>8. ASSUME UNCHANGED dvars PROVE Goal /\ mode = "up"
  <2>1. pc' = pc /\ ops' = ops
    BY <1>8 DEF dvars, vars, engine
  <2> QED
    BY <2>1 DEF Places, LogTyped
<1> HIDE DEF Goal
<1>9. Goal /\ mode = "up"
  BY <1>1, <1>2, <1>3, <1>4, <1>5, <1>6, <1>7, <1>8 DEF DNext
<1> QED
  BY <1>9 DEF Goal

(* How chains change while the engine is up. *)
LEMMA ChainStep ==
    ASSUME TypeOK, [DNext]_dvars, mode' = "up"
    PROVE  \/ chain' = chain
           \/ \E u \in Tx : ApplyOp(u)
           \/ \E u \in Tx : Sweep(u)
<1>1. ASSUME NEW u \in Tx, InMemory(u) PROVE chain' = chain \/ ApplyOp(u) \/ Sweep(u)
  BY <1>1 DEF InMemory, Begin, BeginLoad, BeginRegister, Commit, Abort, Write, LockRow,
     IndexInsert, Applied, Release, Unsnap, ComputeHorizon, SkipSweep, engine
<1>2. ASSUME NEW u \in Tx, AppendRecord(u) \/ AppendFails(u) \/ Acknowledge(u)
      PROVE  chain' = chain
  BY <1>2 DEF AppendRecord, AppendFails, Acknowledge, LogWrites, LogFails, CommitReturns, engine
<1>3. ASSUME Crash \/ RedoOp PROVE FALSE
  BY <1>3 DEF Crash, Restart, RedoOp
<1>4. ASSUME NextRecord \/ Serve \/ UNCHANGED dvars PROVE chain' = chain
  BY <1>4 DEF NextRecord, Serve, dvars, vars, engine
<1> QED
  BY <1>1, <1>2, <1>3, <1>4 DEF DNext

LEMMA SweepPrunes ==
    ASSUME TypeOK, NEW u \in Tx, Sweep(u), NEW r \in Row
    PROVE  chain'[r] = chain[r] \/ \E h \in Ts : chain'[r] = Prune(chain[r], h)
BY DEF Sweep, TypeOK

LEMMA PendingInsertsStep ==
    ASSUME UniqueKeys, LogTyped, Places, FileIsHistory, ClockIsPast, EngineInv,
           StoreHasLog, PendingInserts, [DNext]_dvars
    PROVE  PendingInserts'
<1>0. TypeOK /\ Typed /\ Starts /\ WritesAreOwned
  BY DEF EngineInv, Typed
<1> DEFINE Comes(t, i, r, w, c) ==
               LET before == {j \in {k \in DOMAIN w : w[k].row = r} : j < i}
               IN IF before = {} THEN NoneLive(c)
                  ELSE \E j \in before : /\ w[j].kind = "delete"
                                         /\ \A k \in before : k <= j
<1> SUFFICES ASSUME NEW t \in Tx, pc'[t] \in {"active", "log"}, NEW r \in Row, Clean(r)',
                    NEW i \in DOMAIN ops'[t], ops'[t][i].row = r, ops'[t][i].kind = "insert"
             PROVE  Comes(t, i, r, ops'[t], chain'[r])
  BY DEF PendingInserts, OwnOps, NoneLive
<1>c. Clean(r)
  BY CleanStays
<1>1. ASSUME pc[t] \in {"active", "log"}, NEW j \in DOMAIN ops[t], ops[t][j].row = r,
             ops[t][j].kind = "insert"
      PROVE  Comes(t, j, r, ops[t], chain[r])
  BY <1>1, <1>c DEF PendingInserts, OwnOps
<1>2. CASE pc[t] \in {"active", "log"} /\ ops'[t] = ops[t]
  <2>1. i \in DOMAIN ops[t] /\ ops[t][i].kind = "insert" /\ ops[t][i].row = r
    BY <1>2
  <2>2. r \in Row /\ Writes(t, r) /\ pc[t] \in Locking
    BY <1>2, <2>1 DEF Writes, OwnOps, Locking
  <2>3. NoneLive(chain[r]) => NoneLive(chain'[r])
    <3>1. ASSUME NEW u \in Tx, ApplyOp(u) PROVE chain'[r] = chain[r]
      <4>1. /\ pc[u] = "apply" /\ cur[u] \in DOMAIN ops[u] /\ ops[u][cur[u]].row \in Row
            /\ u # t
        BY <1>0, <1>2, <3>1, CurrentOp DEF ApplyOp
      <4>2. Writes(u, ops[u][cur[u]].row)
        BY <4>1 DEF Writes, OwnOps
      <4>3. ops[u][cur[u]].row # r
        BY <1>0, <2>2, <4>1, <4>2, WritersDiffer DEF Locking
      <4> QED
        BY <1>0, <2>2, <3>1, <4>1, <4>3 DEF ApplyOp, TypeOK
    <3>2. ASSUME NEW u \in Tx, Sweep(u) PROVE NoneLive(chain[r]) => NoneLive(chain'[r])
      <4>1. chain[r] \in VersionChain
        BY <1>0, <2>2 DEF TypeOK
      <4>2. chain'[r] = chain[r] \/ \E h \in Ts : chain'[r] = Prune(chain[r], h)
        BY <1>0, <2>2, <3>2, SweepPrunes
      <4> QED
        BY <4>1, <4>2 DEF NoneLive, Prune, VersionChain
    <3>3. mode' = "up"
      <4>1. mode = "up"
        BY <1>0, PendingStep
      <4>2. ~ Crash
        BY DEF Crash, Restart
      <4>3. ~ (RedoOp \/ NextRecord \/ Serve)
        BY <4>1 DEF RedoOp, NextRecord, Serve
      <4> QED
        BY <4>1, <4>2, <4>3
        DEF DNext, InMemory, AppendRecord, AppendFails, Acknowledge, dvars
    <3> QED
      BY <1>0, <3>1, <3>2, <3>3, ChainStep
  <2>4. Comes(t, i, r, ops[t], chain[r])
    BY <1>1, <1>2, <2>1
  <2>5. Comes(t, i, r, ops[t], chain'[r])
    BY <2>3, <2>4
  <2> QED
    BY <1>2, <2>5
<1>3. CASE ops'[t] = <<>>
  BY <1>3
<1>4. ASSUME NEW op \in Op, Write(t, op)
      PROVE  Comes(t, i, r, ops'[t], chain'[r])
  <2>1. /\ ops'[t] = Append(ops[t], op) /\ ops[t] \in Seq(Op) /\ pc[t] = "active"
        /\ chain' = chain /\ ClientMayWrite(t, op) /\ op.row \in Row
    BY <1>0, <1>4 DEF Write, TypeOK, Op
  <2>2. /\ DOMAIN ops'[t] = 1 .. Len(ops[t]) + 1 /\ DOMAIN ops[t] = 1 .. Len(ops[t])
        /\ Len(ops[t]) \in Nat
        /\ \A j \in DOMAIN ops[t] : ops'[t][j] = ops[t][j]
        /\ ops'[t][Len(ops[t]) + 1] = op
    BY <2>1
  <2>3. CASE i \in DOMAIN ops[t]
    <3>1. ops'[t][i] = ops[t][i] /\ ops[t][i].kind = "insert" /\ ops[t][i].row = r
      BY <2>2, <2>3
    <3>2. Comes(t, i, r, ops[t], chain[r])
      BY <1>1, <2>1, <2>3, <3>1
    <3>3. {j \in {k \in DOMAIN ops'[t] : ops'[t][k].row = r} : j < i}
            = {j \in {k \in DOMAIN ops[t] : ops[t][k].row = r} : j < i}
      BY <2>2, <2>3
    <3>4. \A j \in {k \in DOMAIN ops[t] : ops[t][k].row = r} : ops'[t][j] = ops[t][j]
      BY <2>2
    <3>5. Comes(t, i, r, ops'[t], chain[r])
      BY <3>2, <3>3, <3>4
    <3> QED
      BY <2>1, <3>1, <3>5
  <2>4. CASE i = Len(ops[t]) + 1
    <3>1. ops'[t][i] = op /\ op.kind = "insert" /\ op.row = r
      BY <2>2, <2>4
    <3>2. {j \in {k \in DOMAIN ops'[t] : ops'[t][k].row = r} : j < i} = OwnOps(t, r)
      BY <2>2, <2>4 DEF OwnOps
    <3>3. LockedValue(t, r) = NoRow
      BY <2>1, <3>1 DEF ClientMayWrite
    <3>4. CASE OwnOps(t, r) = {}
      <4>1. Read(chain[r], clock) = NoRow
        BY <3>3, <3>4 DEF LockedValue
      <4>2. UpTo(chain[r], clock) /\ Disjoint(chain[r])
        <5>1. CASE chain[r].versions = {}
          BY <5>1 DEF UpTo, Disjoint
        <5>2. ASSUME NEW p \in Stored(r), Shows(chain[r], StampAt(p), OpAt(p).data)
              PROVE  UpTo(chain[r], clock) /\ Disjoint(chain[r])
          <6>1. p[1] \in Readable /\ StampAt(p) \in Nat
            BY <2>1, LoggedOpType DEF Stored
          <6>2. mode = "up"
            BY <1>0, PendingStep
          <6>3. StampAt(p) <= clock
            BY <6>1, <6>2 DEF ClockIsPast, StampAt
          <6> QED
            BY <1>0, <2>1, <5>2, <6>1, <6>3
            DEF Shows, UpTo, TypeOK, VersionChain, RowVersion, Ts, TS_INFINITY
        <5> QED
          BY <1>c, <2>1, <5>1, <5>2 DEF StoreHasLog, StoreHas
      <4>3. chain[r] \in VersionChain /\ clock \in Ts
        BY <1>0, <2>1 DEF TypeOK
      <4>4. NoneLive(chain[r])
        BY <4>1, <4>2, <4>3, NothingReadNoneLive
      <4> QED
        BY <2>1, <3>1, <3>2, <3>4, <4>4
    <3>5. CASE OwnOps(t, r) # {}
      <4>1. PICK j \in OwnOps(t, r) : /\ LastOwnOp(t, r) = ops[t][j]
                                      /\ \A k \in OwnOps(t, r) : k <= j
        BY <1>0, <2>1, <3>5, LastOwnOpExists
      <4>2. j \in DOMAIN ops[t] /\ ops[t][j] \in Op /\ ops'[t][j] = ops[t][j]
        BY <2>1, <2>2 DEF OwnOps
      <4>3. ops[t][j].data = NoRow
        BY <3>3, <3>5, <4>1 DEF LockedValue
      <4>4. ops'[t][j].kind = "delete"
        BY <4>2, <4>3, NoRowAssumption DEF Op
      <4> QED
        BY <3>1, <3>2, <3>5, <4>1, <4>4
    <3> QED
      BY <3>4, <3>5
  <2> QED
    BY <2>2, <2>3, <2>4
<1> HIDE DEF Comes
<1> QED
  BY <1>0, <1>2, <1>3, <1>4, PendingStep

(* A transaction that is past its append moves on, or has applied everything. *)
LEMMA CommitMoves ==
    ASSUME LogTyped, TypeOK, NEW t \in Tx, pc[t] \notin Unlogged, mode = "up", mode' = "up",
           [DNext]_dvars, ~ ApplyOp(t)
    PROVE  \/ pc'[t] = pc[t] /\ cur'[t] = cur[t]
           \/ pc[t] \notin {"apply", "index"} /\ pc'[t] \notin {"apply", "index"}
           \/ pc[t] = "index" /\ pc'[t] = "apply" /\ cur'[t] = cur[t] + 1
           \/ pc[t] = "apply" /\ cur[t] > Len(ops[t]) /\ pc'[t] = "release"
<1> DEFINE Moves == \/ pc'[t] = pc[t] /\ cur'[t] = cur[t]
                    \/ pc[t] \notin {"apply", "index"} /\ pc'[t] \notin {"apply", "index"}
                    \/ pc[t] = "index" /\ pc'[t] = "apply" /\ cur'[t] = cur[t] + 1
                    \/ pc[t] = "apply" /\ cur[t] > Len(ops[t]) /\ pc'[t] = "release"
<1> USE DEF Goto, TypeOK
<1>1. ASSUME NEW u \in Tx, InMemory(u), u # t PROVE Moves
  <2>1. pc'[t] = pc[t]
    BY <1>1, InMemoryShape DEF InMemory, Begin, BeginLoad, BeginRegister, Commit, Abort, Write,
       LockRow, ApplyOp, IndexInsert, Applied, Release, Unsnap, ComputeHorizon, Sweep, SkipSweep
  <2>2. cur'[t] = cur[t]
    BY <1>1 DEF InMemory, Begin, BeginLoad, BeginRegister, Commit, Abort, Write,
       LockRow, ApplyOp, IndexInsert, Applied, Release, Unsnap, ComputeHorizon, Sweep, SkipSweep
  <2> QED
    BY <2>1, <2>2
<1>2. ASSUME InMemory(t) PROVE Moves
  <2>1. CASE IndexInsert(t) \/ Applied(t)
    BY <2>1 DEF IndexInsert, Applied
  <2>2. CASE Release(t) \/ Unsnap(t)
    BY <2>2 DEF Release, Unsnap
  <2>3. CASE ComputeHorizon(t) \/ Sweep(t) \/ SkipSweep(t)
    BY <2>3 DEF ComputeHorizon, Sweep, SkipSweep
  <2>4. ~ (Begin(t) \/ Commit(t) \/ Abort(t) \/ (\E op \in Op : Write(t, op))
           \/ \E r \in Row : LockRow(t, r))
    BY DEF Begin, BeginLoad, BeginRegister, Commit, Abort, Write, LockRow, Unlogged, Undecided
  <2> QED
    BY <1>2, <2>1, <2>2, <2>3, <2>4 DEF InMemory
<1>3. ASSUME NEW u \in Tx, AppendRecord(u) PROVE Moves
  BY <1>3 DEF AppendRecord, LogWrites, Unlogged
<1>4. ASSUME NEW u \in Tx, AppendFails(u) PROVE Moves
  BY <1>4 DEF AppendFails, LogFails, Unlogged
<1>5. ASSUME NEW u \in Tx, Acknowledge(u) PROVE Moves
  BY <1>5 DEF Acknowledge, CommitReturns
<1>6. ASSUME Crash \/ RedoOp \/ NextRecord \/ Serve PROVE FALSE
  BY <1>6 DEF Crash, Restart, RedoOp, NextRecord, Serve
<1>7. ASSUME UNCHANGED dvars PROVE Moves
  BY <1>7 DEF dvars, vars
<1> HIDE DEF Moves
<1>8. Moves
  BY <1>1, <1>2, <1>3, <1>4, <1>5, <1>6, <1>7 DEF DNext
<1> QED
  BY <1>8 DEF Moves

(* What was in the store before a step that applies nothing is there after it. *)
LEMMA InStoreStays ==
    ASSUME LogTyped, Places, FileIsHistory, TypeOK, mode = "up", mode' = "up", [DNext]_dvars,
           ~ \E t \in Tx : ApplyOp(t), NEW r \in Row, NEW p \in LoggedOps(r)
    PROVE  InStore(p)' <=> InStore(p)
<1> DEFINE u == file[p[1]].by
<1>1. /\ u \in Tx /\ pc[u] \notin Unlogged /\ p[1] \in Readable /\ p[2] \in OwnOps(u, r)
  BY RecordIsOf, LoggedOpType
<1>2. file'[p[1]] = file[p[1]]
  BY <1>1, FileGrows
<1> HIDE DEF u
<1>3. p[2] \in Nat /\ p[2] <= Len(ops[u]) /\ Len(ops[u]) \in Nat /\ cur[u] \in Nat
  BY <1>1 DEF OwnOps, TypeOK
<1>4. InStore(p) <=> /\ pc[u] = "apply" => p[2] < cur[u]
                     /\ pc[u] = "index" => p[2] <= cur[u]
  BY DEF InStore, u
<1>5. InStore(p)' <=> /\ pc'[u] = "apply" => p[2] < cur'[u]
                      /\ pc'[u] = "index" => p[2] <= cur'[u]
  BY <1>2 DEF InStore, u
<1>6. \/ pc'[u] = pc[u] /\ cur'[u] = cur[u]
      \/ pc[u] \notin {"apply", "index"} /\ pc'[u] \notin {"apply", "index"}
      \/ pc[u] = "index" /\ pc'[u] = "apply" /\ cur'[u] = cur[u] + 1
      \/ pc[u] = "apply" /\ cur[u] > Len(ops[u]) /\ pc'[u] = "release"
  BY <1>1, CommitMoves
<1> QED
  BY <1>3, <1>4, <1>5, <1>6

(* A record that is appended is not in the store yet, and if its commit
   fails its rows are not clean. *)
LEMMA NothingStoredByAppend ==
    ASSUME LogTyped, Places, FileIsHistory, TypeOK, Starts,
           mode = "up", mode' = "up", [DNext]_dvars, NEW r \in Row, Clean(r)',
           NEW p, p \in LoggedOps(r)', p \notin LoggedOps(r)
    PROVE  ~ InStore(p)'
<1>1. PICK t \in Tx : AppendRecord(t) /\ file' = Append(file, Record(t))
  <2>1. file' # file /\ file' # Append(file, Torn)
    BY LoggedOpsStay
  <2>2. ~ (Crash \/ RedoOp \/ NextRecord \/ Serve \/ UNCHANGED dvars)
    BY <2>1 DEF Crash, Restart, RedoOp, NextRecord, Serve, dvars
  <2>3. \A t \in Tx : ~ (InMemory(t) \/ Acknowledge(t))
    BY <2>1 DEF InMemory, Acknowledge
  <2>4. ASSUME NEW t \in Tx, AppendFails(t) PROVE FALSE
    <3>1. file' = Append(file, Record(t)) /\ pc[t] = "log" /\ status'[t] = "aborted"
      BY <2>1, <2>4, FailureShape DEF LogTyped
    <3>2. Record(t) \in LogRecord /\ Record(t).by = t
      BY <2>4, <3>1, RecordType DEF Record
    <3>3. file'[p[1]] = Record(t)
      BY <3>1, <3>2, LoggedOpsGrow
    <3> QED
      BY <3>1, <3>2, <3>3 DEF Clean, Disowned
  <2> QED
    BY <2>1, <2>2, <2>3, <2>4 DEF DNext, AppendRecord
<1>2. /\ Record(t) \in LogRecord /\ pc'[t] = "apply" /\ cur'[t] = 1
      /\ Record(t).by = t
  BY <1>1, RecordType DEF AppendRecord, LogWrites, Goto, TypeOK, Starts, Record
<1>3. file'[p[1]] = Record(t) /\ p[2] \in DOMAIN Record(t).ops
  BY <1>1, <1>2, LoggedOpsGrow
<1>4. p[2] \in Nat \ {0}
  BY <1>2, <1>3 DEF LogRecord
<1> QED
  BY <1>2, <1>3, <1>4 DEF InStore

LEMMA StoredStays ==
    ASSUME LogTyped, Places, FileIsHistory, TypeOK, Starts,
           mode = "up", mode' = "up", [DNext]_dvars, ~ \E t \in Tx : ApplyOp(t),
           NEW r \in Row, Clean(r)'
    PROVE  /\ Stored(r)' = Stored(r)
           /\ \A p \in Stored(r) : OpAt(p)' = OpAt(p) /\ StampAt(p)' = StampAt(p)
<1>1. \A p \in LoggedOps(r) : /\ p \in LoggedOps(r)'
                              /\ OpAt(p)' = OpAt(p) /\ StampAt(p)' = StampAt(p)
  BY LoggedStays
<1>2. \A p \in LoggedOps(r) : InStore(p)' <=> InStore(p)
  BY InStoreStays
<1>3. \A p : p \in LoggedOps(r)' /\ p \notin LoggedOps(r) => ~ InStore(p)'
  BY NothingStoredByAppend
<1>4. Stored(r)' = Stored(r)
  <2>1. Stored(r)' = {p \in LoggedOps(r)' : InStore(p)'}
    BY DEF Stored
  <2> QED
    BY <1>1, <1>2, <1>3, <2>1 DEF Stored
<1> QED
  BY <1>1, <1>4 DEF Stored

(* The op that comes next on its row, in the order of the log, is applied. *)
LEMMA NextOnRow ==
    ASSUME LogTyped, Typed, RowsInOrder, InsertsFollowDeletes,
           NEW r \in Row, Clean(r), StoreHas(r), NEW q \in LoggedOps(r),
           Stored(r) = {o \in LoggedOps(r) : Before(o, q)},
           Stored(r)' = Stored(r) \cup {q}, file' = file,
           chain'[r] = Apply(chain[r], OpAt(q), StampAt(q))
    PROVE  StoreHas(r)'
<1>1. \A p \in LoggedOps(r) : OpAt(p)' = OpAt(p) /\ StampAt(p)' = StampAt(p)
  BY LoggedOpsStay
<1>2. ASSUME NEW p \in Stored(r) PROVE Before(p, q) /\ StampAt(p) <= StampAt(q)
  <2>1. p \in LoggedOps(r) /\ Before(p, q) /\ StampAt(p) \in Nat /\ StampAt(q) \in Nat
    BY LoggedOpType
  <2>2. CASE p[1] < q[1]
    BY <2>1, <2>2 DEF RowsInOrder
  <2>3. CASE p[1] = q[1]
    BY <2>1, <2>3 DEF StampAt
  <2> QED
    BY <2>1, <2>2, <2>3 DEF Before
<1>3. OpAt(q).kind = "insert" => \A p : IsLast(p, Stored(r)) => OpAt(p).kind = "delete"
  BY DEF InsertsFollowDeletes
<1>4. \A p \in Stored(r) \cup {q} : OpAt(p)' = OpAt(p) /\ StampAt(p)' = StampAt(p)
  BY <1>1 DEF Stored
<1> QED
  BY <1>2, <1>3, <1>4, StoreHasGrows

(* A commit applies its next op: whatever the log has on that row is in the
   store, but for the rest of this transaction's own record. *)
LEMMA ApplyOpStores ==
    ASSUME LogTyped, Places, FileIsHistory, CommittedIsLogged, LoggedDiffer, TornIsTail,
           Typed, WritesAreOwned, StoreHasLog, RowsInOrder, InFlightIsLatest,
           InsertsFollowDeletes, mode = "up", mode' = "up", file' = file,
           NEW t \in Tx, ApplyOp(t)
    PROVE  StoreHasLog'
<1>k. PICK k : k = cur[t]
  OBVIOUS
<1>o. PICK op : op = ops[t][k]
  OBVIOUS
<1>r. PICK r : r = op.row
  OBVIOUS
<1>0. TypeOK
  BY DEF Typed
<1>1. /\ pc[t] = "apply" /\ k \in DOMAIN ops[t] /\ op \in Op /\ r \in Row /\ k \in Nat
      /\ chain' = [chain EXCEPT ![r] = Apply(chain[r], op, cts[t])]
  BY <1>0, <1>k, <1>o, <1>r, CurrentOp DEF ApplyOp, TypeOK
<1>2. /\ \A u \in Tx \ {t} : pc'[u] = pc[u] /\ cur'[u] = cur[u]
      /\ \/ pc'[t] = "index" /\ cur'[t] = k
         \/ pc'[t] = "apply" /\ cur'[t] = k + 1
  BY <1>0, <1>k DEF ApplyOp, Goto, TypeOK
<1>3. PICK i \in Readable : file[i] = Record(t)
  <2>1. ops[t] # <<>>
    BY <1>1
  <2> QED
    BY <1>1, <2>1 DEF CommittedIsLogged, Durable
<1> DEFINE q == <<i, k>>
<1>4. /\ q \in LoggedOps(r) /\ OpAt(q) = op /\ StampAt(q) = cts[t] /\ file[i].by = t
      /\ i \in Nat
  <2>1. file[i].ops = ops[t] /\ file[i].commit_ts = cts[t] /\ file[i].by = t
    BY <1>3 DEF Record
  <2>2. q \in LoggedOps(r)
    BY <1>1, <1>o, <1>r, <2>1, LoggedOpsAre
  <2> QED
    BY <1>o, <2>1, <2>2, ReadableFacts DEF OpAt, StampAt
<1>5. Writes(t, r)
  BY <1>1, <1>o, <1>r DEF Writes, OwnOps
<1>6. ASSUME NEW w \in Row, NEW p \in LoggedOps(w), NEW u, u = file[p[1]].by, u # t
      PROVE  (InStore(p)' <=> InStore(p)) /\ u \in Tx /\ Writes(u, w)
  <2>1. u \in Tx /\ Writes(u, w)
    BY <1>6, RecordIsOf
  <2> QED
    BY <1>2, <1>6, <2>1 DEF InStore
<1>7. ASSUME NEW w \in Row, NEW p \in LoggedOps(w), file[p[1]].by = t
      PROVE  /\ p = <<i, p[2]>> /\ p[1] = i /\ p[2] \in Nat
             /\ InStore(p) <=> p[2] < k
             /\ InStore(p)' <=> p[2] <= k
  <2>1. p = <<p[1], p[2]>> /\ p[1] \in Readable /\ p[2] \in Nat
    BY LoggedOpType
  <2>2. file[p[1]].commit_ts = file[i].commit_ts
    BY <1>4, <1>7, RecordIsOf DEF StampAt
  <2>3. p[1] = i
    BY <2>1, <2>2 DEF LoggedDiffer
  <2>4. InStore(p) <=> p[2] < k
    BY <1>1, <1>k, <1>7 DEF InStore
  <2>5. InStore(p)' <=> p[2] <= k
    BY <1>1, <1>2, <1>7, <2>1 DEF InStore
  <2> QED
    BY <2>1, <2>3, <2>4, <2>5
<1>8. Stored(r) = {o \in LoggedOps(r) : Before(o, q)}
  <2>1. SUFFICES ASSUME NEW o \in LoggedOps(r) PROVE InStore(o) <=> Before(o, q)
    BY DEF Stored
  <2>2. CASE file[o[1]].by = t
    BY <1>1, <1>4, <1>7, <2>2 DEF Before
  <2>3. CASE file[o[1]].by # t
    <3> DEFINE u == file[o[1]].by
    <3>1. u \in Tx /\ Writes(u, r)
      BY <1>1, <1>6, <2>3
    <3>2. pc[u] \notin {"apply", "index"}
      BY <1>1, <1>5, <2>3, <3>1, WritersDiffer DEF Locking
    <3>3. InStore(o)
      BY <3>2 DEF InStore
    <3>4. StampAt(o) < StampAt(q)
      BY <1>1, <1>4, <1>5, <2>3 DEF InFlightIsLatest, InFlight
    <3>5. o[1] \in Nat /\ o[1] # i /\ StampAt(o) \in Nat /\ StampAt(q) \in Nat
      BY <1>1, <1>4, <2>3, LoggedOpType
    <3>6. ~ (i < o[1])
      BY <1>1, <1>4, <3>4, <3>5 DEF RowsInOrder
    <3> QED
      BY <1>4, <3>3, <3>5, <3>6 DEF Before
  <2> QED
    BY <2>2, <2>3
<1>9. \A w \in Row : LoggedOps(w)' = LoggedOps(w)
  BY LoggedOpsStay
<1>c. \A w \in Row : Clean(w)' => Clean(w)
  <2>1. status' = status
    BY DEF ApplyOp
  <2> QED
    BY <2>1, CleanUnchanged
<1>10. ASSUME Clean(r)' PROVE StoreHas(r)'
  <2>1. Stored(r)' = Stored(r) \cup {q}
    <3>1. SUFFICES ASSUME NEW o \in LoggedOps(r) PROVE InStore(o)' <=> InStore(o) \/ o = q
      BY <1>1, <1>4, <1>9 DEF Stored
    <3>2. CASE file[o[1]].by = t
      BY <1>1, <1>4, <1>7, <3>2
    <3>3. CASE file[o[1]].by # t
      BY <1>1, <1>4, <1>6, <3>3
    <3> QED
      BY <3>2, <3>3
  <2>2. chain'[r] = Apply(chain[r], OpAt(q), StampAt(q))
    BY <1>0, <1>1, <1>4 DEF TypeOK
  <2>3. StoreHas(r)
    BY <1>1, <1>c, <1>10 DEF StoreHasLog
  <2> HIDE DEF q
  <2> QED
    BY <1>1, <1>4, <1>8, <1>c, <1>10, <2>1, <2>2, <2>3, NextOnRow
<1>11. ASSUME NEW w \in Row, w # r, Clean(w)' PROVE StoreHas(w)'
  <2>1. chain'[w] = chain[w]
    BY <1>0, <1>1, <1>11 DEF TypeOK
  <2>2. Stored(w)' = Stored(w)
    <3>1. SUFFICES ASSUME NEW o \in LoggedOps(w) PROVE InStore(o)' <=> InStore(o)
      BY <1>9 DEF Stored
    <3>2. CASE file[o[1]].by = t
      <4>1. o[2] # k
        BY <1>4, <1>7, <1>r, <1>11, <3>2, LoggedOpType
      <4> QED
        BY <1>1, <1>7, <3>2, <4>1
    <3>3. CASE file[o[1]].by # t
      BY <1>6, <3>3
    <3> QED
      BY <3>2, <3>3
  <2>3. \A p \in Stored(w) : OpAt(p)' = OpAt(p) /\ StampAt(p)' = StampAt(p)
    BY LoggedOpsStay DEF Stored
  <2> QED
    BY <1>0, <1>c, <1>11, <2>1, <2>2, <2>3, StoreHasStays DEF StoreHasLog
<1> QED
  BY <1>10, <1>11 DEF StoreHasLog

(* Recovery applies the next op of the log: q, with those before it in place. *)
LEMMA RedoneIsNext ==
    ASSUME LogTyped, RedoOp, NEW i, NEW k, i = replayed + 1, k = redone + 1,
           NEW w \in Row, NEW p \in LoggedOps(w)
    PROVE  /\ InStore(p) <=> Before(p, <<i, k>>)
           /\ InStore(p)' <=> Before(p, <<i, k>>) \/ p = <<i, k>>
<1>1. /\ mode = "recovering" /\ mode' = mode /\ replayed' = replayed
      /\ redone' = redone + 1 /\ replayed \in Nat /\ redone \in Nat
  BY DEF RedoOp, LogTyped
<1>2. p = <<p[1], p[2]>> /\ p[1] \in Nat /\ p[2] \in Nat
  BY LoggedOpType
<1>3. InStore(p) <=> p[1] <= replayed \/ (p[1] = i /\ p[2] <= redone)
  BY <1>1 DEF InStore
<1>4. InStore(p)' <=> p[1] <= replayed \/ (p[1] = i /\ p[2] <= k)
  BY <1>1 DEF InStore
<1> QED
  BY <1>1, <1>2, <1>3, <1>4 DEF Before

LEMMA RedoOpStores ==
    ASSUME LogTyped, Typed, StoreHasLog, RowsInOrder, InsertsFollowDeletes, RedoOp
    PROVE  StoreHasLog'
<1>i. PICK i, k : i = replayed + 1 /\ k = redone + 1
  OBVIOUS
<1>o. PICK op : op = file[i].ops[k]
  OBVIOUS
<1>r. PICK r : r = op.row
  OBVIOUS
<1> DEFINE q == <<i, k>>
<1>0. TypeOK
  BY DEF Typed
<1>1. /\ i \in Readable /\ k \in DOMAIN file[i].ops /\ op \in Op /\ r \in Row
      /\ chain' = [chain EXCEPT ![r] = Apply(chain[r], op, file[i].commit_ts)]
  BY <1>i, <1>o, <1>r, RedoneOp
<1>2. /\ mode = "recovering" /\ mode' = mode /\ replayed' = replayed
      /\ redone' = redone + 1 /\ file' = file /\ replayed \in Nat /\ redone \in Nat
  BY DEF RedoOp, LogTyped
<1>3. q \in LoggedOps(r) /\ OpAt(q) = op /\ StampAt(q) = file[i].commit_ts
  BY <1>1, <1>o, <1>r, LoggedOpsAre DEF OpAt, StampAt
<1>4. ASSUME NEW w \in Row, NEW p \in LoggedOps(w)
      PROVE  /\ InStore(p) <=> Before(p, q)
             /\ InStore(p)' <=> Before(p, q) \/ p = q
  BY <1>i, RedoneIsNext
<1>5. \A w \in Row : LoggedOps(w)' = LoggedOps(w)
  BY <1>2, LoggedOpsStay
<1>c. \A w \in Row : Clean(w)' => Clean(w)
  <2>1. status' = status
    BY DEF RedoOp
  <2> QED
    BY <1>2, <2>1, CleanUnchanged
<1>6. ASSUME Clean(r)' PROVE StoreHas(r)'
  <2>1. Stored(r) = {o \in LoggedOps(r) : Before(o, q)} /\ Stored(r)' = Stored(r) \cup {q}
    BY <1>1, <1>3, <1>4, <1>5 DEF Stored
  <2>2. chain'[r] = Apply(chain[r], OpAt(q), StampAt(q))
    BY <1>0, <1>1, <1>3 DEF TypeOK
  <2>3. StoreHas(r)
    BY <1>1, <1>c, <1>6 DEF StoreHasLog
  <2> HIDE DEF q
  <2> QED
    BY <1>1, <1>2, <1>3, <1>c, <1>6, <2>1, <2>2, <2>3, NextOnRow
<1>7. ASSUME NEW w \in Row, w # r, Clean(w)' PROVE StoreHas(w)'
  <2>1. chain'[w] = chain[w]
    BY <1>0, <1>1, <1>7 DEF TypeOK
  <2>2. q \notin LoggedOps(w)
    BY <1>3, <1>r, <1>7, LoggedOpType
  <2>3. Stored(w)' = Stored(w)
    BY <1>4, <1>5, <2>2 DEF Stored
  <2>4. \A p \in Stored(w) : OpAt(p)' = OpAt(p) /\ StampAt(p)' = StampAt(p)
    BY <1>2, LoggedOpsStay DEF Stored
  <2> QED
    BY <1>0, <1>c, <1>7, <2>1, <2>3, <2>4, StoreHasStays DEF StoreHasLog
<1> QED
  BY <1>6, <1>7 DEF StoreHasLog

(* A crash empties the store: recovery starts before the first op. *)
LEMMA CrashStoresNothing ==
    ASSUME LogTyped, Places, ReplayIsPrefix, Crash
    PROVE  StoreHasLog' /\ \A r \in Row : Stored(r)' = {}
<1>1. /\ mode' = "recovering" /\ replayed' = 0 /\ redone' = 0
      /\ chain' = [r \in Row |-> EmptyChain]
  BY DEF Crash, Restart
<1>2. LogTyped'
  BY LogTypedStep DEF DNext
<1>3. ASSUME NEW r \in Row, NEW p, p \in LoggedOps(r)' PROVE ~ InStore(p)'
  <2>1. PICK i \in Readable' : \E k \in DOMAIN file'[i].ops :
            file'[i].ops[k].row = r /\ p = <<i, k>>
    BY <1>3, LoggedOpsAre
  <2>2. PICK k \in DOMAIN file'[i].ops : p = <<i, k>>
    BY <2>1
  <2>3. i \in DOMAIN file' /\ file'[i] # Torn /\ file' \in Seq(LogRecord \cup {Torn})
    BY <1>2 DEF Readable, LogTyped
  <2>4. i \in Nat \ {0} /\ file'[i] \in LogRecord
    BY <2>3
  <2>5. k \in Nat \ {0}
    BY <2>4 DEF LogRecord
  <2> QED
    BY <1>1, <2>2, <2>4, <2>5 DEF InStore
<1>4. ASSUME NEW r \in Row PROVE StoreHas(r)' /\ Stored(r)' = {}
  <2>1. Stored(r)' = {}
    BY <1>3 DEF Stored
  <2>2. chain'[r].versions = {}
    BY <1>1 DEF EmptyChain
  <2> QED
    BY <2>1, <2>2 DEF StoreHas
<1> QED
  BY <1>4 DEF StoreHasLog

(* Between two records, and when it serves, recovery has stored all it read. *)
LEMMA RecoveryMovesOn ==
    ASSUME LogTyped, Places, FileIsHistory, mode = "recovering",
           NextRecord \/ Serve \/ UNCHANGED dvars, NEW r \in Row
    PROVE  /\ Stored(r)' = Stored(r) /\ chain' = chain
           /\ \A p \in Stored(r) : OpAt(p)' = OpAt(p) /\ StampAt(p)' = StampAt(p)
<1>1. file' = file /\ chain' = chain
  BY DEF NextRecord, Serve, dvars, vars, engine
<1>2. ASSUME NEW p \in LoggedOps(r) PROVE InStore(p)' <=> InStore(p)
  <2>0. /\ p[1] \in Readable /\ p[1] \in Nat /\ p[2] \in DOMAIN file[p[1]].ops
        /\ p[2] \in Nat \ {0} /\ file[p[1]] \in LogRecord /\ file[p[1]].by \in Tx
        /\ replayed \in Nat
    BY LoggedOpType DEF LogTyped
  <2>1. CASE NextRecord
    <3>1. /\ redone = Len(file[replayed + 1].ops) /\ replayed' = replayed + 1
          /\ redone' = 0 /\ mode' = mode
      BY <2>1 DEF NextRecord
    <3>2. p[1] = replayed + 1 => p[2] <= redone
      <4>1. file[p[1]].ops \in Seq(Op)
        BY <2>0 DEF LogRecord
      <4> QED
        BY <2>0, <3>1, <4>1
    <3>3. InStore(p) <=> p[1] <= replayed \/ (p[1] = replayed + 1 /\ p[2] <= redone)
      BY DEF InStore
    <3>4. InStore(p)' <=> p[1] <= replayed + 1 \/ (p[1] = replayed + 2 /\ p[2] <= 0)
      BY <1>1, <2>0, <3>1 DEF InStore
    <3> QED
      BY <2>0, <3>2, <3>3, <3>4
  <2>2. CASE Serve
    <3>1. mode' = "up" /\ pc' = pc /\ cur' = cur /\ replayed + 1 \notin Readable
      BY <2>2 DEF Serve
    <3>2. p[1] <= replayed
      BY <2>0, <3>1, AllReplayed
    <3>3. pc[file[p[1]].by] \notin {"apply", "index"}
      BY <2>0 DEF Places
    <3> QED
      BY <1>1, <3>1, <3>2, <3>3 DEF InStore
  <2>3. CASE UNCHANGED dvars
    BY <2>3 DEF InStore, dvars, vars
  <2> QED
    BY <2>1, <2>2, <2>3
<1>3. LoggedOps(r)' = LoggedOps(r)
  BY <1>1, LoggedOpsStay
<1>4. Stored(r)' = Stored(r)
  <2>1. Stored(r)' = {p \in LoggedOps(r)' : InStore(p)'}
    BY DEF Stored
  <2> QED
    BY <1>2, <1>3, <2>1 DEF Stored
<1>5. \A p \in Stored(r) : OpAt(p)' = OpAt(p) /\ StampAt(p)' = StampAt(p)
  BY <1>1, LoggedOpsStay DEF Stored
<1> QED
  BY <1>1, <1>4, <1>5

LEMMA StoreHasLogStep ==
    ASSUME LogTyped, Places, FileIsHistory, CommittedIsLogged, ReplayIsPrefix,
           LoggedDiffer, TornIsTail, EngineInv, StoreHasLog, RowsInOrder,
           InFlightIsLatest, InsertsFollowDeletes, [DNext]_dvars
    PROVE  StoreHasLog'
<1>0. /\ Typed /\ TypeOK /\ Starts /\ WritesAreOwned
      /\ mode \in {"up", "recovering"} /\ mode' \in {"up", "recovering"}
  BY LogTypedStep DEF EngineInv, Typed, LogTyped
<1>1. CASE Crash
  BY <1>1, CrashStoresNothing
<1>2. CASE RedoOp
  BY <1>0, <1>2, RedoOpStores
<1>3. CASE mode = "recovering" /\ (NextRecord \/ Serve \/ UNCHANGED dvars)
  <2>1. ASSUME NEW r \in Row, Clean(r)' PROVE StoreHas(r)'
    <3>1. StoreHas(r)
      BY <2>1, CleanStays DEF StoreHasLog
    <3> QED
      BY <1>0, <1>3, <3>1, RecoveryMovesOn, StoreHasStays
  <2> QED
    BY <2>1 DEF StoreHasLog
<1>4. ASSUME mode = "up", mode' = "up", NEW t \in Tx, ApplyOp(t) PROVE StoreHasLog'
  <2>1. file' = file
    <3>1. \A u \in Tx : pc[u] = "log" => pc'[u] = "log"
      BY <1>0, <1>4 DEF ApplyOp, Goto, TypeOK
    <3>2. \A u \in Tx : ~ (AppendRecord(u) \/ AppendFails(u))
      BY <1>0, <3>1 DEF AppendRecord, AppendFails, LogWrites, LogFails, Goto, TypeOK
    <3> QED
      BY <1>4, <3>2 DEF DNext, InMemory, Acknowledge, Crash, Restart, RedoOp, NextRecord, Serve,
         dvars
  <2> QED
    BY <1>0, <1>4, <2>1, ApplyOpStores
<1>5. ASSUME mode = "up", mode' = "up", ~ \E t \in Tx : ApplyOp(t) PROVE StoreHasLog'
  <2>1. ASSUME NEW r \in Row, Clean(r)' PROVE StoreHas(r)'
    <3>1. Stored(r)' = Stored(r)
      BY <1>0, <1>5, <2>1, StoredStays
    <3>2. \A p \in Stored(r) : OpAt(p)' = OpAt(p) /\ StampAt(p)' = StampAt(p)
      BY <1>0, <1>5, <2>1, StoredStays
    <3>c. Clean(r)
      BY <2>1, CleanStays
    <3>3. chain'[r] = chain[r] \/ \E h \in Ts : chain'[r] = Prune(chain[r], h)
      BY <1>0, <1>5, ChainStep, SweepPrunes
    <3> QED
      BY <1>0, <3>1, <3>2, <3>3, <3>c, StoreHasStays DEF StoreHasLog
  <2> QED
    BY <2>1 DEF StoreHasLog
<1>6. CASE mode = "up" /\ mode' = "up"
  BY <1>4, <1>5, <1>6
<1>7. CASE ~ (mode = "up" /\ mode' = "up")
  <2>1. CASE mode = "up"
    <3>1. mode' # mode
      BY <1>0, <1>7, <2>1
    <3> QED
      BY <1>1, <2>1, <3>1
      DEF DNext, InMemory, AppendRecord, AppendFails, Acknowledge, RedoOp, NextRecord, Serve, dvars
  <2>2. CASE mode = "recovering"
    BY <1>1, <1>2, <1>3, <2>2 DEF DNext
  <2> QED
    BY <1>0, <2>1, <2>2
<1> QED
  BY <1>6, <1>7

LEMMA StoreInvStep ==
    ASSUME UniqueKeys, LogInv, EngineInv, StoreInv, [DNext]_dvars
    PROVE  StoreInv'
<1> SUFFICES ASSUME TornIsTail'
             PROVE  /\ StoreHasLog' /\ RowsInOrder' /\ InFlightIsLatest'
                    /\ InsertsFollowDeletes' /\ PendingInserts'
  BY DEF StoreInv
<1>1. LogTyped /\ Places /\ FileIsHistory /\ CommittedIsLogged /\ ReplayIsPrefix
  BY DEF LogInv
<1>2. TornIsTail
  BY <1>1, FileGrows
<1>3. /\ ClockIsPast /\ LoggedDiffer /\ Typed /\ WritesAreOwned
      /\ StoreHasLog /\ RowsInOrder /\ InFlightIsLatest
      /\ InsertsFollowDeletes /\ PendingInserts
  BY <1>2 DEF LogInv, Stamps, StoreInv, EngineInv
<1>4. StoreHasLog'
  BY <1>1, <1>2, <1>3, StoreHasLogStep
<1>5. RowsInOrder'
  BY <1>1, <1>3, RowsInOrderStep
<1>6. InFlightIsLatest'
  BY <1>1, <1>3, InFlightIsLatestStep
<1>7. InsertsFollowDeletes'
  BY <1>1, <1>3, InsertsFollowDeletesStep
<1>8. PendingInserts'
  BY <1>1, <1>3, PendingInsertsStep
<1> QED
  BY <1>4, <1>5, <1>6, <1>7, <1>8

(* The value that the log gives a row is that of the last op on it. *)
LEMMA LoggedValueIsLast ==
    ASSUME LogTyped, RowsInOrder, NEW r \in Row, NEW p, IsLast(p, LoggedOps(r))
    PROVE  LoggedValue(r) = OpAt(p).data
<1> DEFINE Latest(o) == \A q \in LoggedOps(r) :
                            \/ file[q[1]].commit_ts < file[o[1]].commit_ts
                            \/ q[1] = o[1] /\ q[2] <= o[2]
           last == CHOOSE o \in LoggedOps(r) : Latest(o)
<1>1. p \in LoggedOps(r) /\ LoggedOps(r) # {}
  BY DEF IsLast
<1>2. Latest(p)
  <2>1. SUFFICES ASSUME NEW q \in LoggedOps(r)
                 PROVE  \/ file[q[1]].commit_ts < file[p[1]].commit_ts
                        \/ q[1] = p[1] /\ q[2] <= p[2]
    OBVIOUS
  <2>2. q[2] \in Nat /\ p[2] \in Nat
    BY <1>1, LoggedOpType
  <2>3. q = p \/ Before(q, p)
    BY DEF IsLast
  <2> QED
    BY <1>1, <2>2, <2>3 DEF Before, RowsInOrder, StampAt
<1>3. last \in LoggedOps(r) /\ Latest(last)
  BY <1>1, <1>2
<1>4. LoggedValue(r) = file[last[1]].ops[last[2]].data
  BY <1>1 DEF LoggedValue
<1> HIDE DEF last
<1>5. last = p
  <2>1. /\ p = <<p[1], p[2]>> /\ p[2] \in Nat /\ StampAt(p) \in Nat
        /\ last = <<last[1], last[2]>> /\ last[2] \in Nat /\ StampAt(last) \in Nat
    BY <1>1, <1>3, LoggedOpType
  <2>2. StampAt(last) < StampAt(p) \/ (last[1] = p[1] /\ last[2] <= p[2])
    BY <1>2, <1>3 DEF StampAt
  <2>3. StampAt(p) < StampAt(last) \/ (p[1] = last[1] /\ p[2] <= last[2])
    BY <1>1, <1>3 DEF StampAt
  <2>4. last[1] = p[1] /\ last[2] = p[2]
    BY <2>1, <2>2, <2>3 DEF StampAt
  <2> QED
    BY <2>1, <2>4
<1> QED
  BY <1>4, <1>5 DEF OpAt

LEMMA StoreShowsLog ==
    ASSUME LogInv, EngineInv, StoreInv
    PROVE  StoreMatchesLog
<1> SUFFICES ASSUME mode = "up", TornIsTail, NEW r \in Row, Clean(r),
                    \A u \in InFlight : ~ Writes(u, r)
             PROVE  Read(chain[r], clock) = LoggedValue(r)
  BY DEF StoreMatchesLog
<1>1. /\ LogTyped /\ FileIsHistory /\ ClockIsPast /\ StoreHas(r) /\ RowsInOrder
      /\ clock \in Ts
  BY DEF LogInv, Stamps, StoreInv, StoreHasLog, LogTyped
<1>2. Stored(r) = LoggedOps(r)
  BY <1>1, AllStored DEF InFlight
<1>3. CASE Stored(r) = {} /\ chain[r].versions = {}
  <2>1. LoggedValue(r) = NoRow
    BY <1>2, <1>3 DEF LoggedValue
  <2> QED
    BY <1>3, <2>1 DEF Read, Visible
<1>4. ASSUME NEW p \in Stored(r), IsLast(p, Stored(r)),
             Shows(chain[r], StampAt(p), OpAt(p).data)
      PROVE  Read(chain[r], clock) = LoggedValue(r)
  <2>1. LoggedValue(r) = OpAt(p).data
    BY <1>1, <1>2, <1>4, LoggedValueIsLast
  <2>2. StampAt(p) <= clock
    BY <1>1, <1>2, LoggedOpType DEF ClockIsPast, StampAt
  <2> QED
    BY <1>1, <1>4, <2>1, <2>2 DEF Shows
<1> QED
  BY <1>1, <1>3, <1>4 DEF StoreHas

(* recovery.rs and apply_write_set: in the life of the process and after any
   number of crashes, in the commits as well as in the replay, a row nobody
   is committing to reads, at the commit clock, what the readable log says of
   it, provided clients insert only keys without a live row (the engine does
   not check).  No fault is left out: the rows of a record that failed its
   sync are excepted one by one, and stay so. *)
THEOREM StoreSurvives == UniqueKeys => (DSpec => []StoreMatchesLog)
<1> SUFFICES ASSUME UniqueKeys PROVE DSpec => []StoreMatchesLog
  OBVIOUS
<1>1. DInit => EngineInv /\ StoreInv
  <2> SUFFICES ASSUME DInit PROVE EngineInv /\ StoreInv
    OBVIOUS
  <2>1. Typed /\ SnapshotsArePast
    BY InitTyped DEF DInit
  <2>2. /\ mode = "up" /\ file = <<>> /\ clock = 0
        /\ ops = [t \in Tx |-> <<>>] /\ cur = [t \in Tx |-> 1]
        /\ pc = [t \in Tx |-> "new"] /\ chain = [r \in Row |-> EmptyChain]
    BY DEF DInit, Init
  <2>3. Starts /\ WritesAreOwned /\ ClockStartsOver
    BY <2>2 DEF Starts, WritesAreOwned, Locking, ClockStartsOver
  <2>4. \A r : LoggedOps(r) = {} /\ Stored(r) = {}
    <3>1. Readable = {}
      BY <2>2 DEF Readable
    <3> QED
      BY <3>1 DEF LoggedOps, Stored
  <2>5. StoreHasLog
    BY <2>2, <2>4 DEF StoreHasLog, StoreHas, EmptyChain
  <2>6. RowsInOrder /\ InFlightIsLatest /\ InsertsFollowDeletes /\ PendingInserts
    BY <2>2, <2>4 DEF RowsInOrder, InFlightIsLatest, InFlight, InsertsFollowDeletes, PendingInserts
  <2> QED
    BY <2>1, <2>3, <2>5, <2>6 DEF EngineInv, StoreInv
<1>2. LogInv /\ EngineInv /\ StoreInv /\ [DNext]_dvars => (EngineInv /\ StoreInv)'
  BY EngineInvStep, StoreInvStep DEF LogInv
<1>3. LogInv /\ EngineInv /\ StoreInv => StoreMatchesLog
  BY StoreShowsLog
<1> QED
  BY <1>1, <1>2, <1>3, LogInvariant, PTL DEF DSpec

------------------------------------------------------------------------------
(* Where versions come from: a commit that is past its append and has not
   failed, or an op that this start of the process has read in the log. *)
Replayed(p) ==
    \/ p[1] <= replayed
    \/ mode = "recovering" /\ p[1] = replayed + 1 /\ p[2] <= redone
WrittenBy(t, r) == pc[t] \notin Unlogged /\ status[t] # "aborted" /\ Writes(t, r)
VersionsHaveSources ==
    \A r \in Row : chain[r].versions # {} =>
        \/ \E t \in Tx : WrittenBy(t, r)
        \/ \E p \in LoggedOps(r) : Replayed(p)

LEMMA WrittenStays ==
    ASSUME LogTyped, Places, [DNext]_dvars, NEW t \in Tx, NEW r \in Row, WrittenBy(t, r)
    PROVE  WrittenBy(t, r)'
<1> USE DEF Undecided, Unlogged
<1>1. pc'[t] \notin Unlogged /\ ops'[t] = ops[t]
  BY StepShape DEF RecordsStay, WrittenBy
<1>2. ASSUME NEW u \in Tx, InMemory(u) PROVE status'[t] # "aborted"
  <2>1. CASE u = t
    BY <1>2, <2>1, InMemoryShape DEF Prepares, TakesStamp, GivesUp, Proceeds, WrittenBy, LogTyped
  <2> QED
    BY <1>2, <2>1, InMemoryShape DEF WrittenBy
<1>3. ASSUME NEW u \in Tx, AppendFails(u) PROVE status'[t] # "aborted"
  BY <1>3, FailureShape DEF LogTyped, WrittenBy
<1>4. ASSUME NEW u \in Tx, AppendRecord(u) \/ Acknowledge(u) PROVE status'[t] # "aborted"
  BY <1>4 DEF AppendRecord, LogWrites, Acknowledge, CommitReturns, engine, WrittenBy
<1>5. ASSUME Crash \/ RedoOp \/ NextRecord \/ Serve \/ UNCHANGED dvars
      PROVE  status'[t] # "aborted"
  <2>1. status' = status
    BY <1>5 DEF Crash, Restart, RedoOp, NextRecord, Serve, dvars, vars, engine
  <2> QED
    BY <2>1 DEF WrittenBy
<1>6. status'[t] # "aborted"
  BY <1>2, <1>3, <1>4, <1>5 DEF DNext
<1>7. Writes(t, r)'
  BY <1>1 DEF WrittenBy, Writes, OwnOps
<1> QED
  BY <1>1, <1>6, <1>7 DEF WrittenBy

(* Only a crash forgets what has been replayed, and it empties the store. *)
LEMMA ReplayedStays ==
    ASSUME LogTyped, Places, [DNext]_dvars, ~ Crash, NEW r \in Row,
           NEW p \in LoggedOps(r), Replayed(p)
    PROVE  p \in LoggedOps(r)' /\ Replayed(p)'
<1>1. p \in LoggedOps(r)' /\ p[1] \in Nat /\ p[1] \in Readable /\ p[2] \in Nat
  BY LoggedStays, LoggedOpType
<1>2. CASE UNCHANGED <<mode, replayed, redone>>
  BY <1>1, <1>2 DEF Replayed
<1>3. CASE RedoOp
  BY <1>1, <1>3 DEF RedoOp, Replayed, LogTyped
<1>4. CASE NextRecord
  BY <1>1, <1>4 DEF NextRecord, Replayed, LogTyped
<1>5. CASE Serve
  BY <1>1, <1>5 DEF Serve, Replayed
<1> QED
  BY <1>2, <1>3, <1>4, <1>5
  DEF DNext, InMemory, AppendRecord, AppendFails, Acknowledge, dvars

LEMMA VersionsHaveSourcesStep ==
    ASSUME LogTyped, Places, TypeOK, VersionsHaveSources, [DNext]_dvars
    PROVE  VersionsHaveSources'
<1>1. CASE Crash
  BY <1>1 DEF Crash, Restart, VersionsHaveSources, EmptyChain
<1> SUFFICES ASSUME ~ Crash, NEW r \in Row, chain'[r].versions # {}
             PROVE  \/ \E t \in Tx : WrittenBy(t, r)'
                    \/ \E p \in LoggedOps(r)' : Replayed(p)'
  BY <1>1 DEF VersionsHaveSources
<1>2. CASE chain[r].versions # {}
  BY <1>2, WrittenStays, ReplayedStays DEF VersionsHaveSources
<1>3. ASSUME NEW t \in Tx, ApplyOp(t), chain[r].versions = {}
      PROVE  WrittenBy(t, r)'
  <2>1. /\ pc[t] = "apply" /\ status[t] = "active"
        /\ cur[t] \in DOMAIN ops[t] /\ ops[t][cur[t]].row = r
    BY <1>3 DEF ApplyOp, Places, TypeOK
  <2>2. WrittenBy(t, r)
    BY <2>1 DEF WrittenBy, Writes, OwnOps, Unlogged, Undecided
  <2> QED
    BY <2>2, WrittenStays
<1>4. CASE RedoOp /\ chain[r].versions = {}
  <2> DEFINE op == file[replayed + 1].ops[redone + 1]
  <2>1. /\ replayed + 1 \in Readable /\ redone + 1 \in DOMAIN file[replayed + 1].ops
        /\ op.row = r
    BY <1>4, RedoneOp DEF TypeOK
  <2>2. <<replayed + 1, redone + 1>> \in LoggedOps(r)
    BY <2>1, LoggedOpsAre
  <2>3. <<replayed + 1, redone + 1>> \in LoggedOps(r)'
    BY <2>2, LoggedStays
  <2>4. PICK p : p = <<replayed + 1, redone + 1>>
    OBVIOUS
  <2>5. p[1] = replayed + 1 /\ p[2] = redone + 1 /\ p \in LoggedOps(r)'
    BY <2>3, <2>4
  <2>6. mode' = "recovering" /\ replayed' = replayed /\ redone' = redone + 1
    BY <1>4 DEF RedoOp
  <2>7. p[1] = replayed' + 1 /\ p[2] <= redone'
    BY <2>5, <2>6 DEF LogTyped
  <2>8. Replayed(p)'
    BY <2>6, <2>7 DEF Replayed
  <2> QED
    BY <2>5, <2>8
<1>5. ASSUME chain[r].versions = {}, ~ RedoOp, ~ \E t \in Tx : ApplyOp(t) PROVE FALSE
  <2>1. CASE mode' = "up"
    <3>1. chain'[r] = chain[r] \/ \E h \in Ts : chain'[r] = Prune(chain[r], h)
      BY <1>5, <2>1, ChainStep, SweepPrunes
    <3> QED
      BY <1>5, <3>1 DEF Prune, TypeOK, VersionChain
  <2>2. CASE mode' # "up"
    <3>1. chain' = chain
      BY <1>5, <2>2 DEF DNext, InMemory, AppendRecord, AppendFails, Acknowledge, NextRecord,
         Serve, dvars, vars, engine
    <3> QED
      BY <1>5, <3>1
  <2> QED
    BY <2>1, <2>2
<1> QED
  BY <1>2, <1>3, <1>4, <1>5

(* wal.rs, "An error here means the write is NOT durable": whatever crashes
   and failed appends happen, a row written by nobody but commits that
   returned an error is not in the store, with the one exception the code
   makes: the process has read one of their records in the log when it
   started, that of a failed sync.  An abort drops its write set, a failed
   append applies nothing, and a restart has nothing but the log. *)
THEOREM FailuresStayFailed == DSpec => []FailedStaysFailed
<1>1. DInit => EngineInv /\ VersionsHaveSources
  <2> SUFFICES ASSUME DInit PROVE EngineInv /\ VersionsHaveSources
    OBVIOUS
  <2>1. Typed /\ SnapshotsArePast
    BY InitTyped DEF DInit
  <2>2. /\ mode = "up" /\ clock = 0
        /\ pc = [t \in Tx |-> "new"] /\ ops = [t \in Tx |-> <<>>]
        /\ cur = [t \in Tx |-> 1] /\ chain = [r \in Row |-> EmptyChain]
    BY DEF DInit, Init
  <2>3. Starts /\ WritesAreOwned /\ ClockStartsOver
    BY <2>2 DEF Starts, WritesAreOwned, Locking, ClockStartsOver
  <2> QED
    BY <2>1, <2>2, <2>3 DEF EngineInv, VersionsHaveSources, EmptyChain
<1>2. LogInv /\ EngineInv /\ VersionsHaveSources /\ [DNext]_dvars
          => (EngineInv /\ VersionsHaveSources)'
  BY EngineInvStep, VersionsHaveSourcesStep DEF LogInv, EngineInv, Typed
<1>3. LogInv /\ VersionsHaveSources => FailedStaysFailed
  <2> SUFFICES ASSUME LogInv, VersionsHaveSources, mode = "up", NEW r \in Row,
                      \A t \in Tx : Writes(t, r) => status[t] = "aborted",
                      Read(chain[r], clock) # NoRow
               PROVE  \E p \in LoggedOps(r) : p[1] <= replayed /\ Disowned(p[1])
    BY DEF FailedStaysFailed
  <2>1. chain[r].versions # {}
    BY DEF Read, Visible
  <2>2. PICK p \in LoggedOps(r) : Replayed(p)
    BY <2>1 DEF VersionsHaveSources, WrittenBy
  <2>3. /\ p[1] \in DOMAIN file /\ file[p[1]] # Torn
        /\ p[2] \in DOMAIN file[p[1]].ops /\ OpAt(p).row = r
    BY LoggedOpType DEF LogInv
  <2>4. PICK u \in Tx : file[p[1]] = Record(u)
    BY <2>3 DEF LogInv, FileIsHistory
  <2>5. file[p[1]].by = u /\ Writes(u, r)
    BY <2>3, <2>4 DEF Record, OpAt, Writes, OwnOps
  <2> QED
    BY <2>2, <2>5 DEF Replayed, Disowned
<1> QED
  BY <1>1, <1>2, <1>3, LogInvariant, PTL DEF DSpec

------------------------------------------------------------------------------
(* The index and the log: an UPDATE is in the log behind an INSERT of its
   row, ... *)
UpdatesFollowInLog ==
    \A r \in Row : \A q \in LoggedOps(r) : OpAt(q).kind = "update" =>
        \E p \in LoggedOps(r) : Before(p, q) /\ OpAt(p).kind = "insert"

(* ... what is indexed was inserted, and that is in the log, ... *)
IndexedIsLogged ==
    TornIsTail => \A r \in pkIndex : \E p \in LoggedOps(r) : OpAt(p).kind = "insert"

(* ... and recovery has indexed the INSERTs it has come to. *)
RecoveredIsIndexed ==
    mode = "recovering" =>
        \A r \in Row : \A p \in Stored(r) : OpAt(p).kind = "insert" => r \in pkIndex

IndexInv ==
    /\ UpdatesFollowInLog /\ IndexedIsLogged /\ RecoveredIsIndexed
    /\ InsertedIsIndexed /\ UpdatesFollowInserts /\ PkIndexComplete

LEMMA UpdatesFollowInLogStep ==
    ASSUME LogTyped, Places, TypeOK, UpdatesFollowInLog, IndexedIsLogged,
           UpdatesFollowInserts, [DNext]_dvars
    PROVE  UpdatesFollowInLog'
<1>1. CASE file' = file \/ file' = Append(file, Torn)
  <2> SUFFICES ASSUME NEW r \in Row, NEW q \in LoggedOps(r), OpAt(q).kind = "update"
               PROVE  \E p \in LoggedOps(r) : Before(p, q) /\ OpAt(p)'.kind = "insert"
    BY <1>1, LoggedOpsStay DEF UpdatesFollowInLog
  <2> QED
    BY <1>1, LoggedOpsStay DEF UpdatesFollowInLog
<1>2. ASSUME NEW t \in Tx, Appends(t) PROVE UpdatesFollowInLog'
  <2>1. /\ pc[t] = "log" /\ file' = Append(file, Record(t)) /\ Record(t).ops = ops[t]
        /\ Record(t) \in LogRecord /\ Record(t) # Torn /\ Record(t).ops = ops[t]
    BY <1>2, RecordType DEF Appends, Record
  <2> SUFFICES ASSUME NEW r \in Row, NEW q, q \in LoggedOps(r)', OpAt(q)'.kind = "update"
               PROVE  \E p : /\ p \in LoggedOps(r)' /\ Before(p, q)
                             /\ OpAt(p)'.kind = "insert"
    BY DEF UpdatesFollowInLog, Before
  <2>2. CASE q \in LoggedOps(r)
    <3>1. OpAt(q)' = OpAt(q)
      BY <2>1, <2>2, LoggedOpsGrow
    <3>2. PICK p \in LoggedOps(r) : Before(p, q) /\ OpAt(p).kind = "insert"
      BY <2>2, <3>1 DEF UpdatesFollowInLog
    <3> QED
      BY <2>1, <3>2, LoggedOpsGrow
  <2>3. CASE q \notin LoggedOps(r)
    <3>1. /\ q[1] = Len(file) + 1 /\ q[2] \in DOMAIN ops[t]
          /\ ops[t][q[2]].row = r /\ ops[t][q[2]].kind = "update"
      BY <2>1, <2>3, LoggedOpsGrow
    <3>2. /\ Len(file) + 1 \in Readable'
          /\ file'[Len(file) + 1] = Record(t) /\ Len(file) \in Nat
      <4>1. PICK i \in Readable' : q[1] = i
        BY LoggedOpsAre
      <4> QED
        BY <2>1, <3>1, <4>1, AppendGrows DEF LogTyped
    <3>3. CASE r \in pkIndex
      <4>1. TornIsTail
        <5>1. \A j \in DOMAIN file : j \in 1 .. Len(file) + 1 /\ file'[j] = file[j]
          BY <2>1, AppendGrows DEF LogTyped
        <5>2. \A j \in 1 .. Len(file) + 1 : file'[j] # Torn
          BY <3>2 DEF Readable
        <5> QED
          BY <5>1, <5>2 DEF TornIsTail
      <4>2. PICK p \in LoggedOps(r) : OpAt(p).kind = "insert"
        BY <3>3, <4>1 DEF IndexedIsLogged
      <4>3. p[1] \in Nat /\ p[1] <= Len(file)
        BY <2>1, <4>2, LoggedOpsGrow, LoggedOpType
      <4>4. Before(p, q)
        BY <3>1, <3>2, <4>3 DEF Before
      <4> QED
        BY <2>1, <4>2, <4>4, LoggedOpsGrow
    <3>4. CASE r \notin pkIndex
      <4>1. PICK j \in DOMAIN ops[t] : j < q[2] /\ ops[t][j].kind = "insert"
                                      /\ ops[t][j].row = r
        BY <2>1, <3>1, <3>4 DEF UpdatesFollowInserts, Locking
      <4>2. PICK p : p = <<Len(file) + 1, j>>
        OBVIOUS
      <4>3. p \in LoggedOps(r)'
        BY <2>1, <3>2, <4>1, <4>2, LoggedOpsAre
      <4>4. Before(p, q)
        BY <3>1, <4>1, <4>2 DEF Before
      <4>5. OpAt(p)' = ops[t][j]
        BY <2>1, <3>2, <4>2 DEF OpAt
      <4> QED
        BY <4>1, <4>3, <4>4, <4>5
    <3> QED
      BY <3>3, <3>4
  <2> QED
    BY <2>2, <2>3
<1> QED
  BY <1>1, <1>2, StepShape DEF FileStep

(* Who adds to the index: the second half of apply_insert, and recovery. *)
LEMMA IndexGrows ==
    ASSUME [DNext]_dvars
    PROVE  \/ pkIndex' = pkIndex
           \/ pkIndex' = {}
           \/ \E t \in Tx : mode = "up" /\ IndexInsert(t)
           \/ RedoOp
<1>1. ASSUME NEW t \in Tx, InMemory(t), ~ IndexInsert(t) PROVE pkIndex' = pkIndex
  BY <1>1 DEF InMemory, Begin, BeginLoad, BeginRegister, Commit, Abort, Write, LockRow,
     ApplyOp, Applied, Release, Unsnap, ComputeHorizon, Sweep, SkipSweep, engine
<1>2. ASSUME NEW t \in Tx, AppendRecord(t) \/ AppendFails(t) \/ Acknowledge(t)
      PROVE  pkIndex' = pkIndex
  BY <1>2 DEF AppendRecord, AppendFails, Acknowledge, LogWrites, LogFails, CommitReturns, engine
<1>3. CASE Crash \/ NextRecord \/ Serve \/ UNCHANGED dvars
  BY <1>3 DEF Crash, Restart, NextRecord, Serve, dvars, vars, engine
<1> QED
  BY <1>1, <1>2, <1>3 DEF DNext

LEMMA IndexedIsLoggedStep ==
    ASSUME LogTyped, Places, CommittedIsLogged, Typed, Starts, IndexedIsLogged,
           [DNext]_dvars
    PROVE  IndexedIsLogged'
<1>0. TypeOK /\ IndexPending
  BY DEF Typed
<1> SUFFICES ASSUME TornIsTail', NEW r \in pkIndex'
             PROVE  \E p : p \in LoggedOps(r)' /\ OpAt(p)'.kind = "insert"
  BY DEF IndexedIsLogged
<1>1. TornIsTail
  BY FileGrows
<1>2. ASSUME NEW w \in Row, NEW p \in LoggedOps(w), OpAt(p).kind = "insert", r = w
      PROVE  \E o : o \in LoggedOps(r)' /\ OpAt(o)'.kind = "insert"
  BY <1>2, LoggedStays
<1>3. CASE r \in pkIndex
  <2>1. r \in Row
    BY <1>0, <1>3 DEF TypeOK
  <2>2. PICK p \in LoggedOps(r) : OpAt(p).kind = "insert"
    BY <1>1, <1>3 DEF IndexedIsLogged
  <2> QED
    BY <1>2, <2>1, <2>2
<1>4. ASSUME NEW t \in Tx, IndexInsert(t), r \notin pkIndex
      PROVE  \E p : p \in LoggedOps(r)' /\ OpAt(p)'.kind = "insert"
  <2>1. /\ pc[t] = "index" /\ r = ops[t][cur[t]].row /\ ops[t][cur[t]].kind = "insert"
    BY <1>4 DEF IndexInsert, Starts
  <2>2. cur[t] \in DOMAIN ops[t] /\ r \in Row
    BY <1>0, <2>1, CurrentOp DEF IndexPending
  <2>3. Durable(t) /\ ops[t] # <<>>
    <3>1. ops[t] \in Seq(Op)
      BY <1>0 DEF TypeOK
    <3> QED
      BY <1>1, <2>1, <2>2, <3>1 DEF CommittedIsLogged
  <2>4. PICK i \in Readable : file[i] = Record(t)
    BY <2>3 DEF Durable
  <2>5. <<i, cur[t]>> \in LoggedOps(r) /\ OpAt(<<i, cur[t]>>).kind = "insert"
    BY <2>1, <2>2, <2>4, LoggedOpsAre DEF Record, OpAt
  <2> QED
    BY <1>2, <2>2, <2>5
<1>5. ASSUME RedoOp, r \notin pkIndex
      PROVE  \E p : p \in LoggedOps(r)' /\ OpAt(p)'.kind = "insert"
  <2>i. PICK i, k : i = replayed + 1 /\ k = redone + 1
    OBVIOUS
  <2>o. PICK op : op = file[i].ops[k]
    OBVIOUS
  <2>1. /\ i \in Readable /\ k \in DOMAIN file[i].ops /\ op.row \in Row
        /\ pkIndex' = IF op.kind = "insert" THEN pkIndex \cup {op.row} ELSE pkIndex
    BY <1>5, <2>i, <2>o, RedoneOp
  <2>2. op.kind = "insert" /\ r = op.row
    BY <1>5, <2>1
  <2>3. <<i, k>> \in LoggedOps(r) /\ OpAt(<<i, k>>).kind = "insert"
    BY <2>o, <2>1, <2>2, LoggedOpsAre DEF OpAt
  <2> QED
    BY <1>2, <2>1, <2>2, <2>3
<1> QED
  BY <1>3, <1>4, <1>5, IndexGrows

LEMMA RecoveredIsIndexedStep ==
    ASSUME LogTyped, Places, FileIsHistory, ReplayIsPrefix, RecoveredIsIndexed,
           [DNext]_dvars
    PROVE  RecoveredIsIndexed'
<1> SUFFICES ASSUME mode' = "recovering", NEW r \in Row, NEW p, p \in Stored(r)',
                    OpAt(p)'.kind = "insert"
             PROVE  r \in pkIndex'
  BY DEF RecoveredIsIndexed
<1>1. ~ Crash
  BY CrashStoresNothing
<1>2. mode = "recovering"
  BY <1>1 DEF DNext, InMemory, AppendRecord, AppendFails, Acknowledge, RedoOp, NextRecord,
     Serve, dvars
<1>3. CASE NextRecord \/ Serve \/ UNCHANGED dvars
  <2>1. p \in Stored(r) /\ OpAt(p).kind = "insert"
    BY <1>2, <1>3, RecoveryMovesOn
  <2>2. pkIndex' = pkIndex
    BY <1>3 DEF NextRecord, Serve, dvars, vars, engine
  <2> QED
    BY <1>2, <2>1, <2>2 DEF RecoveredIsIndexed
<1>4. CASE RedoOp
  <2>i. PICK i, k : i = replayed + 1 /\ k = redone + 1
    OBVIOUS
  <2>o. PICK op : op = file[i].ops[k]
    OBVIOUS
  <2>1. /\ i \in Readable /\ k \in DOMAIN file[i].ops /\ op.row \in Row
        /\ pkIndex' = IF op.kind = "insert" THEN pkIndex \cup {op.row} ELSE pkIndex
    BY <1>4, <2>i, <2>o, RedoneOp
  <2>2. file' = file
    BY <1>4 DEF RedoOp
  <2>3. p \in LoggedOps(r) /\ InStore(p)' /\ OpAt(p).kind = "insert"
    <3>1. p \in LoggedOps(r)' /\ InStore(p)'
      BY DEF Stored
    <3> QED
      BY <2>2, <3>1, LoggedOpsStay
  <2>4. InStore(p) \/ p = <<i, k>>
    BY <1>4, <2>i, <2>3, RedoneIsNext
  <2>5. CASE InStore(p)
    BY <1>2, <2>1, <2>3, <2>5 DEF RecoveredIsIndexed, Stored
  <2>6. CASE p = <<i, k>>
    <3>1. op.kind = "insert" /\ op.row = r
      BY <2>o, <2>3, <2>6, LoggedOpType DEF OpAt
    <3> QED
      BY <2>1, <3>1
  <2> QED
    BY <2>4, <2>5, <2>6
<1> QED
  BY <1>1, <1>2, <1>3, <1>4 DEF DNext

(* Recovery applies an op: an UPDATE finds its row indexed, a DELETE finds
   the versions it expires. *)
LEMMA RedoOpIndexes ==
    ASSUME LogTyped, Places, Typed, UpdatesFollowInLog, RecoveredIsIndexed,
           PkIndexComplete, RedoOp
    PROVE  PkIndexComplete'
<1>i. PICK i, k : i = replayed + 1 /\ k = redone + 1
  OBVIOUS
<1>o. PICK op : op = file[i].ops[k]
  OBVIOUS
<1>r. PICK r : r = op.row
  OBVIOUS
<1> DEFINE q == <<i, k>>
<1>1. /\ i \in Readable /\ k \in DOMAIN file[i].ops /\ op \in Op /\ r \in Row
      /\ file[i].commit_ts \in Ts
      /\ chain' = [chain EXCEPT ![r] = Apply(chain[r], op, file[i].commit_ts)]
      /\ pkIndex' = IF op.kind = "insert" THEN pkIndex \cup {r} ELSE pkIndex
  BY <1>i, <1>o, <1>r, RedoneOp
<1>2. mode = "recovering" /\ pc' = pc
  BY DEF RedoOp
<1>3. q \in LoggedOps(r) /\ OpAt(q) = op
  BY <1>1, <1>o, <1>r, LoggedOpsAre DEF OpAt
<1>4. chain \in [Row -> VersionChain] /\ PosBounded(chain[r])
  BY <1>1 DEF Typed, TypeOK, ChainsBounded
<1>5. \A w \in Row : w \in pkIndex \/ chain[w].versions = {}
  <2>1. \A u \in Tx : pc[u] # "index"
    BY <1>2 DEF Places
  <2> QED
    BY <2>1 DEF PkIndexComplete
<1>6. r \in pkIndex' \/ chain'[r].versions = {}
  <2>1. CASE op.kind = "insert"
    BY <1>1, <2>1
  <2>2. CASE op.kind = "update"
    <3>1. PICK p \in LoggedOps(r) : Before(p, q) /\ OpAt(p).kind = "insert"
      BY <1>1, <1>3, <2>2 DEF UpdatesFollowInLog
    <3>2. InStore(p)
      BY <1>i, <1>1, <3>1, RedoneIsNext
    <3>3. r \in pkIndex
      BY <1>1, <1>2, <3>1, <3>2 DEF RecoveredIsIndexed, Stored
    <3> QED
      BY <1>1, <3>3
  <2>3. CASE op.kind = "delete"
    <3>1. pkIndex' = pkIndex /\ chain'[r] = ExpireLive(chain[r], file[i].commit_ts)
      BY <1>1, <1>4, <2>3 DEF Apply
    <3>2. chain[r].versions = {} => chain'[r] = chain[r]
      BY <1>1, <1>4, <3>1, ExpireAddsNothing
    <3> QED
      BY <1>1, <1>5, <3>1, <3>2
  <2> QED
    BY <1>1, <2>1, <2>2, <2>3 DEF Op
<1>7. \A w \in Row \ {r} : chain'[w] = chain[w] /\ (w \in pkIndex => w \in pkIndex')
  BY <1>1, <1>4
<1> QED
  BY <1>5, <1>6, <1>7 DEF PkIndexComplete

LEMMA IndexInvStep ==
    ASSUME LogInv, EngineInv, IndexInv, [DNext]_dvars
    PROVE  IndexInv'
<1>1. /\ LogTyped /\ Places /\ FileIsHistory /\ CommittedIsLogged /\ ReplayIsPrefix
      /\ Typed /\ TypeOK /\ Starts /\ SnapshotsArePast /\ WritesAreOwned
  BY DEF LogInv, EngineInv, Typed
<1>2. UpdatesFollowInLog'
  BY <1>1, UpdatesFollowInLogStep DEF IndexInv
<1>3. IndexedIsLogged'
  BY <1>1, IndexedIsLoggedStep DEF IndexInv
<1>4. RecoveredIsIndexed'
  BY <1>1, RecoveredIsIndexedStep DEF IndexInv
<1>5. InsertedIsIndexed' /\ UpdatesFollowInserts' /\ PkIndexComplete'
  <2>1. CASE [Next]_vars
    BY <1>1, <2>1, IndexingStep DEF Indexing, IndexInv
  <2>2. CASE Crash
    BY <2>2 DEF Crash, Restart, InsertedIsIndexed, UpdatesFollowInserts, Locking,
       PkIndexComplete, EmptyChain
  <2>3. CASE RedoOp
    <3>1. ops' = ops /\ pc' = pc /\ mode = "recovering"
      BY <2>3 DEF RedoOp
    <3>2. InsertedIsIndexed' /\ UpdatesFollowInserts'
      BY <1>1, <3>1 DEF Places, InsertedIsIndexed, UpdatesFollowInserts, Locking
    <3> QED
      BY <1>1, <2>3, <3>2, RedoOpIndexes DEF IndexInv
  <2>4. CASE Serve
    BY <2>4 DEF Serve, IndexInv, InsertedIsIndexed, UpdatesFollowInserts, PkIndexComplete
  <2> QED
    BY <2>1, <2>2, <2>3, <2>4, StepKinds
<1> QED
  BY <1>2, <1>3, <1>4, <1>5 DEF IndexInv

(* recovery.rs, apply_write_set: recovery rebuilds the primary-key index with
   the store.  Through any number of crashes, torn and unsynced appends, and
   while recovery is still running, a row that has versions is in the index,
   or its INSERT is between its two halves; no matter what clients insert. *)
THEOREM IndexSurvives == DSpec => []PkIndexComplete
<1>1. DInit => EngineInv /\ IndexInv
  <2> SUFFICES ASSUME DInit PROVE EngineInv /\ IndexInv
    OBVIOUS
  <2>1. Typed /\ SnapshotsArePast
    BY InitTyped DEF DInit
  <2>2. /\ mode = "up" /\ file = <<>> /\ clock = 0 /\ pkIndex = {}
        /\ ops = [t \in Tx |-> <<>>] /\ cur = [t \in Tx |-> 1]
        /\ pc = [t \in Tx |-> "new"] /\ chain = [r \in Row |-> EmptyChain]
    BY DEF DInit, Init
  <2>3. Starts /\ WritesAreOwned /\ ClockStartsOver
    BY <2>2 DEF Starts, WritesAreOwned, Locking, ClockStartsOver
  <2>4. UpdatesFollowInLog
    <3>1. Readable = {}
      BY <2>2 DEF Readable
    <3> QED
      BY <3>1 DEF UpdatesFollowInLog, LoggedOps
  <2>5. IndexedIsLogged /\ RecoveredIsIndexed
    BY <2>2 DEF IndexedIsLogged, RecoveredIsIndexed
  <2>6. InsertedIsIndexed /\ UpdatesFollowInserts /\ PkIndexComplete
    BY <2>2 DEF InsertedIsIndexed, UpdatesFollowInserts, PkIndexComplete, EmptyChain, Locking
  <2> QED
    BY <2>1, <2>3, <2>4, <2>5, <2>6 DEF EngineInv, IndexInv
<1>2. LogInv /\ EngineInv /\ IndexInv /\ [DNext]_dvars => (EngineInv /\ IndexInv)'
  BY EngineInvStep, IndexInvStep DEF LogInv
<1>3. IndexInv => PkIndexComplete
  BY DEF IndexInv
<1> QED
  BY <1>1, <1>2, <1>3, LogInvariant, PTL DEF DSpec
==============================================================================
