--------------------------- MODULE RetentionProofs ----------------------------
(***************************************************************************)
(* Proofs about Retention, for any number of writers, readers, rows and    *)
(* transactions and whatever the models predict: no committed write is     *)
(* lost or counted twice, and before a model exists no row is left         *)
(* unswept, whatever two writers do to one counter.                        *)
(***************************************************************************)
EXTENDS Retention, FiniteSetTheorems, TLAPS

------------------------------------------------------------------------------
Fields == {"at", "id", "ops", "next", "horizon", "seen", "fit"}
Places == {"idle", "running", "committed", "record", "ask", "decide", "sweep", "reset", "sample", "train"}
(* The counters, and what the threads work on: a writer in a transaction or
   past its commit has a write in hand, the first one until it has counted it. *)
Typed ==
    /\ writes \in [Rows -> Nat]
    /\ tally \in [Rows -> [commits : Nat, counted : Nat]]
    /\ DOMAIN thread = Writers \cup Readers
    /\ \A p \in Writers \cup Readers :
          /\ DOMAIN thread[p] = Fields /\ thread[p].at \in Places
          /\ thread[p].ops \in Seq(WriteOp) /\ thread[p].next \in Nat \ {0}
          /\ thread[p].at \in {"idle", "running", "committed"} => thread[p].next = 1
    /\ \A p \in Writers : /\ thread[p].at # "idle" => thread[p].next \in DOMAIN thread[p].ops
                          /\ thread[p].at = "decide" => thread[p].seen \in Nat
(* The writes that are yet to be counted are finitely many. *)
FewUnrecorded == \A r \in Rows : IsFiniteSet(Unrecorded(r))

(* The writers on their way with r whose record came after p's look at the
   counter, as far as what they have seen tells. *)
Later(p, q) == \/ thread[q].at \in {"ask", "sweep", "reset"}
               \/ thread[q].at = "decide" /\ thread[q].seen > thread[p].seen
After(p, r) == {q \in Counting(r) \ {p} : Later(p, q)}

(* Why a writer that decides not to sweep may go: what came after its look is
   still on its way, or has been looked at since by one that went. *)
LooksAreFresh ==
    model = Models!NoModel =>
        \A r \in Rows : \A p \in Counting(r) : thread[p].at = "decide" =>
            \/ writes[r] <= thread[p].seen + Cardinality(After(p, r))
            \/ writes[r] < Bootstrap[r] + Cardinality(After(p, r))

------------------------------------------------------------------------------
(* Sets of writers are finite and can be counted. *)
LEMMA Counts ==
    ASSUME NEW T \in SUBSET Writers
    PROVE  /\ Cardinality(T) \in Nat
           /\ \A q \in Writers : q \notin T => Cardinality(T \cup {q}) = Cardinality(T) + 1
           /\ \A U \in SUBSET T : Cardinality(U) \in Nat /\ Cardinality(U) <= Cardinality(T)
<1>1. IsFiniteSet(T)
  BY RetentionAssumption, FS_Subset
<1>2. \A U \in SUBSET T : IsFiniteSet(U) /\ Cardinality(U) <= Cardinality(T)
  BY <1>1, FS_Subset
<1>3. \A q \in Writers : q \notin T => Cardinality(T \cup {q}) = Cardinality(T) + 1
  BY <1>1, FS_AddElement
<1> QED
  BY <1>1, <1>2, <1>3, FS_CardinalityType

(* What a set gains from one it does not meet, and loses with an element. *)
LEMMA Joined ==
    ASSUME NEW S, NEW T, IsFiniteSet(S), IsFiniteSet(T), S \cap T = {}
    PROVE  IsFiniteSet(S \cup T) /\ Cardinality(S \cup T) = Cardinality(S) + Cardinality(T)
<1>1. Cardinality(S \cap T) = 0
  BY FS_EmptySet
<1>2. Cardinality(S) \in Nat /\ Cardinality(T) \in Nat
  BY FS_CardinalityType
<1>3. /\ IsFiniteSet(S \cup T)
      /\ Cardinality(S \cup T) = Cardinality(S) + Cardinality(T) - Cardinality(S \cap T)
  BY FS_Union, Zenon
<1> QED
  BY <1>1, <1>2, <1>3

LEMMA Removed ==
    ASSUME NEW S, NEW x \in S, IsFiniteSet(S)
    PROVE  IsFiniteSet(S \ {x}) /\ Cardinality(S \ {x}) = Cardinality(S) - 1
BY FS_RemoveElement

(* Of which pairs Unrecorded consists, before and after a step. *)
LEMMA UnrecordedIs ==
    ASSUME NEW r
    PROVE  /\ \A x : x \in Unrecorded(r) <=>
                  \E u \in Writers : \E k \in Awaiting(u, r) : x = <<u, k>>
           /\ \A x : x \in Unrecorded(r)' <=>
                  \E u \in Writers : \E k \in Awaiting(u, r)' : x = <<u, k>>
BY DEF Unrecorded

(* The writes to r are places of a finite sequence. *)
LEMMA OnRowCounts ==
    ASSUME NEW ops \in Seq(WriteOp), NEW r
    PROVE  /\ IsFiniteSet(OnRow(ops, r)) /\ Cardinality(OnRow(ops, r)) \in Nat
           /\ OnRow(ops, r) \subseteq 1 .. Len(ops)
<1>1. OnRow(ops, r) \subseteq 1 .. Len(ops) /\ Len(ops) \in Nat
  BY DEF OnRow
<1>2. IsFiniteSet(1 .. Len(ops))
  BY <1>1, FS_Interval
<1> QED
  BY <1>1, <1>2, FS_Subset, FS_CardinalityType

------------------------------------------------------------------------------
(* What a step of p is to the counters and to the rows p has in hand. *)
Only(p) == /\ DOMAIN thread' = DOMAIN thread /\ DOMAIN thread'[p] = Fields
           /\ \A u \in DOMAIN thread \ {p} : thread'[u] = thread[u]
Stays(p, from, to) ==
    /\ Only(p) /\ thread[p].at = from /\ thread'[p].at = to
    /\ thread'[p].ops = thread[p].ops /\ thread'[p].next = thread[p].next

Outside(p) ==
    /\ Only(p) /\ thread[p].at \in {"idle", "running"} /\ thread'[p].at \in {"idle", "running"}
    /\ thread'[p].ops \in Seq(WriteOp) /\ thread'[p].next = 1
    /\ p \in Writers /\ thread'[p].at # "idle" => thread'[p].ops # <<>>
    /\ UNCHANGED <<writes, tally, model>>
Commits(p) ==
    /\ p \in Writers /\ Stays(p, "running", "committed")
    /\ tally' = [r \in Rows |-> [tally[r] EXCEPT !.commits =
                                    @ + Cardinality(OnRow(thread[p].ops, r))]]
    /\ UNCHANGED <<writes, model>>
Goes(p) ==
    /\ p \in Writers /\ UNCHANGED <<writes, tally, model>>
    /\ \/ Stays(p, "committed", "record") \/ Stays(p, "decide", "sweep")
       \/ Stays(p, "sweep", "reset") \/ Stays(p, "sample", "train")
Records(p) ==
    /\ p \in Writers /\ Stays(p, "record", "ask")
    /\ writes' = [writes EXCEPT ![Row(p)] = @ + 1]
    /\ UNCHANGED <<tally, model>>
Looks(p) ==
    /\ p \in Writers /\ Stays(p, "ask", "decide")
    /\ thread'[p].seen = writes[Row(p)]
    /\ UNCHANGED <<writes, tally, model>>
Resets(p) ==
    /\ p \in Writers /\ Stays(p, "reset", "sample")
    /\ writes' = [writes EXCEPT ![Row(p)] = 0]
    /\ tally' = [tally EXCEPT ![Row(p)].counted = @ + writes[Row(p)]]
    /\ UNCHANGED model
Leaves(p) ==
    /\ p \in Writers /\ Only(p) /\ thread[p].at \in {"decide", "sample", "train"}
    /\ \/ /\ thread[p].next = Len(thread[p].ops) /\ thread'[p].at = "idle"
          /\ thread'[p].ops = <<>> /\ thread'[p].next = 1
       \/ /\ thread[p].next # Len(thread[p].ops) /\ thread'[p].at = "record"
          /\ thread'[p].ops = thread[p].ops /\ thread'[p].next = thread[p].next + 1
    /\ thread[p].at = "decide" /\ model = Models!NoModel => thread[p].seen < Bootstrap[Row(p)]
    /\ UNCHANGED <<writes, tally>>
    /\ model' = Models!NoModel => model = Models!NoModel

(* The write in hand of a writer in a transaction. *)
LEMMA InHand ==
    ASSUME Typed, NEW p \in Writers, thread[p].at # "idle"
    PROVE  /\ Row(p) \in Rows /\ thread[p].next \in OnRow(thread[p].ops, Row(p))
           /\ thread[p].ops \in Seq(WriteOp) /\ thread[p].next \in 1 .. Len(thread[p].ops)
<1>1. thread[p].ops \in Seq(WriteOp) /\ thread[p].next \in DOMAIN thread[p].ops
  BY DEF Typed
<1>2. DOMAIN thread[p].ops = 1 .. Len(thread[p].ops)
  BY <1>1
<1>3. thread[p].ops[thread[p].next] \in WriteOp
  BY <1>1, <1>2
<1>4. Row(p) \in Rows
  BY <1>3 DEF Row, WriteOp
<1>5. thread[p].next \in OnRow(thread[p].ops, Row(p))
  BY <1>1 DEF Row, OnRow
<1> QED
  BY <1>1, <1>2, <1>4, <1>5

LEMMA LeavesWith ==
    ASSUME Typed, NEW p \in Writers, thread[p].at \in {"decide", "sample", "train"},
           thread' = [thread EXCEPT ![p] = NextOp(thread[p])]
    PROVE  /\ Only(p)
           /\ \/ /\ thread[p].next = Len(thread[p].ops) /\ thread'[p].at = "idle"
                 /\ thread'[p].ops = <<>> /\ thread'[p].next = 1
              \/ /\ thread[p].next # Len(thread[p].ops) /\ thread'[p].at = "record"
                 /\ thread'[p].ops = thread[p].ops /\ thread'[p].next = thread[p].next + 1
<1>1. DOMAIN thread[p] = Fields /\ p \in DOMAIN thread
  BY DEF Typed
<1>2. CASE thread[p].next = Len(thread[p].ops)
  <2>1. NextOp(thread[p]) = Idle
    BY <1>2 DEF NextOp
  <2>2. DOMAIN Idle = Fields /\ Idle.at = "idle" /\ Idle.ops = <<>> /\ Idle.next = 1
    BY DEF Idle, Fields
  <2> QED
    BY <1>1, <1>2, <2>1, <2>2 DEF Only
<1>3. CASE thread[p].next # Len(thread[p].ops)
  <2>1. NextOp(thread[p]) = [thread[p] EXCEPT !.at = "record", !.next = thread[p].next + 1]
    BY <1>3 DEF NextOp
  <2> QED
    BY <1>1, <1>3, <2>1 DEF Only, Fields
<1> QED
  BY <1>2, <1>3

LEMMA StepKinds ==
    ASSUME Typed, [Next]_vars
    PROVE  \/ UNCHANGED <<writes, tally, model, thread>>
           \/ \E p \in Writers \cup Readers :
                 \/ Outside(p) \/ Commits(p) \/ Goes(p) \/ Records(p) \/ Looks(p)
                 \/ Resets(p) \/ Leaves(p)
<1> USE DEF Become, Step, predictor, engine
<1>1. ASSUME NEW w \in Writers, NEW ops \in WriteSets, Begin(w, ops) PROVE Outside(w)
  <2>1. ops \in Seq(WriteOp) /\ ops # <<>>
    BY RetentionAssumption
  <2> QED
    BY <1>1, <2>1 DEF Begin, Outside, Only, Typed, Idle, Fields
<1>2. ASSUME NEW r \in Readers, Begin(r, <<>>) PROVE Outside(r)
  BY <1>2, RetentionAssumption DEF Begin, Outside, Only, Typed, Idle, Fields
<1>3. ASSUME NEW p \in DOMAIN thread, Abort(p) PROVE Outside(p)
  BY <1>3 DEF Abort, Outside, Only, Typed, Idle, Fields
<1>4. ASSUME NEW w \in Writers, Commit(w) PROVE Commits(w)
  BY <1>4 DEF Commit, Commits, Stays, Only, Typed, Fields
<1>5. ASSUME NEW w \in Writers, ComputeHorizon(w) PROVE Goes(w)
  BY <1>5 DEF ComputeHorizon, Goes, Stays, Only, Typed, Fields
<1>6. ASSUME NEW w \in Writers, RecordWrite(w) PROVE Records(w)
  BY <1>6 DEF RecordWrite, Records, Stays, Only, Typed, Fields
<1>7. ASSUME NEW w \in Writers, Ask(w) PROVE Looks(w)
  BY <1>7 DEF Ask, Looks, Stays, Only, Typed, Fields
<1>8. ASSUME NEW w \in Writers, Decide(w) PROVE Goes(w) \/ Leaves(w)
  <2>1. CASE WorthSweeping(Row(w), thread[w].seen)
    BY <1>8, <2>1 DEF Decide, Goes, Stays, Only, Typed, Fields
  <2>2. CASE ~ WorthSweeping(Row(w), thread[w].seen)
    <3>1. thread[w].at = "decide" /\ thread' = [thread EXCEPT ![w] = NextOp(thread[w])]
          /\ UNCHANGED <<writes, tally, model>>
      BY <1>8, <2>2 DEF Decide
    <3>2. Row(w) \in Rows /\ thread[w].seen \in Nat
      BY <3>1, InHand DEF Typed
    <3>3. model = Models!NoModel => thread[w].seen < Bootstrap[Row(w)]
      BY <2>2, <3>2, RetentionAssumption DEF WorthSweeping
    <3> QED
      BY <3>1, <3>3, LeavesWith DEF Leaves
  <2> QED
    BY <2>1, <2>2
<1>9. ASSUME NEW w \in Writers, Sweep(w) PROVE Goes(w)
  BY <1>9 DEF Sweep, Goes, Stays, Only, Typed, Fields
<1>10. ASSUME NEW w \in Writers, Reset(w) PROVE Resets(w)
  BY <1>10 DEF Reset, Resets, Stays, Only, Typed, Fields
<1>11. ASSUME NEW w \in Writers, Sample(w) PROVE Goes(w) \/ Leaves(w)
  <2>1. /\ thread[w].at = "sample" /\ UNCHANGED <<writes, tally, model>>
        /\ \/ thread' = [thread EXCEPT ![w] = NextOp(thread[w])]
           \/ \E x : thread' = [thread EXCEPT ![w] = [thread[w] EXCEPT !.at = "train", !.fit = x]]
    BY <1>11 DEF Sample
  <2>2. CASE thread' = [thread EXCEPT ![w] = NextOp(thread[w])]
    BY <2>1, <2>2, LeavesWith DEF Leaves
  <2>3. ASSUME NEW x, thread' = [thread EXCEPT ![w] = [thread[w] EXCEPT !.at = "train", !.fit = x]]
        PROVE  Goes(w)
    BY <2>1, <2>3 DEF Goes, Stays, Only, Typed, Fields
  <2> QED
    BY <2>1, <2>2, <2>3
<1>12. ASSUME NEW w \in Writers, Train(w) PROVE Leaves(w)
  <2>1. /\ thread[w].at = "train" /\ UNCHANGED <<writes, tally>>
        /\ model' = Models!NoModel => model = Models!NoModel
        /\ thread' = [thread EXCEPT ![w] = NextOp(thread[w])]
    BY <1>12 DEF Train
  <2> QED
    BY <2>1, LeavesWith DEF Leaves
<1>13. CASE UNCHANGED vars
  BY <1>13 DEF vars
<1> QED
  BY <1>1, <1>2, <1>3, <1>4, <1>5, <1>6, <1>7, <1>8, <1>9, <1>10, <1>11, <1>12, <1>13
  DEF Next, Typed

LEMMA TypedStep == ASSUME Typed, [Next]_vars PROVE Typed'
<1> DEFINE ThreadOK(u) == /\ DOMAIN thread'[u] = Fields /\ thread'[u].at \in Places
                          /\ thread'[u].ops \in Seq(WriteOp) /\ thread'[u].next \in Nat \ {0}
                          /\ thread'[u].at \in {"idle", "running", "committed"} => thread'[u].next = 1
                          /\ u \in Writers => /\ thread'[u].at # "idle" => thread'[u].next \in DOMAIN thread'[u].ops
                                              /\ thread'[u].at = "decide" => thread'[u].seen \in Nat
           CountersOK == /\ writes' \in [Rows -> Nat]
                         /\ tally' \in [Rows -> [commits : Nat, counted : Nat]]
<1>1. ASSUME NEW p \in Writers \cup Readers, Only(p), ThreadOK(p), CountersOK PROVE Typed'
  <2>1. \A u \in (Writers \cup Readers) \ {p} : ThreadOK(u)
    BY <1>1 DEF Only, Typed
  <2> QED
    BY <1>1, <2>1 DEF Only, Typed
<1>2. ASSUME NEW p \in Writers \cup Readers, Outside(p) PROVE Typed'
  <2>0. thread'[p].ops # <<>> => 1 \in DOMAIN thread'[p].ops
    BY <1>2 DEF Outside
  <2>1. Only(p) /\ ThreadOK(p) /\ CountersOK
    BY <1>2, <2>0 DEF Outside, Only, Typed, Places
  <2> QED
    BY <1>1, <2>1
<1>3. ASSUME NEW p \in Writers, Commits(p) PROVE Typed'
  <2>1. Only(p) /\ ThreadOK(p)
    BY <1>3 DEF Commits, Stays, Only, Typed, Places
  <2>2. CountersOK
    <3>1. \A r \in Rows : tally[r].commits + Cardinality(OnRow(thread[p].ops, r)) \in Nat
      BY OnRowCounts DEF Typed
    <3>2. \A r \in Rows : tally[r] \in [commits : Nat, counted : Nat]
      BY DEF Typed
    <3>3. tally' \in [Rows -> [commits : Nat, counted : Nat]]
      BY <1>3, <3>1, <3>2 DEF Commits
    <3> QED
      BY <1>3, <3>3 DEF Commits, Typed
  <2> QED
    BY <1>1, <2>1, <2>2
<1>4. ASSUME NEW p \in Writers, Goes(p) PROVE Typed'
  <2>1. Only(p) /\ ThreadOK(p) /\ CountersOK
    BY <1>4 DEF Goes, Stays, Only, Typed, Places
  <2> QED
    BY <1>1, <2>1
<1>5. ASSUME NEW p \in Writers, Records(p) PROVE Typed'
  <2>1. Only(p) /\ ThreadOK(p)
    BY <1>5 DEF Records, Stays, Only, Typed, Places
  <2>2. CountersOK
    <3>1. Row(p) \in Rows
      BY <1>5, InHand DEF Records, Stays
    <3>2. writes[Row(p)] + 1 \in Nat
      BY <3>1 DEF Typed
    <3> QED
      BY <1>5, <3>2 DEF Records, Typed
  <2> QED
    BY <1>1, <2>1, <2>2
<1>6. ASSUME NEW p \in Writers, Looks(p) PROVE Typed'
  <2>1. Row(p) \in Rows
    BY <1>6, InHand DEF Looks, Stays
  <2>2. Only(p) /\ ThreadOK(p) /\ CountersOK
    BY <1>6, <2>1 DEF Looks, Stays, Only, Typed, Places
  <2> QED
    BY <1>1, <2>2
<1>7. ASSUME NEW p \in Writers, Resets(p) PROVE Typed'
  <2>1. Row(p) \in Rows
    BY <1>7, InHand DEF Resets, Stays
  <2>2. Only(p) /\ ThreadOK(p)
    BY <1>7 DEF Resets, Stays, Only, Typed, Places
  <2>3. CountersOK
    <3>1. tally[Row(p)].counted + writes[Row(p)] \in Nat
      BY <2>1 DEF Typed
    <3>2. tally[Row(p)].commits \in Nat /\ 0 \in Nat
      BY <2>1 DEF Typed
    <3>3. tally' \in [Rows -> [commits : Nat, counted : Nat]]
      BY <1>7, <2>1, <3>1, <3>2 DEF Resets, Typed
    <3> QED
      BY <1>7, <3>2, <3>3 DEF Resets, Typed
  <2> QED
    BY <1>1, <2>2, <2>3
<1>8. ASSUME NEW p \in Writers, Leaves(p) PROVE Typed'
  <2>1. thread[p].ops \in Seq(WriteOp) /\ thread[p].next \in 1 .. Len(thread[p].ops)
    BY <1>8, InHand DEF Leaves
  <2>2. Only(p) /\ CountersOK
    BY <1>8 DEF Leaves, Typed
  <2>3. ThreadOK(p)
    <3>0. DOMAIN thread[p].ops = 1 .. Len(thread[p].ops) /\ Len(thread[p].ops) \in Nat /\ <<>> \in Seq(WriteOp)
      BY <2>1
    <3>1. CASE thread'[p].at = "idle"
      <4>1. thread'[p].ops = <<>> /\ thread'[p].next = 1
        BY <1>8, <3>1 DEF Leaves
      <4> QED
        BY <2>2, <3>0, <3>1, <4>1 DEF Only, Places
    <3>2. CASE thread'[p].at = "record"
      <4>1. thread'[p].ops = thread[p].ops /\ thread'[p].next = thread[p].next + 1
            /\ thread[p].next # Len(thread[p].ops)
        BY <1>8, <3>2 DEF Leaves
      <4>2. thread'[p].next \in 1 .. Len(thread[p].ops) /\ thread'[p].next \in Nat \ {0}
        BY <2>1, <3>0, <4>1
      <4> QED
        BY <2>1, <2>2, <3>0, <3>2, <4>1, <4>2 DEF Only, Places
    <3> QED
      BY <1>8, <3>1, <3>2 DEF Leaves
  <2> QED
    BY <1>1, <2>2, <2>3
<1>9. CASE UNCHANGED <<writes, tally, model, thread>>
  BY <1>9 DEF Typed
<1> QED
  BY <1>2, <1>3, <1>4, <1>5, <1>6, <1>7, <1>8, <1>9, StepKinds
  DEF Commits, Goes, Records, Looks, Resets, Leaves

LEMMA InitTyped == Init => Typed
<1> SUFFICES ASSUME Init PROVE Typed
  OBVIOUS
<1>1. /\ writes \in [Rows -> Nat]
      /\ tally \in [Rows -> [commits : Nat, counted : Nat]]
      /\ DOMAIN thread = Writers \cup Readers
      /\ \A p \in Writers \cup Readers : thread[p] = Idle
  <2>1. writes = [r \in Rows |-> 0] /\ tally = [r \in Rows |-> [commits |-> 0, counted |-> 0]]
        /\ thread = [p \in Writers \cup Readers |-> Idle]
    BY DEF Init
  <2> QED
    BY <2>1
<1>2. /\ DOMAIN Idle = Fields /\ Idle.at = "idle" /\ Idle.ops = <<>> /\ Idle.next = 1
      /\ <<>> \in Seq(WriteOp)
  BY DEF Idle, Fields
<1>3. ASSUME NEW p \in Writers \cup Readers
      PROVE  /\ DOMAIN thread[p] = Fields /\ thread[p].at \in Places
             /\ thread[p].ops \in Seq(WriteOp) /\ thread[p].next \in Nat \ {0}
             /\ thread[p].at = "idle" /\ thread[p].next = 1
  <2>1. thread[p] = Idle
    BY <1>1
  <2>2. "idle" \in Places
    BY DEF Places
  <2>3. Idle.at \in Places /\ Idle.ops \in Seq(WriteOp) /\ Idle.next \in Nat \ {0}
    BY <1>2, <2>2
  <2> QED
    BY <1>2, <2>1, <2>3, Zenon
<1> QED
  BY <1>1, <1>3 DEF Typed

------------------------------------------------------------------------------
(* What a step of p does to the writes that are yet to be counted is what it
   does to those of p. *)
LEMMA OthersAwait ==
    ASSUME Typed, NEW p \in Writers \cup Readers, Only(p), NEW r
    PROVE  /\ \A u \in Writers \ {p} : Awaiting(u, r)' = Awaiting(u, r)
           /\ (p \in Writers => Awaiting(p, r)' = Awaiting(p, r)) => Unrecorded(r)' = Unrecorded(r)
<1>1. \A u \in Writers \ {p} : thread'[u] = thread[u]
  BY DEF Only, Typed
<1>2. \A u \in Writers \ {p} : Awaiting(u, r)' = Awaiting(u, r)
  BY <1>1 DEF Awaiting
<1>3. ASSUME p \in Writers => Awaiting(p, r)' = Awaiting(p, r)
      PROVE  Unrecorded(r)' = Unrecorded(r)
  <2>1. \A u \in Writers : Awaiting(u, r)' = Awaiting(u, r)
    BY <1>2, <1>3
  <2>2. \A x : x \in Unrecorded(r)' <=> x \in Unrecorded(r)
    BY <2>1, UnrecordedIs
  <2> QED
    BY <2>2
<1> QED
  BY <1>2, <1>3

LEMMA CountedStep ==
    ASSUME Typed, EveryWriteIsCountedOnce, FewUnrecorded, [Next]_vars
    PROVE  EveryWriteIsCountedOnce' /\ FewUnrecorded'
<1> DEFINE Counted(r) == tally[r].counted + writes[r]
           CountedNext(r) == tally'[r].counted + writes'[r]
           Goal(r) == /\ tally'[r].commits = CountedNext(r) + Cardinality(Unrecorded(r)')
                      /\ IsFiniteSet(Unrecorded(r)')
<1>1. SUFFICES ASSUME NEW r \in Rows PROVE Goal(r)
  BY DEF EveryWriteIsCountedOnce, FewUnrecorded
<1>0. /\ tally[r].commits = Counted(r) + Cardinality(Unrecorded(r))
      /\ tally[r].commits \in Nat /\ tally[r].counted \in Nat /\ writes[r] \in Nat
      /\ IsFiniteSet(Unrecorded(r)) /\ Cardinality(Unrecorded(r)) \in Nat
  BY FS_CardinalityType DEF Typed, EveryWriteIsCountedOnce, FewUnrecorded
<1>3. ASSUME Unrecorded(r)' = Unrecorded(r), tally'[r].commits = tally[r].commits,
             CountedNext(r) = Counted(r)
      PROVE  Goal(r)
  BY <1>0, <1>3
<1>4. ASSUME NEW p \in Writers \cup Readers, Only(p), UNCHANGED <<writes, tally>>,
             p \in Writers => Awaiting(p, r)' = Awaiting(p, r)
      PROVE  Goal(r)
  <2>1. Unrecorded(r)' = Unrecorded(r)
    BY <1>4, OthersAwait
  <2> QED
    BY <1>3, <1>4, <2>1
<1>5. ASSUME NEW p \in Writers \cup Readers, Outside(p) PROVE Goal(r)
  BY <1>4, <1>5 DEF Outside, Awaiting
<1>6. ASSUME NEW p \in Writers, Commits(p) PROVE Goal(r)
  <2> DEFINE mine == OnRow(thread[p].ops, r)
             new == {p} \X mine
  <2>1. /\ Only(p) /\ thread[p].at = "running" /\ thread'[p].at = "committed"
        /\ thread'[p].ops = thread[p].ops /\ thread'[p].next = 1
        /\ thread[p].ops \in Seq(WriteOp)
    BY <1>6 DEF Commits, Stays, Typed
  <2>2. IsFiniteSet(mine) /\ Cardinality(mine) \in Nat /\ mine \subseteq 1 .. Len(thread[p].ops)
    BY <2>1, OnRowCounts
  <2>3. Awaiting(p, r) = {} /\ Awaiting(p, r)' = mine
    BY <2>1, <2>2 DEF Awaiting
  <2>4. /\ tally'[r].commits = tally[r].commits + Cardinality(mine)
        /\ tally'[r].counted = tally[r].counted /\ writes' = writes
    BY <1>6 DEF Commits, Typed
  <2>5. IsFiniteSet(new) /\ Cardinality(new) = Cardinality(mine)
    <3>1. IsFiniteSet({p}) /\ Cardinality({p}) = 1
      BY FS_Singleton
    <3> HIDE DEF mine
    <3> QED
      BY <2>2, <3>1, FS_Product
  <2>6. Unrecorded(r)' = Unrecorded(r) \cup new /\ Unrecorded(r) \cap new = {}
    <3>1. \A u \in Writers \ {p} : Awaiting(u, r)' = Awaiting(u, r)
      BY <2>1, OthersAwait
    <3>2. \A x : x \in new <=> \E k \in mine : x = <<p, k>>
      OBVIOUS
    <3>3. ASSUME NEW x PROVE x \in Unrecorded(r)' <=> x \in Unrecorded(r) \/ x \in new
      BY <2>3, <3>1, <3>2, UnrecordedIs
    <3>4. ASSUME NEW x, x \in Unrecorded(r), x \in new PROVE FALSE
      BY <2>3, <3>2, <3>4, UnrecordedIs
    <3> QED
      BY <3>3, <3>4
  <2> HIDE DEF new, mine
  <2>7. /\ IsFiniteSet(Unrecorded(r)')
        /\ Cardinality(Unrecorded(r)') = Cardinality(Unrecorded(r)) + Cardinality(mine)
    <3>1. /\ IsFiniteSet(Unrecorded(r) \cup new)
          /\ Cardinality(Unrecorded(r) \cup new) = Cardinality(Unrecorded(r)) + Cardinality(new)
      BY <1>0, <2>2, <2>5, <2>6, Joined
    <3> QED
      BY <2>5, <2>6, <3>1
  <2> QED
    BY <1>0, <2>2, <2>4, <2>7
<1>7. ASSUME NEW p \in Writers, Goes(p) \/ Looks(p) PROVE Goal(r)
  BY <1>4, <1>7 DEF Goes, Looks, Stays, Awaiting
<1>8. ASSUME NEW p \in Writers, Records(p) PROVE Goal(r)
  <2> DEFINE n == thread[p].next
  <2>1. /\ thread[p].at = "record" /\ thread'[p].at = "ask" /\ Only(p) /\ tally' = tally
        /\ thread'[p].ops = thread[p].ops /\ thread'[p].next = n
    BY <1>8 DEF Records, Stays
  <2>2. /\ Row(p) \in Rows /\ n \in OnRow(thread[p].ops, Row(p))
        /\ OnRow(thread[p].ops, r) \subseteq Nat /\ n \in Nat
        /\ (r # Row(p) => n \notin OnRow(thread[p].ops, r))
    <3>1. thread[p].ops \in Seq(WriteOp) /\ n \in 1 .. Len(thread[p].ops)
      BY <2>1, InHand
    <3> QED
      BY <2>1, <3>1, InHand, OnRowCounts DEF OnRow, Row
  <2>3. Awaiting(p, r)' = Awaiting(p, r) \ {n}
    BY <2>1, <2>2 DEF Awaiting
  <2> HIDE DEF n
  <2>4. CASE r = Row(p)
    <3>1. n \in Awaiting(p, r)
      BY <2>1, <2>2, <2>4 DEF Awaiting, n
    <3>2. Unrecorded(r)' = Unrecorded(r) \ {<<p, n>>} /\ <<p, n>> \in Unrecorded(r)
      <4>1. \A u \in Writers \ {p} : Awaiting(u, r)' = Awaiting(u, r)
        BY <2>1, OthersAwait
      <4>2. <<p, n>> \in Unrecorded(r)
        BY <3>1, UnrecordedIs
      <4>3. ASSUME NEW x PROVE x \in Unrecorded(r)' <=> x \in Unrecorded(r) /\ x # <<p, n>>
        BY <2>3, <4>1, UnrecordedIs
      <4> QED
        BY <4>2, <4>3
    <3>3. writes'[r] = writes[r] + 1
      BY <1>8, <2>4 DEF Records, Typed
    <3>4. /\ IsFiniteSet(Unrecorded(r)')
          /\ Cardinality(Unrecorded(r)') = Cardinality(Unrecorded(r)) - 1
      <4>1. /\ IsFiniteSet(Unrecorded(r) \ {<<p, n>>})
            /\ Cardinality(Unrecorded(r) \ {<<p, n>>}) = Cardinality(Unrecorded(r)) - 1
        BY <1>0, <3>2, Removed
      <4> QED
        BY <3>2, <4>1
    <3>5. tally'[r].commits = tally[r].commits /\ tally'[r].counted = tally[r].counted
      BY <2>1
    <3> HIDE DEF n
    <3> QED
      BY <1>0, <3>3, <3>4, <3>5
  <2>5. CASE r # Row(p)
    <3>1. n \notin Awaiting(p, r)
      BY <2>2, <2>5 DEF Awaiting
    <3>2. Awaiting(p, r)' = Awaiting(p, r)
      BY <2>3, <3>1
    <3>3. writes'[r] = writes[r]
      BY <1>8, <2>5 DEF Records, Typed
    <3>4. Unrecorded(r)' = Unrecorded(r)
      BY <2>1, <3>2, OthersAwait
    <3> QED
      BY <1>3, <2>1, <3>3, <3>4
  <2> QED
    BY <2>4, <2>5
<1>9. ASSUME NEW p \in Writers, Resets(p) PROVE Goal(r)
  <2>1. /\ Only(p) /\ thread[p].at = "reset" /\ thread'[p].at = "sample"
        /\ thread'[p].ops = thread[p].ops /\ thread'[p].next = thread[p].next
        /\ Row(p) \in Rows
    BY <1>9, InHand DEF Resets, Stays
  <2>2. Unrecorded(r)' = Unrecorded(r)
    <3>1. Awaiting(p, r)' = Awaiting(p, r)
      BY <2>1 DEF Awaiting
    <3> QED
      BY <2>1, <3>1, OthersAwait
  <2>3. tally'[r].commits = tally[r].commits /\ CountedNext(r) = Counted(r)
    BY <1>0, <1>9, <2>1 DEF Resets, Typed
  <2> QED
    BY <1>3, <2>2, <2>3
<1>10. ASSUME NEW p \in Writers, Leaves(p) PROVE Goal(r)
  <2>1. /\ thread[p].ops \in Seq(WriteOp) /\ thread[p].next \in 1 .. Len(thread[p].ops)
        /\ OnRow(thread[p].ops, r) \subseteq 1 .. Len(thread[p].ops)
    BY <1>10, InHand, OnRowCounts DEF Leaves
  <2>2. Awaiting(p, r)' = Awaiting(p, r)
    <3>1. CASE thread'[p].at = "idle"
      BY <1>10, <2>1, <3>1 DEF Leaves, Awaiting
    <3>2. CASE thread'[p].at = "record"
      BY <1>10, <2>1, <3>2 DEF Leaves, Awaiting
    <3> QED
      BY <1>10, <3>1, <3>2 DEF Leaves
  <2> QED
    BY <1>4, <1>10, <2>2 DEF Leaves
<1>11. CASE UNCHANGED <<writes, tally, model, thread>>
  <2>1. Unrecorded(r)' = Unrecorded(r)
    BY <1>11 DEF Unrecorded, Awaiting
  <2> QED
    BY <1>3, <1>11, <2>1
<1> QED
  BY <1>5, <1>6, <1>7, <1>8, <1>9, <1>10, <1>11, StepKinds
  DEF Commits, Goes, Records, Looks, Resets, Leaves

------------------------------------------------------------------------------
(* Which writers are on their way with r, across a step of one of them. *)
LEMMA CountingOthers ==
    ASSUME Typed, NEW p \in Writers \cup Readers, Only(p), NEW r
    PROVE  /\ Counting(r) \in SUBSET Writers /\ Counting(r)' \in SUBSET Writers
           /\ \A u \in Writers \ {p} : /\ thread'[u] = thread[u]
                                       /\ u \in Counting(r)' <=> u \in Counting(r)
BY DEF Only, Typed, Counting, Row

LEMMA AfterIn ==
    ASSUME NEW p, NEW r
    PROVE  /\ After(p, r) \in SUBSET Writers /\ After(p, r) \subseteq Counting(r) \ {p}
           /\ After(p, r)' \in SUBSET Writers /\ After(p, r)' \subseteq Counting(r)' \ {p}
           /\ Cardinality(After(p, r)) \in Nat /\ Cardinality(After(p, r)') \in Nat
<1> DEFINE A == After(p, r)  AN == After(p, r)'
<1>1. A \in SUBSET Writers /\ AN \in SUBSET Writers
  BY DEF After, Counting
<1>2. A \subseteq Counting(r) \ {p} /\ AN \subseteq Counting(r)' \ {p}
  BY DEF After
<1>3. ASSUME NEW T \in SUBSET Writers PROVE Cardinality(T) \in Nat
  BY Counts
<1>4. Cardinality(A) \in Nat /\ Cardinality(AN) \in Nat
  <2> HIDE DEF A, AN
  <2> QED
    BY <1>1, <1>3
<1> QED
  BY <1>1, <1>2, <1>4

(* A set of writers that gained some, and one that gained one. *)
LEMMA Grows ==
    ASSUME NEW T \in SUBSET Writers, NEW U \in SUBSET Writers
    PROVE  /\ T \subseteq U => Cardinality(T) <= Cardinality(U)
           /\ \A q \in Writers : q \notin T /\ U = T \cup {q} => Cardinality(U) = Cardinality(T) + 1
BY Counts

(* A look stays fresh: q steps, p decides later. *)
LEMMA LooksStep ==
    ASSUME Typed, LooksAreFresh, [Next]_vars
    PROVE  LooksAreFresh'
<1> DEFINE Fresh(r, p) == \/ writes[r] <= thread[p].seen + Cardinality(After(p, r))
                          \/ writes[r] < Bootstrap[r] + Cardinality(After(p, r))
           FreshNext(r, p) == \/ writes'[r] <= thread'[p].seen + Cardinality(After(p, r)')
                              \/ writes'[r] < Bootstrap[r] + Cardinality(After(p, r)')
<1> SUFFICES ASSUME model' = Models!NoModel, NEW r \in Rows,
                    NEW p \in Counting(r)', thread'[p].at = "decide"
             PROVE  FreshNext(r, p)
  BY DEF LooksAreFresh
<1>0. Cardinality(After(p, r)) \in Nat /\ Cardinality(After(p, r)') \in Nat
  BY AfterIn
<1>0a. p \in Writers /\ writes[r] \in Nat /\ Bootstrap[r] \in Nat \ {0}
  BY RetentionAssumption DEF Counting, Typed
<1>0b. model = Models!NoModel => \A u \in Counting(r) : thread[u].at = "decide" => Fresh(r, u)
  BY DEF LooksAreFresh
<1>1. /\ model = Models!NoModel => \A u \in Counting(r) : thread[u].at = "decide" => Fresh(r, u)
      /\ p \in Writers /\ writes[r] \in Nat /\ Bootstrap[r] \in Nat \ {0}
      /\ Cardinality(After(p, r)) \in Nat /\ Cardinality(After(p, r)') \in Nat
  BY <1>0, <1>0a, <1>0b
<1>2. thread'[p].seen \in Nat
  BY <1>1, TypedStep DEF Typed
(* The counter stands still and nobody after p has gone. *)
<1>3. ASSUME p \in Counting(r), thread[p].at = "decide", thread'[p] = thread[p],
             model = Models!NoModel, writes'[r] = writes[r],
             writes[r] <= thread[p].seen \/ After(p, r) \subseteq After(p, r)'
      PROVE  FreshNext(r, p)
  <2>1. Fresh(r, p)
    BY <1>1, <1>3
  <2>2. CASE writes[r] <= thread[p].seen
    BY <1>1, <1>2, <1>3, <2>2
  <2>3. CASE After(p, r) \subseteq After(p, r)'
    <3>1. Cardinality(After(p, r)) <= Cardinality(After(p, r)')
      <4>1. After(p, r) \in SUBSET Writers /\ After(p, r)' \in SUBSET Writers
        BY AfterIn
      <4> QED
        BY <2>3, <4>1, Grows
    <3> QED
      BY <1>1, <1>2, <1>3, <2>1, <3>1
  <2> QED
    BY <1>3, <2>2, <2>3
(* A step of another thread. *)
<1>4. ASSUME NEW q \in Writers \cup Readers, Only(q), q # p
      PROVE  /\ p \in Counting(r) /\ thread[p].at = "decide" /\ thread'[p] = thread[p]
             /\ \A u \in Writers \ {q} : u \in After(p, r)' <=> u \in After(p, r)
  <2>1. \A u \in Writers \ {q} : /\ thread'[u] = thread[u]
                                 /\ u \in Counting(r)' <=> u \in Counting(r)
    BY <1>4, CountingOthers
  <2> QED
    BY <1>1, <1>4, <2>1 DEF After, Later
<1>5. ASSUME NEW q \in Writers \cup Readers, Only(q), q # p, model = Models!NoModel,
             writes'[r] = writes[r], q \in After(p, r) => q \in After(p, r)'
      PROVE  FreshNext(r, p)
  <2>1. After(p, r) \subseteq After(p, r)'
    BY <1>4, <1>5, AfterIn
  <2> QED
    BY <1>3, <1>4, <1>5, <2>1
<1>6. ASSUME NEW q \in Writers \cup Readers, Outside(q) PROVE FreshNext(r, p)
  <2>1. Only(q) /\ q # p /\ q \notin Counting(r) /\ UNCHANGED <<writes, model>>
    BY <1>6 DEF Outside, Counting
  <2> QED
    BY <1>5, <2>1, AfterIn
<1>7. ASSUME NEW q \in Writers, Commits(q) PROVE FreshNext(r, p)
  <2>1. Only(q) /\ q # p /\ q \notin Counting(r) /\ UNCHANGED <<writes, model>>
    BY <1>7 DEF Commits, Stays, Counting
  <2> QED
    BY <1>5, <2>1, AfterIn
<1>8. ASSUME NEW q \in Writers, Goes(q) PROVE FreshNext(r, p)
  <2>1. Only(q) /\ q # p /\ UNCHANGED <<writes, model>>
    BY <1>8 DEF Goes, Stays
  <2>2. q \in After(p, r) => q \in After(p, r)'
    BY <1>8, <2>1 DEF Goes, Stays, After, Later, Counting, Row
  <2> QED
    BY <1>5, <2>1, <2>2
<1>9. ASSUME NEW q \in Writers, Records(q) PROVE FreshNext(r, p)
  <2>1. Only(q) /\ q # p /\ model' = model /\ q \notin Counting(r)
    BY <1>9 DEF Records, Stays, Counting
  <2>2. CASE r = Row(q)
    <3>1. q \in After(p, r)' /\ q \notin After(p, r)
      BY <1>9, <2>1, <2>2, AfterIn DEF Records, Stays, After, Later, Counting, Row
    <3>2. After(p, r) \in SUBSET Writers /\ After(p, r)' \in SUBSET Writers
      BY AfterIn
    <3>3. Cardinality(After(p, r)') = Cardinality(After(p, r)) + 1
      <4>1. \A u \in Writers \ {q} : u \in After(p, r)' <=> u \in After(p, r)
        BY <1>4, <2>1
      <4>2. After(p, r)' \subseteq After(p, r) \cup {q} /\ After(p, r) \cup {q} \subseteq After(p, r)'
        BY <3>1, <3>2, <4>1
      <4>3. After(p, r)' = After(p, r) \cup {q}
        BY <4>2
      <4> QED
        BY <3>1, <3>2, <4>3, Grows
    <3>4. writes'[r] = writes[r] + 1
      BY <1>9, <2>2 DEF Records, Typed
    <3>5. Fresh(r, p) /\ thread'[p] = thread[p]
      BY <1>1, <1>4, <2>1
    <3> QED
      BY <1>1, <1>2, <3>3, <3>4, <3>5
  <2>3. CASE r # Row(q)
    <3>1. writes'[r] = writes[r]
      BY <1>9, <2>3 DEF Records, Typed
    <3> QED
      BY <1>5, <2>1, <3>1, AfterIn
  <2> QED
    BY <2>2, <2>3
<1>10. ASSUME NEW q \in Writers, Looks(q) PROVE FreshNext(r, p)
  <2>1. Only(q) /\ UNCHANGED <<writes, model>> /\ thread'[q].seen = writes[Row(q)]
        /\ thread'[q].ops = thread[q].ops /\ thread'[q].next = thread[q].next
    BY <1>10 DEF Looks, Stays
  <2>2. CASE q = p
    <3>1. r = Row(q)
      BY <2>1, <2>2 DEF Counting, Row
    <3> QED
      BY <1>1, <2>1, <2>2, <3>1
  <2>3. CASE q # p /\ q \notin After(p, r)
    BY <1>5, <2>1, <2>3
  <2>4. CASE q # p /\ q \in After(p, r)
    <3>1. p \in Counting(r) /\ thread[p].at = "decide" /\ thread'[p] = thread[p]
      BY <1>4, <2>1, <2>4
    <3>2. CASE writes[r] <= thread[p].seen
      BY <1>3, <2>1, <3>1, <3>2
    <3>3. CASE ~ (writes[r] <= thread[p].seen)
      <4>1. r = Row(q) /\ thread'[q].at = "decide"
        BY <1>10, <2>4 DEF After, Counting, Looks, Stays
      <4>2. thread'[q].seen > thread'[p].seen
        BY <1>1, <1>2, <2>1, <3>1, <3>3, <4>1
      <4>3. q \in After(p, r)'
        BY <2>1, <2>4, <4>1, <4>2 DEF After, Later, Counting, Row
      <4> QED
        BY <1>5, <2>1, <2>4, <4>3
    <3> QED
      BY <3>2, <3>3
  <2> QED
    BY <2>2, <2>3, <2>4
<1>11. ASSUME NEW q \in Writers, Resets(q) PROVE FreshNext(r, p)
  <2>1. Only(q) /\ q # p /\ model' = model
    BY <1>11 DEF Resets, Stays
  <2>2. CASE r = Row(q)
    <3>1. writes'[r] = 0
      BY <1>11, <2>2 DEF Resets, Typed
    <3> QED
      BY <1>1, <1>2, <3>1
  <2>3. CASE r # Row(q)
    <3>1. writes'[r] = writes[r] /\ q \notin Counting(r)
      BY <1>11, <2>3 DEF Resets, Typed, Counting
    <3> QED
      BY <1>5, <2>1, <3>1, AfterIn
  <2> QED
    BY <2>2, <2>3
<1>12. ASSUME NEW q \in Writers, Leaves(q) PROVE FreshNext(r, p)
  <2>1. Only(q) /\ q # p /\ writes' = writes /\ model = Models!NoModel
    BY <1>12 DEF Leaves
  <2>2. CASE q \notin After(p, r)
    BY <1>5, <2>1, <2>2
  <2>3. CASE q \in After(p, r)
    <3>1. /\ thread[q].at = "decide" /\ r = Row(q) /\ q \in Counting(r)
          /\ thread[q].seen > thread[p].seen /\ thread[q].seen < Bootstrap[r]
      BY <1>12, <2>1, <2>3 DEF Leaves, After, Later, Counting
    <3>2. p \in Counting(r) /\ thread[p].at = "decide" /\ thread'[p] = thread[p]
      BY <1>4, <2>1
    <3>3. thread[p].seen \in Nat /\ thread[q].seen \in Nat
      BY <3>1, <3>2 DEF Typed, Counting
    <3>4. After(q, r) \subseteq After(p, r) \ {q}
      <4>1. p \notin After(q, r)
        BY <3>1, <3>2, <3>3 DEF After, Later
      <4>2. ASSUME NEW u \in After(q, r) PROVE Later(p, u)
        <5>1. u \in Writers /\ (thread[u].at = "decide" => thread[u].seen \in Nat)
          BY AfterIn DEF Typed
        <5> QED
          BY <3>1, <3>3, <5>1 DEF After, Later
      <4> QED
        BY <4>1, <4>2 DEF After
    <3>5. After(q, r) \subseteq After(p, r)'
      BY <1>4, <2>1, <3>4, AfterIn
    <3>6. Cardinality(After(q, r)) \in Nat /\ Cardinality(After(q, r)) <= Cardinality(After(p, r)')
      <4>1. After(q, r) \in SUBSET Writers /\ After(p, r)' \in SUBSET Writers
        BY AfterIn
      <4> QED
        BY <3>5, <4>1, AfterIn, Grows
    <3>7. Fresh(r, q)
      BY <1>1, <2>1, <3>1
    <3> QED
      BY <1>1, <2>1, <3>1, <3>3, <3>6, <3>7
  <2> QED
    BY <2>2, <2>3
<1>13. CASE UNCHANGED <<writes, tally, model, thread>>
  <2>1. After(p, r)' = After(p, r) /\ Counting(r)' = Counting(r)
    BY <1>13 DEF After, Later, Counting, Row
  <2> QED
    BY <1>3, <1>13, <2>1
<1> QED
  BY <1>6, <1>7, <1>8, <1>9, <1>10, <1>11, <1>12, <1>13, StepKinds
  DEF Commits, Goes, Records, Looks, Resets, Leaves

(* What each step adds to the counter of a row, against who is on the way. *)
LEMMA SweepsStep ==
    ASSUME Typed, LooksAreFresh, BootstrapSweeps, [Next]_vars
    PROVE  BootstrapSweeps'
<1> SUFFICES ASSUME model' = Models!NoModel, NEW r \in Rows
             PROVE  writes'[r] < Bootstrap[r] + Cardinality(Counting(r)')
  BY DEF BootstrapSweeps
<1> DEFINE Goal == writes'[r] < Bootstrap[r] + Cardinality(Counting(r)')
<1>1. Counting(r) \in SUBSET Writers /\ Counting(r)' \in SUBSET Writers
  BY DEF Counting
<1>2. Cardinality(Counting(r)) \in Nat /\ Cardinality(Counting(r)') \in Nat
  <2>1. ASSUME NEW T \in SUBSET Writers PROVE Cardinality(T) \in Nat
    BY Counts
  <2> QED
    BY <1>1, <2>1
<1>3. writes[r] \in Nat /\ Bootstrap[r] \in Nat \ {0}
  BY RetentionAssumption DEF Typed
<1>4. model = Models!NoModel => writes[r] < Bootstrap[r] + Cardinality(Counting(r))
  BY DEF BootstrapSweeps
(* Nobody leaves the way to r, and the counter stands still. *)
<1>5. ASSUME NEW q \in Writers \cup Readers, Only(q), model = Models!NoModel,
             writes'[r] = writes[r], q \in Counting(r) => q \in Counting(r)'
      PROVE  Goal
  <2>1. \A u \in Writers \ {q} : u \in Counting(r)' <=> u \in Counting(r)
    BY <1>5, CountingOthers
  <2>2. Counting(r) \subseteq Counting(r)'
    BY <1>1, <1>5, <2>1
  <2>3. Cardinality(Counting(r)) <= Cardinality(Counting(r)')
    BY <1>1, <2>2, Grows
  <2> QED
    BY <1>2, <1>3, <1>4, <1>5, <2>3
<1>6. ASSUME NEW q \in Writers \cup Readers, Outside(q) PROVE Goal
  <2>1. Only(q) /\ q \notin Counting(r) /\ UNCHANGED <<writes, model>>
    BY <1>6 DEF Outside, Counting
  <2> QED
    BY <1>5, <2>1
<1>7. ASSUME NEW q \in Writers, Commits(q) PROVE Goal
  <2>1. Only(q) /\ q \notin Counting(r) /\ UNCHANGED <<writes, model>>
    BY <1>7 DEF Commits, Stays, Counting
  <2> QED
    BY <1>5, <2>1
<1>8. ASSUME NEW q \in Writers, Goes(q) \/ Looks(q) PROVE Goal
  <2>1. Only(q) /\ UNCHANGED <<writes, model>>
    BY <1>8 DEF Goes, Looks, Stays
  <2>2. q \in Counting(r) => q \in Counting(r)'
    BY <1>8 DEF Goes, Looks, Stays, Counting, Row
  <2> QED
    BY <1>5, <2>1, <2>2
<1>9. ASSUME NEW q \in Writers, Records(q) PROVE Goal
  <2>1. Only(q) /\ model' = model /\ q \notin Counting(r)
    BY <1>9 DEF Records, Stays, Counting
  <2>2. CASE r = Row(q)
    <3>1. q \in Counting(r)'
      BY <1>9, <2>2 DEF Records, Stays, Counting, Row
    <3>2. \A u \in Writers \ {q} : u \in Counting(r)' <=> u \in Counting(r)
      BY <2>1, CountingOthers
    <3>3. Counting(r)' \subseteq Counting(r) \cup {q} /\ Counting(r) \cup {q} \subseteq Counting(r)'
      BY <1>1, <3>1, <3>2
    <3>4. Counting(r)' = Counting(r) \cup {q}
      BY <3>3
    <3>5. Cardinality(Counting(r)') = Cardinality(Counting(r)) + 1
      BY <1>1, <2>1, <3>4, Grows
    <3>6. writes'[r] = writes[r] + 1
      BY <1>9, <2>2 DEF Records, Typed
    <3> QED
      BY <1>2, <1>3, <1>4, <2>1, <3>5, <3>6
  <2>3. CASE r # Row(q)
    <3>1. writes'[r] = writes[r]
      BY <1>9, <2>3 DEF Records, Typed
    <3> QED
      BY <1>5, <2>1, <3>1
  <2> QED
    BY <2>2, <2>3
<1>10. ASSUME NEW q \in Writers, Resets(q) PROVE Goal
  <2>1. Only(q) /\ model' = model
    BY <1>10 DEF Resets, Stays
  <2>2. CASE r = Row(q)
    <3>1. writes'[r] = 0
      BY <1>10, <2>2 DEF Resets, Typed
    <3> QED
      BY <1>2, <1>3, <3>1
  <2>3. CASE r # Row(q)
    <3>1. writes'[r] = writes[r] /\ q \notin Counting(r)
      BY <1>10, <2>3 DEF Resets, Typed, Counting
    <3> QED
      BY <1>5, <2>1, <3>1
  <2> QED
    BY <2>2, <2>3
<1>11. ASSUME NEW q \in Writers, Leaves(q) PROVE Goal
  <2>1. Only(q) /\ writes' = writes /\ model = Models!NoModel
    BY <1>11 DEF Leaves
  <2>2. CASE q \notin Counting(r)
    BY <1>5, <2>1, <2>2
  <2>3. CASE q \in Counting(r)
    <3>1. thread[q].at = "decide" /\ r = Row(q) /\ thread[q].seen < Bootstrap[r]
      BY <1>11, <2>1, <2>3 DEF Leaves, Counting
    <3>2. thread[q].seen \in Nat
      BY <3>1 DEF Typed
    <3>3. \/ writes[r] <= thread[q].seen + Cardinality(After(q, r))
          \/ writes[r] < Bootstrap[r] + Cardinality(After(q, r))
      BY <2>1, <2>3, <3>1 DEF LooksAreFresh
    <3>4. After(q, r) \subseteq Counting(r)'
      <4>1. \A u \in Writers \ {q} : u \in Counting(r)' <=> u \in Counting(r)
        BY <2>1, CountingOthers
      <4> QED
        BY <1>1, <4>1, AfterIn
    <3>5. /\ Cardinality(After(q, r)) \in Nat
          /\ Cardinality(After(q, r)) <= Cardinality(Counting(r)')
      BY <1>1, <3>4, AfterIn, Grows
    <3> QED
      BY <1>2, <1>3, <2>1, <3>1, <3>2, <3>3, <3>5
  <2> QED
    BY <2>2, <2>3
<1>12. CASE UNCHANGED <<writes, tally, model, thread>>
  <2>1. Counting(r)' = Counting(r) /\ writes' = writes /\ model = Models!NoModel
    BY <1>12 DEF Counting, Row
  <2> QED
    BY <1>4, <2>1
<1> QED
  BY <1>6, <1>7, <1>8, <1>9, <1>10, <1>11, <1>12, StepKinds
  DEF Commits, Goes, Records, Looks, Resets, Leaves

------------------------------------------------------------------------------
LEMMA InitCounts ==
    ASSUME Init
    PROVE  LooksAreFresh /\ BootstrapSweeps /\ EveryWriteIsCountedOnce /\ FewUnrecorded
<1>1. \A p \in Writers : thread[p].at = "idle"
  BY DEF Init, Idle
<1>2. ASSUME NEW r \in Rows PROVE Counting(r) = {} /\ Unrecorded(r) = {}
  BY <1>1, UnrecordedIs DEF Counting, Awaiting
<1>3. Cardinality({}) = 0 /\ IsFiniteSet({})
  BY FS_EmptySet
<1>4. LooksAreFresh
  BY <1>2 DEF LooksAreFresh
<1>5. BootstrapSweeps
  <2>1. \A r \in Rows : writes[r] = 0 /\ Bootstrap[r] \in Nat \ {0}
    BY RetentionAssumption DEF Init
  <2> QED
    BY <1>2, <1>3, <2>1 DEF BootstrapSweeps
<1>6. EveryWriteIsCountedOnce
  <2>1. \A r \in Rows : writes[r] = 0 /\ tally[r].commits = 0 /\ tally[r].counted = 0
    BY DEF Init
  <2> QED
    BY <1>2, <1>3, <2>1 DEF EveryWriteIsCountedOnce
<1> QED
  BY <1>2, <1>3, <1>4, <1>5, <1>6 DEF FewUnrecorded

LEMMA Invariant ==
    Spec => [](/\ Typed /\ LooksAreFresh /\ BootstrapSweeps
               /\ EveryWriteIsCountedOnce /\ FewUnrecorded)
<1> DEFINE Inv == /\ Typed /\ LooksAreFresh /\ BootstrapSweeps
                  /\ EveryWriteIsCountedOnce /\ FewUnrecorded
<1>1. Init => Inv
  BY InitTyped, InitCounts
<1>2. Inv /\ [Next]_vars => Inv'
  BY TypedStep, LooksStep, SweepsStep, CountedStep
<1> QED
  BY <1>1, <1>2, PTL DEF Spec

(* Every committed write is in its row's counter, in one prune sample or on
   its way there: record_write and record_prune_result, each under the
   counters' mutex, neither lose nor repeat one, whoever sweeps in between. *)
THEOREM WritesAreCounted == Spec => []EveryWriteIsCountedOnce
BY Invariant, PTL

(* Before a model exists should_prune's fallback never starves a row: its
   counter stays under the bootstrap interval but for the writers that have
   yet to decide, though each decides on a count another may have outdated. *)
THEOREM BootstrapNeverStarves == Spec => []BootstrapSweeps
BY Invariant, PTL
=============================================================================
