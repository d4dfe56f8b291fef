-------------------------- MODULE LockManagerProofs --------------------------
(***************************************************************************)
(* Proofs about LockManager for any set of transactions and keys.          *)
(* Type correctness, the agreement of the two maps and the honesty of the  *)
(* queues are proved for every set of modes; mutual exclusion, the absence *)
(* of lost wake-ups and the refinement of RowLock for exclusive requests,  *)
(* the only ones OLTPEngine makes (with S they are false, see the runs).   *)
(***************************************************************************)
EXTENDS LockManager, TLAPS

(* Type correctness is inductive by itself. *)
THEOREM TypeCorrect == Spec => []TypeOK
<1>1. Init => TypeOK
  BY DEF Init, TypeOK, Request, NoRequest
<1>2. TypeOK /\ [Next]_vars => TypeOK'
  <2> SUFFICES ASSUME TypeOK, [Next]_vars PROVE TypeOK'
    OBVIOUS
  <2> USE DEF TypeOK
  <2>1. ASSUME NEW t \in Tx, NEW k \in Key, NEW m \in Mode, Call(t, k, m)
        PROVE  TypeOK'
    BY <2>1 DEF Call, Request
  <2>2. ASSUME NEW t \in Tx, Grant(t) PROVE TypeOK'
    <3>1. req[t].key \in Key /\ req[t].mode \in Mode
      BY <2>2 DEF Grant, Request
    <3>2. GrantedMode(t, req[t].key, req[t].mode) \in Mode \cup {None}
      BY <3>1 DEF GrantedMode
    <3> QED
      BY <2>2, <3>1, <3>2 DEF Grant, TouchEntry, LeaveQueue, Return
  <2>3. ASSUME NEW t \in Tx, Queue(t) PROVE TypeOK'
    <3>1. req[t].key \in Key /\ req[t].mode \in Mode
      BY <2>3 DEF Queue, Request
    <3> QED
      BY <2>3, <3>1 DEF Queue, TouchEntry
  <2>4. ASSUME NEW t \in Tx, GiveUp(t) PROVE TypeOK'
    <3>1. req[t].key \in Key /\ req[t].mode \in Mode
      BY <2>4 DEF GiveUp, Request
    <3> QED
      BY <2>4, <3>1 DEF GiveUp, TouchEntry, LeaveQueue, Return
  <2>5. ASSUME NEW t \in Tx, DeadlinePasses(t) PROVE TypeOK'
    BY <2>5 DEF DeadlinePasses
  <2>6. ASSUME NEW t \in Tx, TimerFires(t) PROVE TypeOK'
    BY <2>6 DEF TimerFires
  <2>7. ASSUME NEW t \in Tx, ReleaseAll(t) PROVE TypeOK'
    BY <2>7 DEF ReleaseAll, NotifyAll
  <2>8. CASE UNCHANGED vars
    BY <2>8 DEF vars
  <2> QED
    BY <2>1, <2>2, <2>3, <2>4, <2>5, <2>6, <2>7, <2>8 DEF Next, Step
<1> QED
  BY <1>1, <1>2, PTL DEF Spec

------------------------------------------------------------------------------
(* The two maps agree and the queues are honest: neither needs the modes. *)
Bookkeeping == TypeOK /\ HeldByMatchesHolders /\ QueueIsLive

(* A request in progress names a key and a mode that is not None. *)
LEMMA RequestTyped ==
    ASSUME TypeOK, NEW t \in Tx, pc[t] # "idle"
    PROVE  req[t].key \in Key /\ req[t].mode \in Mode /\ req[t].mode # None
           /\ req[t] = [key |-> req[t].key, mode |-> req[t].mode]
BY ModeAssumption DEF TypeOK, Request, None

(* What release_all does to one row: t's holding disappears, the others
   stay, and the entry of a row somebody holds or waits for survives. *)
LEMMA ReleaseAllEffect ==
    ASSUME Bookkeeping, NEW t \in Tx, ReleaseAll(t)
    PROVE  /\ \A k \in Key : holders'[k] = [holders[k] EXCEPT ![t] = None]
           /\ heldBy' = [heldBy EXCEPT ![t] = {}]
           /\ waiters' = waiters /\ req' = req
           /\ pc[t] = "idle"
           /\ \A u \in Tx : (pc'[u] = "idle") <=> (pc[u] = "idle")
           /\ \A k \in entries : k \notin entries' =>
                 \A u \in Tx : holders'[k][u] = None /\ waiters[k][u] = None
<1> DEFINE removed == {k \in heldBy[t] \cap entries : Holds(t, k)}
<1>1. removed = heldBy[t] /\ \A k \in Key : k \notin heldBy[t] => holders[k][t] = None
  BY DEF Bookkeeping, HeldByMatchesHolders, Holds, TypeOK
<1>2. \A k \in Key : holders'[k] = [holders[k] EXCEPT ![t] = None]
  <2> SUFFICES ASSUME NEW k \in Key PROVE holders'[k] = [holders[k] EXCEPT ![t] = None]
    OBVIOUS
  <2>1. CASE k \in removed
    BY <2>1 DEF ReleaseAll
  <2>2. CASE k \notin removed
    <3>1. holders[k][t] = None /\ holders[k] \in [Tx -> Mode \cup {None}]
      BY <1>1, <2>2 DEF Bookkeeping, TypeOK
    <3>2. [holders[k] EXCEPT ![t] = None] = holders[k]
      BY <3>1
    <3> QED
      BY <2>2, <3>2 DEF ReleaseAll
  <2> QED
    BY <2>1, <2>2
<1>3. \A k \in entries : k \notin entries' =>
         \A u \in Tx : holders'[k][u] = None /\ waiters[k][u] = None
  BY DEF ReleaseAll, WaitersOf, IsWaiter, Bookkeeping, TypeOK
<1>4. \A u \in Tx : (pc'[u] = "idle") <=> (pc[u] = "idle")
  BY DEF ReleaseAll, NotifyAll, Bookkeeping, TypeOK
<1> QED
  BY <1>2, <1>3, <1>4 DEF ReleaseAll

LEMMA BookkeepingStep == Bookkeeping /\ TypeOK' /\ [Next]_vars => Bookkeeping'
<1> SUFFICES ASSUME Bookkeeping, TypeOK', [Next]_vars
             PROVE  HeldByMatchesHolders' /\ QueueIsLive'
  BY DEF Bookkeeping
<1> USE DEF Holds, IsWaiter
<1>1. ASSUME NEW t \in Tx, NEW k \in Key, NEW m \in Mode, Call(t, k, m)
      PROVE  HeldByMatchesHolders' /\ QueueIsLive'
  BY <1>1 DEF Call, Bookkeeping, TypeOK, HeldByMatchesHolders, QueueIsLive
<1>2. ASSUME NEW t \in Tx, Grant(t) PROVE HeldByMatchesHolders' /\ QueueIsLive'
  <2>1. req[t].key \in Key /\ req[t].mode \in Mode /\ req[t].mode # None
    BY <1>2, RequestTyped DEF Grant, Bookkeeping
  <2>2. GrantedMode(t, req[t].key, req[t].mode) # None
    BY <2>1 DEF GrantedMode
  <2>3. HeldByMatchesHolders'
    BY <1>2, <2>1, <2>2 DEF Grant, TouchEntry, Bookkeeping, TypeOK, HeldByMatchesHolders
  <2>4. QueueIsLive'
    BY <1>2, <2>1 DEF Grant, TouchEntry, LeaveQueue, Return,
                      Bookkeeping, TypeOK, QueueIsLive
  <2> QED
    BY <2>3, <2>4
<1>3. ASSUME NEW t \in Tx, Queue(t) PROVE HeldByMatchesHolders' /\ QueueIsLive'
  <2>1. req[t].key \in Key /\ req[t].mode \in Mode /\ req[t].mode # None
        /\ req[t] = [key |-> req[t].key, mode |-> req[t].mode]
    BY <1>3, RequestTyped DEF Queue, Bookkeeping
  <2>2. HeldByMatchesHolders'
    BY <1>3, <2>1 DEF Queue, TouchEntry, Bookkeeping, TypeOK, HeldByMatchesHolders
  <2>3. QueueIsLive'
    BY <1>3, <2>1 DEF Queue, TouchEntry, Bookkeeping, TypeOK, QueueIsLive
  <2> QED
    BY <2>2, <2>3
<1>4. ASSUME NEW t \in Tx, GiveUp(t) PROVE HeldByMatchesHolders' /\ QueueIsLive'
  <2>1. req[t].key \in Key /\ req[t].mode \in Mode
    BY <1>4, RequestTyped DEF GiveUp, Bookkeeping
  <2> QED
    BY <1>4, <2>1 DEF GiveUp, TouchEntry, LeaveQueue, Return, Bookkeeping, TypeOK,
                      HeldByMatchesHolders, QueueIsLive
<1>5. ASSUME NEW t \in Tx, DeadlinePasses(t)
      PROVE  HeldByMatchesHolders' /\ QueueIsLive'
  BY <1>5 DEF DeadlinePasses, Bookkeeping, HeldByMatchesHolders, QueueIsLive
<1>6. ASSUME NEW t \in Tx, TimerFires(t) PROVE HeldByMatchesHolders' /\ QueueIsLive'
  BY <1>6 DEF TimerFires, Bookkeeping, TypeOK, HeldByMatchesHolders, QueueIsLive
<1>7. ASSUME NEW t \in Tx, ReleaseAll(t) PROVE HeldByMatchesHolders' /\ QueueIsLive'
  <2>1. HeldByMatchesHolders'
    BY <1>7, ReleaseAllEffect DEF Bookkeeping, TypeOK, HeldByMatchesHolders
  <2>2. QueueIsLive'
    BY <1>7, ReleaseAllEffect DEF Bookkeeping, TypeOK, QueueIsLive
  <2> QED
    BY <2>1, <2>2
<1>8. CASE UNCHANGED vars
  BY <1>8 DEF vars, Bookkeeping, HeldByMatchesHolders, QueueIsLive
<1> QED
  BY <1>1, <1>2, <1>3, <1>4, <1>5, <1>6, <1>7, <1>8 DEF Next, Step

(* held_by and the entries always name the same holdings, so release_all,
   which reads only held_by, frees everything a transaction holds. *)
THEOREM HeldByCorrect == Spec => [](HeldByMatchesHolders /\ QueueIsLive)
<1>1. Init => Bookkeeping
  BY DEF Init, Bookkeeping, TypeOK, HeldByMatchesHolders, QueueIsLive,
         Holds, IsWaiter, Request, NoRequest
<1>2. TypeOK /\ TypeOK' /\ Bookkeeping /\ [Next]_vars => Bookkeeping'
  BY BookkeepingStep
<1>3. Bookkeeping => HeldByMatchesHolders /\ QueueIsLive
  BY DEF Bookkeeping
<1> QED
  BY <1>1, <1>2, <1>3, TypeCorrect, PTL DEF Spec

------------------------------------------------------------------------------
(* Exclusive requests only, as OLTPEngine::write makes them. *)
OneHolder == \A k \in Key : \A t, u \in Tx : Holds(t, k) /\ Holds(u, k) => t = u

ExclusiveInv == Bookkeeping /\ OneHolder /\ NoLostWakeup

LEMMA OneHolderStep ==
    ASSUME Mode = {"X"}, Bookkeeping, OneHolder, [Next]_vars
    PROVE  OneHolder'
<1> USE DEF OneHolder, Holds
<1>1. ASSUME NEW t \in Tx, Grant(t) PROVE OneHolder'
  <2>1. req[t].key \in Key /\ req[t].mode = "X"
    BY <1>1, RequestTyped DEF Grant, Bookkeeping
  <2>2. CanGrant(t, req[t].key, "X")
    BY <1>1, <2>1 DEF Grant
  <2>3. \A u \in Tx : u # t => holders[req[t].key][u] = None
    BY <2>1, <2>2 DEF CanGrant, HoldersOf
  <2>4. \A k \in Key, u \in Tx :
           k # req[t].key \/ u # t => holders'[k][u] = holders[k][u]
    BY <1>1, <2>1 DEF Grant, Bookkeeping, TypeOK
  <2> QED
    <3> SUFFICES ASSUME NEW k \in Key, NEW u \in Tx, NEW v \in Tx,
                        Holds(u, k)', Holds(v, k)'
                 PROVE  u = v
      OBVIOUS
    <3>1. CASE k = req[t].key
      BY <3>1, <2>3, <2>4
    <3>2. CASE k # req[t].key
      BY <3>2, <2>4
    <3> QED
      BY <3>1, <3>2
<1>2. ASSUME NEW t \in Tx, ReleaseAll(t) PROVE OneHolder'
  <2>1. \A k \in Key : holders'[k] = [holders[k] EXCEPT ![t] = None]
    BY <1>2, ReleaseAllEffect
  <2>2. \A k \in Key : holders[k] \in [Tx -> Mode \cup {None}]
    BY DEF Bookkeeping, TypeOK
  <2> SUFFICES ASSUME NEW k \in Key, NEW u \in Tx, Holds(u, k)'
               PROVE  Holds(u, k)
    OBVIOUS
  <2>3. holders'[k][u] = IF u = t THEN None ELSE holders[k][u]
    BY <2>1, <2>2
  <2> QED
    BY <2>3
<1>3. ASSUME UNCHANGED holders PROVE OneHolder'
  BY <1>3
<1> QED
  BY <1>1, <1>2, <1>3 DEF Next, Step, Call, Queue, GiveUp, DeadlinePasses, TimerFires, vars

(* Only the holder's own release_all empties a row, and it wakes everybody. *)
LEMMA NoLostWakeupStep ==
    ASSUME Mode = {"X"}, Bookkeeping, NoLostWakeup, [Next]_vars
    PROVE  NoLostWakeup'
<1>1. \A t \in Tx, k \in Key : CanGrant(t, k, "X") <=> Holds(t, k) \/ HoldersOf(k) = {}
  BY DEF CanGrant
<1>2. \A t \in Tx : pc[t] = "waiting" => req[t].key \in Key /\ req[t].mode = "X"
  BY RequestTyped DEF Bookkeeping
<1>3. ASSUME NEW t \in Tx, NEW k \in Key, NEW m \in Mode, Call(t, k, m)
      PROVE  NoLostWakeup'
  BY <1>3 DEF Call, NoLostWakeup, CanGrant, Holds, HoldersOf, Bookkeeping, TypeOK
<1>4. ASSUME NEW t \in Tx, Grant(t) PROVE NoLostWakeup'
  <2>1. req[t].key \in Key /\ req[t].mode = "X"
    BY <1>4, RequestTyped DEF Grant, Bookkeeping
  <2> SUFFICES ASSUME NEW u \in Tx, pc'[u] = "waiting"
               PROVE  ~ CanGrant(u, req[u].key, req[u].mode)'
    BY DEF NoLostWakeup
  <2>2. u # t /\ pc[u] = "waiting" /\ req'[u] = req[u]
    BY <1>4 DEF Grant, Return, Bookkeeping, TypeOK
  <2>3. req[u].key \in Key /\ req[u].mode = "X"
        /\ ~ Holds(u, req[u].key) /\ HoldersOf(req[u].key) # {}
    BY <1>1, <1>2, <2>2 DEF NoLostWakeup
  <2>4. ~ Holds(u, req[u].key)' /\ \A v \in Tx : Holds(v, req[u].key) => Holds(v, req[u].key)'
    BY <1>4, <2>1, <2>2, <2>3 DEF Grant, Holds, GrantedMode, Bookkeeping, TypeOK, None
  <2> QED
    BY <2>2, <2>3, <2>4 DEF CanGrant, HoldersOf
<1>5. ASSUME NEW t \in Tx, Queue(t) PROVE NoLostWakeup'
  <2>1. req[t].key \in Key /\ req[t].mode = "X"
    BY <1>5, RequestTyped DEF Queue, Bookkeeping
  <2> SUFFICES ASSUME NEW u \in Tx, pc'[u] = "waiting"
               PROVE  ~ CanGrant(u, req[u].key, req[u].mode)'
    BY DEF NoLostWakeup
  <2>2. req' = req /\ holders' = holders /\ (pc[u] = "waiting" \/ u = t)
    BY <1>5 DEF Queue, Bookkeeping, TypeOK
  <2>3. req[u].mode = "X" /\ ~ Holds(u, req[u].key) /\ HoldersOf(req[u].key) # {}
    BY <1>1, <1>2, <1>5, <2>1, <2>2 DEF Queue, NoLostWakeup
  <2> QED
    BY <2>2, <2>3 DEF CanGrant, HoldersOf, Holds
<1>6. ASSUME NEW t \in Tx, GiveUp(t) PROVE NoLostWakeup'
  <2> SUFFICES ASSUME NEW u \in Tx, pc'[u] = "waiting"
               PROVE  ~ CanGrant(u, req[u].key, req[u].mode)'
    BY DEF NoLostWakeup
  <2>1. pc[u] = "waiting" /\ req'[u] = req[u] /\ holders' = holders
    BY <1>6 DEF GiveUp, Return, Bookkeeping, TypeOK
  <2>2. req[u].mode = "X" /\ ~ Holds(u, req[u].key) /\ HoldersOf(req[u].key) # {}
    BY <1>1, <1>2, <2>1 DEF NoLostWakeup
  <2> QED
    BY <2>1, <2>2 DEF CanGrant, HoldersOf, Holds
<1>7. ASSUME NEW t \in Tx, DeadlinePasses(t) \/ TimerFires(t) PROVE NoLostWakeup'
  BY <1>7 DEF DeadlinePasses, TimerFires, NoLostWakeup, CanGrant, Holds, HoldersOf,
              Bookkeeping, TypeOK
<1>8. ASSUME NEW t \in Tx, ReleaseAll(t) PROVE NoLostWakeup'
  <2> SUFFICES ASSUME NEW u \in Tx, pc'[u] = "waiting"
               PROVE  ~ CanGrant(u, req[u].key, req[u].mode)'
    BY DEF NoLostWakeup
  <2> DEFINE removed == {k \in heldBy[t] \cap entries : Holds(t, k)}
  <2>1. removed = {}
    BY <1>8 DEF ReleaseAll, NotifyAll, Bookkeeping, TypeOK
  <2>2. holders' = holders /\ waiters' = waiters /\ pc' = pc /\ req' = req
    BY <1>8, <2>1 DEF ReleaseAll, Bookkeeping, TypeOK
  <2> QED
    BY <2>2 DEF NoLostWakeup, CanGrant, Holds, HoldersOf
<1>9. CASE UNCHANGED vars
  BY <1>9 DEF vars, NoLostWakeup, CanGrant, Holds, HoldersOf
<1> QED
  BY <1>3, <1>4, <1>5, <1>6, <1>7, <1>8, <1>9 DEF Next, Step

LEMMA ExclusiveInvariant == ASSUME Mode = {"X"} PROVE Spec => []ExclusiveInv
<1>1. Init => ExclusiveInv
  BY DEF Init, ExclusiveInv, Bookkeeping, TypeOK, HeldByMatchesHolders, QueueIsLive,
         OneHolder, NoLostWakeup, Holds, IsWaiter, Request, NoRequest
<1>2. ExclusiveInv /\ TypeOK' /\ [Next]_vars => ExclusiveInv'
  BY BookkeepingStep, OneHolderStep, NoLostWakeupStep DEF ExclusiveInv
<1> QED
  BY <1>1, <1>2, TypeCorrect, PTL DEF Spec

(* Two transactions never hold the same row when every request is X. *)
THEOREM MutualExclusion == ASSUME Mode = {"X"} PROVE Spec => []Compatible
<1>1. ExclusiveInv => Compatible
  BY DEF ExclusiveInv, OneHolder, Holds, Compatible, None
<1> QED
  BY <1>1, ExclusiveInvariant, PTL

(* No writer sleeps on a row that nobody holds. *)
THEOREM WakeupsAreNotLost == ASSUME Mode = {"X"} PROVE Spec => []NoLostWakeup
<1>1. ExclusiveInv => NoLostWakeup
  BY DEF ExclusiveInv
<1> QED
  BY <1>1, ExclusiveInvariant, PTL

------------------------------------------------------------------------------
(* The owner that the refinement mapping reads off the holders. *)
LEMMA OwnerIsTheHolder ==
    ASSUME OneHolder, NEW k \in Key
    PROVE  /\ \A t \in Tx : Holds(t, k) => OwnerOf(k) = t
           /\ (\A t \in Tx : ~ Holds(t, k)) => OwnerOf(k) = None
BY DEF OneHolder, OwnerOf, HoldersOf

LEMMA GrantAcquires ==
    ASSUME Mode = {"X"}, ExclusiveInv, ExclusiveInv', NEW t \in Tx, Grant(t)
    PROVE  Abstract!Acquire(t, req[t].key)
<1> SUFFICES ASSUME NEW k \in Key, k = req[t].key, req[t].mode = "X"
             PROVE  Abstract!Acquire(t, k)
  BY RequestTyped DEF Grant, ExclusiveInv, Bookkeeping
<1>1. k \in Key /\ req[t].mode = "X"
  OBVIOUS
<1>2. CanGrant(t, k, "X")
  BY <1>1 DEF Grant
<1>3. OwnerOf(k) \in {None, t}
  BY <1>1, <1>2, OwnerIsTheHolder DEF CanGrant, HoldersOf, ExclusiveInv
<1>4. OwnerOf(k)' = t
  <2>1. Holds(t, k)'
    BY <1>1 DEF Grant, Holds, GrantedMode, ExclusiveInv, Bookkeeping, TypeOK, None
  <2>2. OneHolder'
    BY DEF ExclusiveInv
  <2> QED
    BY <1>1, <2>1, <2>2 DEF OwnerOf, HoldersOf, OneHolder
<1>5. ASSUME NEW j \in Key, j # k PROVE OwnerOf(j)' = OwnerOf(j)
  <2>1. holders'[j] = holders[j]
    BY <1>1, <1>5 DEF Grant, ExclusiveInv, Bookkeeping, TypeOK
  <2> QED
    BY <2>1 DEF OwnerOf, HoldersOf, Holds
<1>6. [j \in Key |-> OwnerOf(j)]' = [[j \in Key |-> OwnerOf(j)] EXCEPT ![k] = t]
  <2> DEFINE f == [j \in Key |-> OwnerOf(j)]
             g == [j \in Key |-> OwnerOf(j)']
  <2>1. \A j \in Key : g[j] = [f EXCEPT ![k] = t][j]
    BY <1>1, <1>4, <1>5
  <2>2. g = [f EXCEPT ![k] = t]
    BY <2>1
  <2> QED
    BY <2>2
<1>7. [j \in Key |-> OwnerOf(j)][k] \in {None, t}
  BY <1>1, <1>3
<1> QED
  BY <1>6, <1>7 DEF Abstract!Acquire

LEMMA ReleaseAllReleases ==
    ASSUME Mode = {"X"}, ExclusiveInv, ExclusiveInv', NEW t \in Tx, ReleaseAll(t)
    PROVE  Abstract!ReleaseAll(t)
<1>1. ASSUME NEW k \in Key
      PROVE  OwnerOf(k)' = IF OwnerOf(k) = t THEN None ELSE OwnerOf(k)
  <2>1. holders'[k] = [holders[k] EXCEPT ![t] = None]
        /\ holders[k] \in [Tx -> Mode \cup {None}]
    BY ReleaseAllEffect DEF ExclusiveInv, Bookkeeping, TypeOK
  <2>2. OneHolder /\ OneHolder'
    BY DEF ExclusiveInv
  <2>3. CASE Holds(t, k)
    <3>1. OwnerOf(k) = t
      BY <2>2, <2>3, OwnerIsTheHolder
    <3>2. \A u \in Tx : ~ Holds(u, k)'
      BY <2>1, <2>2, <2>3 DEF OneHolder, Holds
    <3>3. OwnerOf(k)' = None
      BY <3>2 DEF OwnerOf, HoldersOf
    <3> QED
      BY <3>1, <3>3
  <2>4. CASE ~ Holds(t, k)
    <3>1. holders'[k] = holders[k]
      BY <2>1, <2>4 DEF Holds
    <3>2. OwnerOf(k)' = OwnerOf(k)
      BY <3>1 DEF OwnerOf, HoldersOf, Holds
    <3>3. OwnerOf(k) # t
      BY <2>4, TxAssumption DEF OwnerOf, HoldersOf
    <3> QED
      BY <3>2, <3>3
  <2> QED
    BY <2>3, <2>4
<1> QED
  BY <1>1 DEF Abstract!ReleaseAll

(* With exclusive requests the manager, its queues, timeouts and wake-ups
   included, implements the abstract row locks the engine is built on. *)
THEOREM RowLockRefinement == ASSUME Mode = {"X"} PROVE Spec => ImplementsRowLock
<1>1. Init => Abstract!Init
  BY DEF Init, Abstract!Init, OwnerOf, HoldersOf, Holds
<1>2. ASSUME ExclusiveInv, ExclusiveInv', [Next]_vars
      PROVE  [Abstract!Next]_([k \in Key |-> OwnerOf(k)])
  <2>1. ASSUME NEW t \in Tx, Grant(t) PROVE Abstract!Next
    <3>1. req[t].key \in Key
      BY <1>2, <2>1, RequestTyped DEF Grant, ExclusiveInv, Bookkeeping
    <3> QED
      BY <1>2, <2>1, <3>1, GrantAcquires DEF Abstract!Next
  <2>2. ASSUME NEW t \in Tx, ReleaseAll(t) PROVE Abstract!Next
    BY <1>2, <2>2, ReleaseAllReleases DEF Abstract!Next
  <2>3. ASSUME UNCHANGED holders PROVE UNCHANGED [k \in Key |-> OwnerOf(k)]
    BY <2>3 DEF OwnerOf, HoldersOf, Holds
  <2> QED
    BY <1>2, <2>1, <2>2, <2>3
    DEF Next, Step, Call, Queue, GiveUp, DeadlinePasses, TimerFires, vars
<1> QED
  BY <1>1, <1>2, ExclusiveInvariant, PTL DEF Spec, ImplementsRowLock, Abstract!Spec
==============================================================================
