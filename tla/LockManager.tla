----------------------------- MODULE LockManager -----------------------------
(***************************************************************************)
(* The row-level two-phase lock manager, src/src/execution/lock_manager.rs.*)
(*                                                                         *)
(* One mutex guards `entries` and `held_by`, one condition variable is     *)
(* shared by every waiter of every row.  A critical section of the code is *)
(* one action; a transaction is driven by one thread, whose place in       *)
(* `acquire` is pc[t]:                                                     *)
(*   idle      not inside acquire                                          *)
(*   trying    at the head of the loop, or woken and about to retake the   *)
(*             mutex: the next step is one iteration of the loop           *)
(*   waiting   parked in condvar.wait_for                                  *)
(*   timedOut  wait_for returned with timed_out(), about to retake the     *)
(*             mutex; a notification no longer reaches it                  *)
(* The order of the `holders` and `waiters` vectors is never read by the   *)
(* code (it looks entries up by id, and asks all/any), and each holds a    *)
(* transaction at most once, so each is a function from transactions to    *)
(* the mode, or None.                                                      *)
(***************************************************************************)
EXTENDS FiniteSets

CONSTANTS Tx,     \* transaction ids
          Key,    \* lock keys (table_id, row_id)
          Mode    \* the modes callers ask for: {"X"} is what OLTPEngine uses,
                  \* {"S", "X"} is the whole public interface

None == "none"

ASSUME ModeAssumption == Mode \subseteq {"S", "X"}
ASSUME TxAssumption == None \notin Tx

VARIABLES
    entries,   \* the keys that have a LockEntry in the `entries` map
    holders,   \* holders[k][t]: the mode t holds k in, or None
    waiters,   \* waiters[k][t]: the mode t is queued for on k, or None
    heldBy,    \* heldBy[t]: the keys recorded under t in `held_by`
    pc,        \* where t's thread is
    req,       \* req[t]: the key and mode of t's latest acquire
    expired    \* expired[t]: the deadline of t's acquire has passed

vars == <<entries, holders, waiters, heldBy, pc, req, expired>>

NoRequest == [key |-> None, mode |-> None]
Request == [key : Key, mode : Mode]

Holds(t, k)     == holders[k][t] # None
IsWaiter(t, k)  == waiters[k][t] # None
HoldersOf(k)    == {t \in Tx : Holds(t, k)}
WaitersOf(k)    == {t \in Tx : IsWaiter(t, k)}

TypeOK ==
    /\ entries \subseteq Key
    /\ holders \in [Key -> [Tx -> Mode \cup {None}]]
    /\ waiters \in [Key -> [Tx -> Mode \cup {None}]]
    /\ heldBy \in [Tx -> SUBSET Key]
    /\ pc \in [Tx -> {"idle", "trying", "waiting", "timedOut"}]
    /\ req \in [Tx -> Request \cup {NoRequest}]
    /\ \A t \in Tx : pc[t] # "idle" => req[t] \in Request
    /\ expired \in [Tx -> BOOLEAN]

Init ==
    /\ entries = {}
    /\ holders = [k \in Key |-> [t \in Tx |-> None]]
    /\ waiters = [k \in Key |-> [t \in Tx |-> None]]
    /\ heldBy = [t \in Tx |-> {}]
    /\ pc = [t \in Tx |-> "idle"]
    /\ req = [t \in Tx |-> NoRequest]
    /\ expired = [t \in Tx |-> FALSE]

------------------------------------------------------------------------------
(* The operators whose names contain "_" are deliberate mistakes.  Each stands
   before the definition it can replace, and shows that a property notices:
   the specification itself never uses them. *)
CanGrant_IgnoresHolders(t, k, m) == m = "X" \/ Holds(t, k)

(* LockEntry::can_grant.  A holder is always granted; S needs every holder
   and every waiter to be S; X needs no holder at all and ignores the queue. *)
CanGrant(t, k, m) ==
    \/ Holds(t, k)
    \/ /\ m = "S"
       /\ \A u \in Tx : holders[k][u] # "X" /\ waiters[k][u] # "X"
    \/ /\ m = "X"
       /\ HoldersOf(k) = {}

Call_KeepsOldRequest(t, k, m) ==
    /\ pc[t] = "idle"
    /\ pc' = [pc EXCEPT ![t] = "trying"]
    /\ UNCHANGED <<entries, holders, waiters, heldBy, req, expired>>

(* A caller enters acquire(t, k, m). *)
Call(t, k, m) ==
    /\ pc[t] = "idle"
    /\ pc' = [pc EXCEPT ![t] = "trying"]
    /\ req' = [req EXCEPT ![t] = [key |-> k, mode |-> m]]
    /\ expired' = [expired EXCEPT ![t] = FALSE]
    /\ UNCHANGED <<entries, holders, waiters, heldBy>>

(* Each iteration of the loop starts with entries.entry(key).or_default(). *)
TouchEntry(t) == entries' = entries \cup {req[t].key}

LeaveQueue(t) == waiters' = [waiters EXCEPT ![req[t].key][t] = None]

Return(t) == pc' = [pc EXCEPT ![t] = "idle"]

(* A holder that asks again for X has its mode overwritten in place, one
   that asks for S keeps its mode; held_by is touched only when t is new. *)
GrantedMode(t, k, m) == IF Holds(t, k) /\ m = "S" THEN holders[k][t] ELSE m

Grant(t) ==
    LET k == req[t].key  m == req[t].mode IN
    /\ pc[t] = "trying"
    /\ CanGrant(t, k, m)
    /\ TouchEntry(t)
    /\ holders' = [holders EXCEPT ![k][t] = GrantedMode(t, k, m)]
    /\ heldBy' = [heldBy EXCEPT ![t] = @ \cup {k}]
    /\ LeaveQueue(t)
    /\ Return(t)
    /\ UNCHANGED <<req, expired>>

(* Not grantable and time remains: queue once, then park. *)
Queue(t) ==
    LET k == req[t].key  m == req[t].mode IN
    /\ pc[t] = "trying"
    /\ ~ CanGrant(t, k, m)
    /\ ~ expired[t]
    /\ TouchEntry(t)
    /\ waiters' = [waiters EXCEPT ![k][t] = IF IsWaiter(t, k) THEN @ ELSE m]
    /\ pc' = [pc EXCEPT ![t] = "waiting"]
    /\ UNCHANGED <<holders, heldBy, req, expired>>

(* Both error returns: woken (or first tried) after the deadline with the
   row still not grantable, or wait_for timed out.  Nobody is notified, and
   the entry stays in the map even when it is left empty. *)
GiveUp(t) ==
    /\ \/ /\ pc[t] = "trying"
          /\ ~ CanGrant(t, req[t].key, req[t].mode)
          /\ expired[t]
       \/ pc[t] = "timedOut"
    /\ TouchEntry(t)
    /\ LeaveQueue(t)
    /\ Return(t)
    /\ UNCHANGED <<holders, heldBy, req, expired>>

(* Time passes: the 100 ms of t's acquire are over. *)
DeadlinePasses(t) ==
    /\ pc[t] \in {"trying", "waiting"}
    /\ ~ expired[t]
    /\ expired' = [expired EXCEPT ![t] = TRUE]
    /\ UNCHANGED <<entries, holders, waiters, heldBy, pc, req>>

TimerFires_Never(t) ==
    /\ pc[t] = "waiting" /\ FALSE
    /\ UNCHANGED vars

(* The timer of wait_for unparks t. *)
TimerFires(t) ==
    /\ pc[t] = "waiting"
    /\ expired[t]
    /\ pc' = [pc EXCEPT ![t] = "timedOut"]
    /\ UNCHANGED <<entries, holders, waiters, heldBy, req, expired>>

NotifyAll_NotifiesOne ==
    IF \E u \in Tx : pc[u] = "waiting"
      THEN \E u \in Tx : pc[u] = "waiting" /\ pc' = [pc EXCEPT ![u] = "trying"]
      ELSE UNCHANGED pc

(* condvar.notify_all(): every parked thread runs its loop again. *)
NotifyAll ==
    pc' = [u \in Tx |-> IF pc[u] = "waiting" THEN "trying" ELSE pc[u]]

ReleaseAll_KeepsHeldBy(t) ==
    /\ pc[t] = "idle"
    /\ holders' = [k \in Key |-> [holders[k] EXCEPT ![t] = None]]
    /\ NotifyAll
    /\ UNCHANGED <<entries, waiters, heldBy, req, expired>>

(* release_all(t): visit the keys recorded under t, drop t from their
   holders, drop an entry left with neither holder nor waiter, and notify
   everybody when a holder was removed. *)
ReleaseAll(t) ==
    LET removed == {k \in heldBy[t] \cap entries : Holds(t, k)}
        after == [k \in Key |-> IF k \in removed
                                  THEN [holders[k] EXCEPT ![t] = None]
                                  ELSE holders[k]]
        emptied == {k \in heldBy[t] : /\ \A u \in Tx : after[k][u] = None
                                      /\ WaitersOf(k) = {}}
    IN
    /\ pc[t] = "idle"
    /\ holders' = after
    /\ heldBy' = [heldBy EXCEPT ![t] = {}]
    /\ entries' = entries \ emptied
    /\ IF removed # {} THEN NotifyAll ELSE UNCHANGED pc
    /\ UNCHANGED <<waiters, req, expired>>

Step(t) == Grant(t) \/ Queue(t) \/ GiveUp(t) \/ DeadlinePasses(t) \/ TimerFires(t)

Next ==
    \E t \in Tx :
        \/ \E k \in Key, m \in Mode : Call(t, k, m)
        \/ Step(t)
        \/ ReleaseAll(t)

Spec == Init /\ [][Next]_vars

(* What the scheduler and the clock owe a thread inside acquire: it gets the
   mutex, its deadline passes and its timer fires.  Nothing is assumed of
   the callers: a holder may never release. *)
Fairness == \A t \in Tx :
    /\ WF_vars(Grant(t) \/ Queue(t) \/ GiveUp(t))
    /\ WF_vars(DeadlinePasses(t))
    /\ WF_vars(TimerFires(t))

FairSpec == Spec /\ Fairness

------------------------------------------------------------------------------
(* The compatibility matrix of the module header: an X holder is alone. *)
Compatible ==
    \A k \in Key : \A t, u \in Tx :
        t # u /\ holders[k][t] = "X" => holders[k][u] = None

(* The two maps under the mutex agree: held_by lists exactly the rows whose
   entry names the transaction as a holder, and such a row has an entry.
   release_all visits only held_by, so a difference is a lock never freed. *)
HeldByMatchesHolders ==
    \A t \in Tx, k \in Key :
        /\ k \in heldBy[t] <=> Holds(t, k)
        /\ Holds(t, k) => k \in entries

(* No ghost in a queue: a queued transaction is still inside the acquire
   that queued it.  A ghost X waiter would refuse every later S request. *)
QueueIsLive ==
    \A t \in Tx, k \in Key :
        IsWaiter(t, k) => /\ pc[t] # "idle"
                          /\ req[t] = [key |-> k, mode |-> waiters[k][t]]
                          /\ k \in entries

(* No lost wake-up: nobody sleeps on a row that could be granted now. *)
NoLostWakeup ==
    \A t \in Tx :
        pc[t] = "waiting" => ~ CanGrant(t, req[t].key, req[t].mode)

(* Deadlocks are broken by the timeout: every acquire returns, even when
   the transactions wait for each other in a cycle and none ever releases. *)
AcquireReturns == \A t \in Tx : pc[t] # "idle" ~> pc[t] = "idle"

OwnerOf(k) == IF HoldersOf(k) = {} THEN None ELSE CHOOSE t \in Tx : Holds(t, k)

(* For exclusive requests the manager implements the abstract row locks. *)
Abstract == INSTANCE RowLock WITH NoTx <- None,
                                  owner <- [k \in Key |-> OwnerOf(k)]
ImplementsRowLock == Abstract!Spec
==============================================================================
