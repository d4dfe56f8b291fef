------------------------------- MODULE RowLock -------------------------------
(***************************************************************************)
(* What the rest of the engine is promised by the lock manager, for the    *)
(* exclusive row locks that `OLTPEngine::write` takes: a row has at most   *)
(* one owner, an owner may ask again for what it owns, and the locks of a  *)
(* transaction are given back all at once, by that transaction only.       *)
(* Waiting, timeouts and wake-ups are not visible at this level.           *)
(***************************************************************************)
CONSTANTS Tx,      \* transaction ids
          Key,     \* lock keys: (table_id, row_id)
          NoTx     \* "nobody", not in Tx

VARIABLE owner     \* owner[k]: the transaction that holds k exclusively

TypeOK == owner \in [Key -> Tx \cup {NoTx}]

Init == owner = [k \in Key |-> NoTx]

(* acquire_exclusive returns Ok *)
Acquire(t, k) ==
    /\ owner[k] \in {NoTx, t}
    /\ owner' = [owner EXCEPT ![k] = t]

(* release_all, called by commit and by abort *)
ReleaseAll(t) ==
    owner' = [k \in Key |-> IF owner[k] = t THEN NoTx ELSE owner[k]]

Next == \E t \in Tx : ReleaseAll(t) \/ \E k \in Key : Acquire(t, k)

Spec == Init /\ [][Next]_owner
==============================================================================
