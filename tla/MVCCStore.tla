------------------------------ MODULE MVCCStore ------------------------------
(***************************************************************************)
(* Version chains, src/src/execution/mvcc_store.rs: the operators that     *)
(* `VersionChain` and `MVCCTable` apply to one row.                        *)
(*                                                                         *)
(* The code keeps a row's versions in a Vec, newest first.  Here they are  *)
(* a set, and each version carries its place: pos counts the pushes on the *)
(* row, so a greater pos is nearer the front of the Vec.  `pushed` is that *)
(* counter (an index the Vec has implicitly; pruning does not reset it).   *)
(***************************************************************************)
EXTENDS Naturals, Sequences

CONSTANTS Row,     \* rows: a (table_id, row_id) pair of a created table
          Data,    \* serialised row values
          NoRow,   \* what a read of an absent row returns (None)
          MaxTs    \* bound: the commit clock stays below u64::MAX

ASSUME MaxTsAssumption == MaxTs \in Nat
ASSUME NoRowAssumption == NoRow \notin Data

TS_INFINITY == MaxTs + 1
Ts == 0 .. MaxTs

Op ==      [kind : {"insert", "update"}, row : Row, data : Data]
      \cup [kind : {"delete"}, row : Row, data : {NoRow}]

RowVersion == [data : Data, begin_ts : Ts, end_ts : Ts \cup {TS_INFINITY}, pos : Nat]
VersionChain == [versions : SUBSET RowVersion, pushed : Nat]

EmptyChain == [versions |-> {}, pushed |-> 0]

(* Operators with "_" in the middle are deliberate mistakes that test the
   properties (see LockManager). *)
VisibleAt_InclusiveEnd(v, snap_ts) == v.begin_ts <= snap_ts /\ snap_ts <= v.end_ts

VisibleAt(v, snap_ts) == v.begin_ts <= snap_ts /\ snap_ts < v.end_ts

Newest(S) == CHOOSE v \in S : \A w \in S : w.pos <= v.pos

Visible(chain, snap_ts) == {v \in chain.versions : VisibleAt(v, snap_ts)}

(* VersionChain::read: the first visible version, newest first. *)
Read(chain, snap_ts) ==
    LET seen == Visible(chain, snap_ts)
    IN IF seen = {} THEN NoRow ELSE Newest(seen).data

(* VersionChain::push_version: in front, alive. *)
PushVersion(chain, commit_ts, data) ==
    [versions |-> chain.versions \cup
         {[data |-> data, begin_ts |-> commit_ts, end_ts |-> TS_INFINITY,
           pos |-> chain.pushed + 1]},
     pushed |-> chain.pushed + 1]

(* VersionChain::expire_live: only the newest live version is ended. *)
ExpireLive(chain, commit_ts) ==
    LET live == {v \in chain.versions : v.end_ts = TS_INFINITY}
    IN IF live = {} THEN chain
       ELSE [chain EXCEPT !.versions =
               (@ \ {Newest(live)}) \cup {[Newest(live) EXCEPT !.end_ts = commit_ts]}]

(* VersionChain::prune. *)
Prune(chain, horizon) ==
    [chain EXCEPT !.versions = {v \in @ : v.end_ts > horizon}]

Apply_Tombstone(chain, op, commit_ts) ==
    PushVersion(IF op.kind = "insert" THEN chain ELSE ExpireLive(chain, commit_ts),
                commit_ts, op.data)

(* MVCCTable::apply_insert (its row map half), apply_update, apply_delete:
   INSERT pushes without looking at what is there, UPDATE expires and pushes,
   DELETE expires; none of them fails on a row that is not there. *)
Apply(chain, op, commit_ts) ==
    CASE op.kind = "insert" -> PushVersion(chain, commit_ts, op.data)
      [] op.kind = "update" -> PushVersion(ExpireLive(chain, commit_ts), commit_ts, op.data)
      [] op.kind = "delete" -> ExpireLive(chain, commit_ts)
==============================================================================
