-------------------------------- MODULE HNSW ---------------------------------
(* index/hnsw.rs: HNSWIndex::insert, one step per lock it takes, for several *)
(* threads; search, remove, len and contains.  A vector is a point of a line *)
(* and the metric the distance of points (only its order matters).  A search *)
(* runs under the read lock of the node map and is one step: the lists it    *)
(* reads one by one may change under it only in the code.                    *)
EXTENDS Integers, Sequences, FiniteSetsExt, SequencesExt, Functions

CONSTANTS Threads,
          Vectors,         \* id -> the points it may be inserted with
          LevelsOf,        \* id -> the levels random_level may draw for it
          M,               \* connections per node and layer, twice as many on layer 0
          EfConstruction, EfSearch,
          Queries,         \* the points searched for
          MaxRemovals

Ids == DOMAIN Vectors
None == 0                  \* no entry point

ASSUME HNSWAssumption == /\ M \in Nat \ {0, 1} /\ EfConstruction \in Nat \ {0} /\ EfSearch \in Nat \ {0}
                         /\ LevelsOf \in [Ids -> SUBSET Nat] /\ None \notin Ids
                         /\ IsFiniteSet(Ids) /\ Ids \subseteq Nat /\ IsFiniteSet(Threads)
                         /\ \A id \in Ids : Vectors[id] \subseteq Int
                         /\ Queries \subseteq Int

VARIABLES
  nodes,      \* id -> [vector, level, neighbors, deleted]
  entry, maxLevel,
  insert,     \* insert[th]: where the thread is inside insert
  removals,
  overlapped, \* history: two inserts have run at the same time
  pruned      \* history: a neighbour has been dropped from a full list

shared == <<nodes, entry, maxLevel>>
vars == <<nodes, entry, maxLevel, insert, removals, overlapped, pruned>>

Idle == [at |-> "idle", id |-> None, ep |-> None, top |-> 0, layer |-> 0, found |-> <<>>]

Init == /\ nodes = [id \in {} |-> Idle] /\ entry = None /\ maxLevel = 0
        /\ insert = [th \in Threads |-> Idle]
        /\ removals = 0 /\ overlapped = FALSE /\ pruned = FALSE

Node(vector, level) == [vector |-> vector, level |-> level, deleted |-> FALSE,
                        neighbors |-> [l \in 0..level |-> <<>>]]
RandomLevel(id) == LevelsOf[id]
Capacity(layer) == IF layer = 0 THEN 2 * M ELSE M
Distance(x, y) == IF x < y THEN y - x ELSE x - y
From(query, id) == Distance(query, nodes[id].vector)
Neighbors(id, layer) == IF layer <= nodes[id].level THEN nodes[id].neighbors[layer] ELSE <<>>

(* -------------------------------- Searching ------------------------------ *)
\* for e in s: x = F[x][e], as a recursive function.
Loop(F, x, s) ==
  LET after[i \in Nat] == IF i = 0 THEN x ELSE F[after[i - 1]][s[i]] IN after[Len(s)]
Times(n) == [i \in 1..n |-> i]

\* S from first to last under R, a strict total order on it.
InOrder(S, R) ==
  [i \in 1..Cardinality(S) |-> CHOOSE a \in S : Cardinality({b \in S : <<b, a>> \in R}) = i - 1]

\* Ties are broken by id.
Closer(query, a, b) == \/ From(query, a) < From(query, b)
                       \/ From(query, a) = From(query, b) /\ a < b
Nearest(query, S)  == CHOOSE a \in S : \A b \in S \ {a} : Closer(query, a, b)
Farthest(query, S) == CHOOSE a \in S : \A b \in S \ {a} : Closer(query, b, a)
ByDistance(query, S) == InOrder(S, {p \in S \X S : Closer(query, p[1], p[2])})

\* greedy_closest: to the nearest neighbour while that is an improvement; each
\* round comes strictly closer, so there are at most as many as nodes.
Greedy(query, ep, layer) ==
  LET Round == [current \in DOMAIN nodes |-> [i \in Nat |-> Nearest(query, {current} \cup
        {n \in ToSet(Neighbors(current, layer)) : From(query, n) < From(query, current)})]]
  IN Loop(Round, ep, Times(Cardinality(DOMAIN nodes)))

\* greedy descent through the layers above floor.
Descend(query, ep, top, floor) ==
  Loop([current \in DOMAIN nodes |-> [layer \in Nat |-> Greedy(query, current, layer)]], ep,
       [i \in 1..(top - floor) |-> top + 1 - i])

Searches == LET Found == SUBSET DOMAIN nodes IN [candidates : Found, results : Found, visited : Found]
StartAt(ep) == [candidates |-> {ep}, results |-> {ep}, visited |-> {ep}]

Visit(query, ef, s, n) ==
  IF n \in s.visited THEN s
  ELSE LET grown == s.results \cup {n}
           wanted == From(query, n) < From(query, Farthest(query, s.results)) \/ Cardinality(s.results) < ef
       IN [visited    |-> s.visited \cup {n},
           candidates |-> IF wanted THEN s.candidates \cup {n} ELSE s.candidates,
           results    |-> IF ~wanted THEN s.results
                          ELSE IF Cardinality(grown) > ef THEN grown \ {Farthest(query, grown)} ELSE grown]
VisitAll(query, ef, s, ns) == Loop([x \in Searches |-> [n \in DOMAIN nodes |-> Visit(query, ef, x, n)]], s, ns)

Done(query, ef, s) ==
  \/ s.candidates = {}
  \/ /\ Cardinality(s.results) >= ef
     /\ From(query, Nearest(query, s.candidates)) > From(query, Farthest(query, s.results))
Expand(query, ef, layer, s) ==
  LET c == Nearest(query, s.candidates)
  IN VisitAll(query, ef, [s EXCEPT !.candidates = @ \ {c}], Neighbors(c, layer))

Beam_StopsEarly(query, ep, ef, layer) == Expand(query, ef, layer, StartAt(ep)).results

\* search_layer: the nearest open candidate is expanded until it is farther
\* than the farthest of ef results; every round closes one node.
Beam(query, ep, ef, layer) ==
  LET Round == [s \in Searches |-> [i \in Nat |-> IF Done(query, ef, s) THEN s ELSE Expand(query, ef, layer, s)]]
  IN Loop(Round, StartAt(ep), Times(Cardinality(DOMAIN nodes))).results
SearchLayer(query, ep, ef, layer) == ByDistance(query, Beam(query, ep, ef, layer))

Take(s, n) == SubSeq(s, 1, Min({n, Len(s)}))
Live == {id \in DOMAIN nodes : ~nodes[id].deleted}      \* contains; len is its size

Search_KeepsTombstones(query, k) ==
  IF k = 0 \/ entry = None THEN <<>>
  ELSE Take(SearchLayer(query, Descend(query, entry, maxLevel, 0), Max({EfSearch, k}), 0), k)

\* search: tombstones are taken out of what the beam search returns.
Search(query, k) ==
  IF k = 0 \/ entry = None THEN <<>>
  ELSE Take(ByDistance(query, Live \cap Beam(query, Descend(query, entry, maxLevel, 0), Max({EfSearch, k}), 0)), k)

(* --------------------------------- insert -------------------------------- *)
At(th, at) == insert[th].at = at
Go(th, next) == insert' = [insert EXCEPT ![th] = next]
history == <<removals, overlapped, pruned>>

\* The node enters the map; an id that is there, deleted or not, is an error.
Add(th, id, vector, level) ==
  /\ At(th, "idle")
  /\ IF id \in DOMAIN nodes THEN UNCHANGED vars
     ELSE /\ nodes' = [n \in DOMAIN nodes \cup {id} |-> IF n = id THEN Node(vector, level) ELSE nodes[n]]
          /\ Go(th, [Idle EXCEPT !.at = "added", !.id = id])
          /\ overlapped' = (overlapped \/ \E other \in Threads : ~At(other, "idle"))
          /\ UNCHANGED <<entry, maxLevel, removals, pruned>>

ReadEntry(th) ==
  /\ At(th, "added")
  /\ Go(th, [insert[th] EXCEPT !.at = IF entry = None THEN "first" ELSE "entered", !.ep = entry])
  /\ UNCHANGED shared /\ UNCHANGED history

SetEntry(th, from, to) ==
  /\ At(th, from) /\ entry' = insert[th].id
  /\ Go(th, [insert[th] EXCEPT !.at = to]) /\ UNCHANGED <<nodes, maxLevel>> /\ UNCHANGED history
FirstEntry(th)   == SetEntry(th, "first", "level")
PromoteEntry(th) == SetEntry(th, "promote", "level")

SetMaxLevel_Forgotten(th) ==
  /\ At(th, "level") /\ Go(th, Idle)
  /\ UNCHANGED shared /\ UNCHANGED history

SetMaxLevel(th) ==
  /\ At(th, "level") /\ maxLevel' = nodes[insert[th].id].level /\ Go(th, Idle)
  /\ UNCHANGED <<nodes, entry>> /\ UNCHANGED history

\* max_level, then phase 1: down to the highest layer of the new node.
DescendTo(th) ==
  LET me == nodes[insert[th].id] IN
  /\ At(th, "entered")
  /\ Go(th, [insert[th] EXCEPT !.at = "layer", !.top = maxLevel, !.layer = Min({me.level, maxLevel}),
                               !.ep = Descend(me.vector, @, maxLevel, me.level)])
  /\ UNCHANGED shared /\ UNCHANGED history

\* Phase 2, layer after layer: find neighbours,
FindNeighbors(th) ==
  LET t == insert[th]
      found == SearchLayer(nodes[t.id].vector, t.ep, EfConstruction, t.layer)
  IN /\ At(th, "layer")
     /\ Go(th, [t EXCEPT !.at = "forward", !.ep = found[1], !.found = Take(found, Capacity(t.layer))])
     /\ UNCHANGED shared /\ UNCHANGED history

\* write the new node's own list over whatever is there,
SetForward(th) ==
  LET t == insert[th] IN
  /\ At(th, "forward")
  /\ nodes' = [nodes EXCEPT ![t.id].neighbors[t.layer] = t.found]
  /\ Go(th, [t EXCEPT !.at = "reverse"])
  /\ UNCHANGED <<entry, maxLevel>> /\ UNCHANGED history

AddReverse_NeverPrunes(th) ==
  LET t == insert[th]  n == Head(t.found) IN
  /\ At(th, "reverse") /\ t.found # <<>>
  /\ nodes' = IF t.layer <= nodes[n].level
              THEN [nodes EXCEPT ![n].neighbors[t.layer] = Append(@, t.id)] ELSE nodes
  /\ Go(th, [t EXCEPT !.found = Tail(@)])
  /\ UNCHANGED <<entry, maxLevel>> /\ UNCHANGED history

\* and enter it in the list of each neighbour, which may overflow.
AddReverse(th) ==
  LET t == insert[th]  n == Head(t.found)
      onLayer == t.layer <= nodes[n].level
      full == onLayer /\ Len(Neighbors(n, t.layer)) + 1 > Capacity(t.layer)
  IN /\ At(th, "reverse") /\ t.found # <<>>
     /\ nodes' = IF onLayer THEN [nodes EXCEPT ![n].neighbors[t.layer] = Append(@, t.id)] ELSE nodes
     /\ Go(th, [t EXCEPT !.at = IF full THEN "prune" ELSE "reverse", !.found = IF full THEN @ ELSE Tail(@)])
     /\ UNCHANGED <<entry, maxLevel>> /\ UNCHANGED history

\* What prune_neighbors keeps of a list: the nearest, the earlier one of two.
Kept(n, layer) ==
  LET list == Neighbors(n, layer)
      away == [i \in DOMAIN list |-> From(nodes[n].vector, list[i])]
      order == InOrder(DOMAIN list, {p \in (DOMAIN list) \X (DOMAIN list) :
                 away[p[1]] < away[p[2]] \/ (away[p[1]] = away[p[2]] /\ p[1] < p[2])})
  IN [i \in 1..Capacity(layer) |-> list[order[i]]]

\* It takes the lock again: by then the list may be short enough.
Prune(th) ==
  LET t == insert[th]  n == Head(t.found) IN
  /\ At(th, "prune")
  /\ Go(th, [t EXCEPT !.at = "reverse", !.found = Tail(@)])
  /\ IF Len(Neighbors(n, t.layer)) <= Capacity(t.layer) THEN UNCHANGED <<nodes, pruned>>
     ELSE nodes' = [nodes EXCEPT ![n].neighbors[t.layer] = Kept(n, t.layer)] /\ pruned' = TRUE
  /\ UNCHANGED <<entry, maxLevel, removals, overlapped>>

\* The next layer, the promotion to entry point, or the end.
NextLayer(th) ==
  LET t == insert[th] IN
  /\ At(th, "reverse") /\ t.found = <<>>
  /\ Go(th, CASE t.layer > 0 -> [t EXCEPT !.at = "layer", !.layer = @ - 1]
              [] t.layer = 0 /\ nodes[t.id].level > t.top -> [t EXCEPT !.at = "promote"]
              [] OTHER -> Idle)
  /\ UNCHANGED shared /\ UNCHANGED history

RemoveVector(id) ==
  /\ removals < MaxRemovals /\ id \in Live
  /\ nodes' = [nodes EXCEPT ![id].deleted = TRUE]
  /\ removals' = removals + 1
  /\ UNCHANGED <<entry, maxLevel, insert, overlapped, pruned>>

Step(th) == \/ ReadEntry(th) \/ FirstEntry(th) \/ PromoteEntry(th) \/ SetMaxLevel(th) \/ DescendTo(th)
            \/ FindNeighbors(th) \/ SetForward(th) \/ AddReverse(th) \/ Prune(th) \/ NextLayer(th)

Next == \/ \E th \in Threads, id \in Ids : \E v \in Vectors[id], level \in RandomLevel(id) : Add(th, id, v, level)
        \/ \E th \in Threads : Step(th)
        \/ \E id \in Ids : RemoveVector(id)

Spec == Init /\ [][Next]_vars

(* ------------------------------- Properties ------------------------------ *)
Quiet == \A th \in Threads : At(th, "idle")

\* Types; every edge leads to a node, and the entry point is one; no list stays
\* above its capacity, in whatever order threads push to it and prune it.
HTypeOK ==
  /\ DOMAIN nodes \subseteq Ids /\ entry \in DOMAIN nodes \cup {None}
  /\ \A id \in DOMAIN nodes :
       /\ nodes[id].vector \in Vectors[id] /\ nodes[id].level \in LevelsOf[id]
       /\ \A l \in 0..nodes[id].level :
            /\ ToSet(nodes[id].neighbors[l]) \subseteq DOMAIN nodes
            /\ Len(nodes[id].neighbors[l]) <= Capacity(l) + Cardinality({th \in Threads : At(th, "prune")})
  /\ maxLevel \in {0} \cup {nodes[id].level : id \in DOMAIN nodes}
  /\ \A th \in Threads : insert[th].id \in DOMAIN nodes \cup {None}

\* At any moment, also in the middle of inserts, a search returns live nodes
\* only, each once, the closest first, and no more than it was asked for.
SearchIsSound ==
  \A q \in Queries, k \in {1, Cardinality(Ids)} :
    LET r == Search(q, k)
    IN /\ Len(r) <= k /\ IsInjective(r) /\ ToSet(r) \subseteq Live
       /\ \A i \in 1..Len(r) - 1 : From(q, r[i]) <= From(q, r[i + 1])

\* hnsw.rs calls the entry point "the node with the highest level": as long as
\* inserts do not overlap it is, and max_level is that level.
EntryIsHighest ==
  Quiet /\ ~overlapped /\ DOMAIN nodes # {} =>
    /\ entry # None /\ nodes[entry].level = maxLevel
    /\ \A id \in DOMAIN nodes : nodes[id].level <= maxLevel

\* Until inserts overlap or a list is pruned the graph of layer 0 is connected:
\* a beam as wide as the index finds the k nearest live nodes exactly.
ExactWhileSmall ==
  Quiet /\ ~overlapped /\ ~pruned /\ Cardinality(DOMAIN nodes) <= EfSearch =>
    \A q \in Queries, k \in {1, Cardinality(Ids)} : Search(q, k) = Take(ByDistance(q, Live), k)

=============================================================================
