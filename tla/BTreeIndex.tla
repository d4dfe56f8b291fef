----------------------------- MODULE BTreeIndex -----------------------------
(* The B+ tree of index/btree.rs.  A node is a record [leaf, keys, values,   *)
(* children]; a leaf has no children, an internal node no values.            *)
EXTENDS SearchKernels

Leaf(keys, values)       == [leaf |-> TRUE, keys |-> keys, values |-> values, children |-> <<>>]
Internal(keys, children) == [leaf |-> FALSE, keys |-> keys, values |-> <<>>, children |-> children]

\* partition_point(k <= key) and partition_point(k < key) on sorted keys.
CountLeq(keys, key) == Cardinality({i \in DOMAIN keys : keys[i] <= key})
CountLt(keys, key)  == Cardinality({i \in DOMAIN keys : keys[i] < key})

RECURSIVE NodeSearch(_, _)
NodeSearch(node, key) ==
  LET hits == {i \in DOMAIN node.keys : node.keys[i] = key}
  IN IF node.leaf
     THEN IF hits = {} THEN Absent ELSE node.values[CHOOSE i \in hits : TRUE]
     ELSE NodeSearch(node.children[CountLeq(node.keys, key) + 1], key)

Split_LeafMovesUp(node, order) ==
  LET n == Len(node.keys)  mid == n \div 2
  IN IF n < order THEN <<node>>
     ELSE IF node.leaf
     THEN <<Leaf(SubSeq(node.keys, 1, mid), SubSeq(node.values, 1, mid)), node.keys[mid + 1],
            Leaf(SubSeq(node.keys, mid + 2, n), SubSeq(node.values, mid + 2, n))>>
     ELSE <<Internal(SubSeq(node.keys, 1, mid), SubSeq(node.children, 1, mid + 1)), node.keys[mid + 1],
            Internal(SubSeq(node.keys, mid + 2, n), SubSeq(node.children, mid + 2, n + 1))>>

\* A node that reached order keys gives its upper half away: a leaf copies
\* the first key of the right half up, an internal node moves its middle key.
Split(node, order) ==
  LET n == Len(node.keys)  mid == n \div 2
  IN CASE n < order -> <<node>>
       [] n >= order /\ node.leaf ->
            <<Leaf(SubSeq(node.keys, 1, mid), SubSeq(node.values, 1, mid)),
              node.keys[mid + 1],
              Leaf(SubSeq(node.keys, mid + 1, n), SubSeq(node.values, mid + 1, n))>>
       [] OTHER ->
            <<Internal(SubSeq(node.keys, 1, mid), SubSeq(node.children, 1, mid + 1)),
              node.keys[mid + 1],
              Internal(SubSeq(node.keys, mid + 2, n), SubSeq(node.children, mid + 2, n + 1))>>

LeafInsert(node, key, value) ==
  LET pos == CountLt(node.keys, key)
  IN IF pos < Len(node.keys) /\ At(node.keys, pos) = key
     THEN [node EXCEPT !.values[pos + 1] = value]
     ELSE Leaf(InsertAt(node.keys, pos + 1, key), InsertAt(node.values, pos + 1, value))

\* <<node>> or <<left, separator, right>>.
RECURSIVE NodeInsert(_, _, _, _)
NodeInsert(node, key, value, order) ==
  LET idx  == CountLeq(node.keys, key)
      sub  == NodeInsert(node.children[idx + 1], key, value, order)
      kept == [node EXCEPT !.children[idx + 1] = sub[1]]
  IN IF node.leaf THEN Split(LeafInsert(node, key, value), order)
     ELSE IF Len(sub) = 1 THEN <<kept>>
     ELSE Split(Internal(InsertAt(kept.keys, idx + 1, sub[2]),
                         InsertAt(kept.children, idx + 2, sub[3])), order)

\* A child is visited when its interval of separators meets the range.
RECURSIVE NodeRange(_, _, _)
NodeRange(node, min, max) ==
  LET n == Len(node.keys)
      Meets(i) == /\ i = n + 1 \/ node.keys[i] >= min
                  /\ i = 1 \/ node.keys[i - 1] <= max
      visited == SelectSeq([i \in DOMAIN node.children |-> i], Meets)
      found   == SelectSeq([i \in DOMAIN node.keys |-> <<node.keys[i], i>>],
                           LAMBDA e : min <= e[1] /\ e[1] <= max)
  IN IF node.leaf THEN [i \in DOMAIN found |-> <<found[i][1], node.values[found[i][2]]>>]
     ELSE FlattenSeq([i \in DOMAIN visited |-> NodeRange(node.children[visited[i]], min, max)])

RECURSIVE Height(_)
Height(node) == IF node.leaf THEN 1 ELSE 1 + Height(node.children[1])

NewTree(order) == [root |-> Leaf(<<>>, <<>>), order |-> Max({order, 3})]
TreeSearch(t, key) == NodeSearch(t.root, key)
TreeInsert(t, key, value) ==
  LET r == NodeInsert(t.root, key, value, t.order)
  IN [t EXCEPT !.root = IF Len(r) = 1 THEN r[1] ELSE Internal(<<r[2]>>, <<r[1], r[3]>>)]
TreeRange(t, min, max) == IF min <= max THEN NodeRange(t.root, min, max) ELSE <<>>

RECURSIVE NodeKeys(_)
\* Every key held by a leaf, with the nodes on the way, for the properties.
NodeKeys(node) == IF node.leaf THEN ToSet(node.keys)
                  ELSE UNION {NodeKeys(node.children[i]) : i \in DOMAIN node.children}

RECURSIVE WellFormed(_, _, _)
\* Every node below the root is neither empty nor full, its children are as
\* high as each other, and every key is on its side of every separator.
WellFormed(node, order, isRoot) ==
  /\ Len(node.keys) < order
  /\ isRoot \/ node.keys # <<>>
  /\ \A i \in 1..Len(node.keys)-1 : node.keys[i] < node.keys[i + 1]
  /\ IF node.leaf THEN Len(node.values) = Len(node.keys)
     ELSE /\ Len(node.children) = Len(node.keys) + 1
          /\ \A i \in DOMAIN node.children :
               /\ Height(node.children[i]) = Height(node.children[1])
               /\ WellFormed(node.children[i], order, FALSE)
               /\ \A k \in NodeKeys(node.children[i]) :
                    /\ i > 1 => node.keys[i - 1] <= k
                    /\ i <= Len(node.keys) => k < node.keys[i]
=============================================================================
