---------------------------- MODULE IndexWorkload ----------------------------
(* The index structures of the engine under one sequence of inserts: the     *)
(* DynamicPGMIndex behind MVCCTable's primary-key index, a PGMIndex rebuilt  *)
(* on each insert (the model inside a ColumnDistribution), and the B+ tree   *)
(* they are benchmarked against.  A key may come again, as a row that was    *)
(* deleted and inserted anew enters the primary-key index twice.             *)
EXTENDS LinearModels, ColumnStats, BTreeIndex, VectorMath

CONSTANTS Keys,        \* the keys inserted
          Probes,      \* the keys asked for, inserted or not
          ErrorBound, BufferCapacity, Order,
          MaxInserts   \* bound on the length of the history

VARIABLES history,     \* the keys inserted so far, in order
          static,      \* PGMIndex
          dynamic,     \* DynamicPGMIndex
          tree,        \* BTree, holding the ordinal of the last insert of a key
          copied       \* keys moved by the rebuilds of dynamic

vars == <<history, static, dynamic, tree, copied>>

Init == /\ history = <<>>
        /\ static = Build(<<>>, ErrorBound)
        /\ dynamic = NewDynamic(<<>>, ErrorBound, BufferCapacity)
        /\ tree = NewTree(Order)
        /\ copied = 0

Insert(k) ==
  /\ Len(history) < MaxInserts
  /\ history' = Append(history, k)
  /\ static' = InsertWithRebuild(static, k)
  /\ dynamic' = DynamicInsert(dynamic, k)
  /\ tree' = TreeInsert(tree, k, Len(history) + 1)
  /\ copied' = copied + IF dynamic'.buffer = <<>> THEN Len(dynamic'.base.keys) ELSE 0

Next == \E k \in Keys : Insert(k)
Spec == Init /\ [][Next]_vars

Inserted == ToSet(history)
Ranges == {r \in Probes \X Probes : r[1] <= r[2]}
InRange(S, r) == {k \in S : r[1] <= k /\ k <= r[2]}
IsStrictlySorted(s) == \A i \in 1..Len(s)-1 : s[i] < s[i + 1]
NoDuplicates == Cardinality(Inserted) = Len(history)

\* An estimate from the statistics of a column is a fraction of its rows, and
\* the two halves of a split by a value account for every row.
Stats == BuildNumeric(static.keys, ErrorBound)
Sum1(A, B) == \E a \in A, b \in B : a[1] * b[2] + b[1] * a[2] = a[2] * b[2]
EstimatesAreFractions ==
  history # <<>> => \A v \in Probes :
    /\ \A op \in {"=", "!=", "<", "<=", ">", ">="} :
         \A s \in EstimateSelectivity(Stats, op, v) : 0 <= s[1] /\ s[1] <= s[2]
    /\ Sum1(EstimateSelectivity(Stats, "<", v), EstimateSelectivity(Stats, ">=", v))
    /\ Sum1(EstimateSelectivity(Stats, "<=", v), EstimateSelectivity(Stats, ">", v))
    /\ Sum1(EstimateSelectivity(Stats, "=", v), EstimateSelectivity(Stats, "!=", v))

\* The shape of the PGM: the segments cut the positions into
\* consecutive non-empty intervals, and a buffer is never left full.
PgmIsWellFormed ==
  /\ Len(dynamic.buffer) < dynamic.capacity
  /\ \A idx \in {static, dynamic.base} : LET s == idx.segments IN
       /\ (s = <<>>) = (idx.keys = <<>>)
       /\ s # <<>> => s[1].start_pos = 0 /\ Last(s).end_pos = Len(idx.keys) - 1
       /\ \A i \in DOMAIN s : s[i].start_pos <= s[i].end_pos
       /\ \A i \in 1..Len(s)-1 : s[i + 1].start_pos = s[i].end_pos + 1

\* simd_ops.rs says the key of a learned index is within the error bound of
\* its predicted position: in exact arithmetic search finds every key it was
\* built from, duplicates and closed segments included, and no other, where the
\* window is scanned; what a window wide enough to be halved loses is said below.
PgmFindsExactly ==
  \A k \in Probes : \A r \in SearchExact(static, k) :
    IF k \in Inserted THEN r # Absent /\ At(static.keys, r) = k ELSE r = Absent

\* predicted_rank is "count of values <= v" only up to the error bound, and
\* only where no value comes twice; a value in a gap between two segments is
\* ranked exactly, duplicates or not.
CountUpTo(v) == Cardinality({i \in DOMAIN static.keys : static.keys[i] <= v})
RankWithinBound ==
  \A v \in Probes : \A rank \in PredictedRanks(static, v) :
    /\ FindSegments(static, v) = {} => rank = CountUpTo(v)
    /\ NoDuplicates => /\ rank <= CountUpTo(v) + ErrorBound
                       /\ CountUpTo(v) <= rank + ErrorBound + 2

\* A one-model recursive index fitted by least squares finds each key whose
\* position is at most the bound below, or less than the bound above, its
\* prediction, and reports only positions that hold the key.
Positions == [i \in DOMAIN static.keys |-> i - 1]
Rmi == <<<<Fit(static.keys, Positions)>>>>
RmiFindsWithinBound ==
  Fit(static.keys, Positions) # NoModel => \A k \in Probes :
    LET found == FindExact(Rmi, static.keys, k, ErrorBound)
        pred  == RmiSearch(Rmi, Len(static.keys), k)
    IN /\ \A p \in found \ {Absent} : At(static.keys, p) = k
       /\ (\E p \in 0..Len(static.keys)-1 : /\ At(static.keys, p) = k
                                            /\ pred - ErrorBound <= p /\ p < pred + ErrorBound)
            => Absent \notin found

\* What a point lookup relies on, in the three learned structures together.
SearchesFind == PgmIsWellFormed /\ PgmFindsExactly /\ RankWithinBound /\ RmiFindsWithinBound

\* What the primary-key index promises the executor: whatever the rounding of
\* a prediction and however often a key came, the candidates of a range hold
\* every inserted key of the range and nothing outside it.
RangeMissesNoKey ==
  \A r \in Ranges : \A found \in DynamicRange(dynamic, r[1], r[2]) :
    ToSet(found) = InRange(Inserted, r)

\* Without duplicates a range is exact, each key once and in order, and the
\* static index returns precisely the positions of the keys of the range.
RangeIsExactOnSets ==
  NoDuplicates => \A r \in Ranges :
    /\ \A found \in DynamicRange(dynamic, r[1], r[2]) : IsStrictlySorted(found)
    /\ \A ps \in RangeSearch(static, r[1], r[2]) :
         ps = {p \in 0..Len(static.keys)-1 : At(static.keys, p) \in InRange(Inserted, r)}

\* contains never reports a key that was not inserted; it may miss one that
\* was, and then only if a prediction was rounded below an integer.
ContainsIsSound ==
  \A k \in Probes :
    /\ (TRUE \in DynamicContains(dynamic, k)) => k \in Inserted
    /\ k \in Inserted /\ FALSE \in DynamicContains(dynamic, k)
         => Absent \notin SearchExact(dynamic.base, k) /\ Absent \in Search(dynamic.base, k)

\* What the primary-key index scan relies on.
RangesAreRight == RangeMissesNoKey /\ RangeIsExactOnSets /\ ContainsIsSound

\* Growing the buffer with the base keeps rebuilding linear in the inserts.
RebuildsAreAmortised == copied <= (2 * GrowthDivisor + 1) * Len(history)

\* The tree is a map: a key finds the last value inserted for it, and a range
\* lists each key of the range once, in order, across all splits.
TreeIsMap ==
  /\ \A k \in Probes : TreeSearch(tree, k) =
       IF k \in Inserted THEN Max({i \in DOMAIN history : history[i] = k}) ELSE Absent
  /\ \A r \in Ranges : LET found == TreeRange(tree, r[1], r[2]) IN
       /\ {found[i][1] : i \in DOMAIN found} = InRange(Inserted, r)
       /\ IsStrictlySorted([i \in DOMAIN found |-> found[i][1]])
       /\ \A i \in DOMAIN found : found[i][2] = TreeSearch(tree, found[i][1])

\* Splits keep the tree balanced, ordered and within its order.
TreeIsBalanced == WellFormed(tree.root, tree.order, TRUE)

\* What the benchmark compares the learned indexes with.
TreeIsBalancedMap == TreeIsMap /\ TreeIsBalanced

\* The positions at which a range of n elements is halved.
Middles(n) ==
  LET of[r \in (0..n) \X (0..n)] ==
        LET mid == r[1] + (r[2] - r[1]) \div 2
        IN IF r[2] - r[1] <= LinearWidth THEN {} ELSE {mid} \cup of[<<r[1], mid>>] \cup of[<<mid + 1, r[2]>>]
  IN of[<<0, n>>]

\* The array kernels, whole chunks and tail alike: the first match, exactly the
\* elements of a range in their order, element-wise equality, sums, products
\* and distances.  The binary search finds the first place of a key unless the
\* array is halved just there: the code keeps the half before the middle when
\* the middle is not less than the target, and so cuts off the target itself.
KernelsMatchScalar ==
  /\ \A x \in Probes :
       LET First(s) == IF x \in ToSet(s) THEN Min({i \in DOMAIN s : s[i] = x}) - 1 ELSE Absent
           cut == First(static.keys) \in Middles(Len(static.keys))
       IN /\ SimdFind(history, x) = First(history)
          /\ BinarySearch(static.keys, x) = IF cut THEN Absent ELSE First(static.keys)
  /\ \A r \in Ranges :
       FilterRange(history, r[1], r[2]) = SelectSeq(history, LAMBDA x : r[1] <= x /\ x <= r[2])
  /\ LET b == Tail(history)  n == Len(b)
     IN history # <<>> =>
          /\ AddVectors(history, b) = [i \in 1..n |-> history[i] + b[i]]
          /\ MultiplyVectors(b, history) = [i \in 1..n |-> history[i] * b[i]]
          /\ 2 * Dot(history, b) = SquaredNorm(Front(history)) + SquaredNorm(b) - SquaredL2(history, b)
          /\ SquaredL2(history, b) = 0 <=> \A i \in 1..n : history[i] = b[i]
          /\ InnerProductDistance(history, b) <= 0
          /\ CosineDistanceIs(history, history, "same") /\ ~CosineDistanceIs(history, b, "opposite")
          /\ Normalize(MultiplyVectors(b, [i \in 1..n |-> 0])).over = 1
          /\ SumOf(MultiplyVectors(Normalize(history).v, Normalize(history).v)) = Normalize(history).over
  /\ CompareArrays(history, static.keys) = [i \in DOMAIN history |-> history[i] = static.keys[i]]
=============================================================================
