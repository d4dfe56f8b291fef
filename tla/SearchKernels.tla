--------------------------- MODULE SearchKernels ---------------------------
(* The searches and filters of compute/simd_ops.rs over a sorted or unsorted *)
(* array.  Positions are the code's, from 0; Absent stands for None.  The    *)
(* AVX2 and the portable kernel compare Lanes elements at a time and finish  *)
(* with the tail; both report the first match.                               *)
EXTENDS Integers, Sequences, FiniteSetsExt, SequencesExt

CONSTANTS Lanes,        \* elements compared at a time (4)
          LinearWidth,  \* ranges at most this long are scanned (16)
          WindowWidth   \* windows at most this long are scanned (32)

ASSUME KernelAssumption == /\ Lanes \in Nat \ {0}
                           /\ LinearWidth \in Nat \ {0}
                           /\ WindowWidth \in Nat \ {0}

Absent == -1
At(a, p) == a[p + 1]
Slice(a, from, to) == SubSeq(a, from + 1, to)     \* &a[from..to]
Shift(from, p) == IF p = Absent THEN Absent ELSE from + p

WholeChunks(n) == n \div Lanes

\* The first lane of the first chunk with a match, else the first tail match.
SimdFind(a, x) ==
  LET Hits(c) == {l \in 0..Lanes-1 : At(a, c * Lanes + l) = x}
      chunks  == {c \in 0..WholeChunks(Len(a))-1 : Hits(c) # {}}
      tail    == {i \in WholeChunks(Len(a)) * Lanes..Len(a)-1 : At(a, i) = x}
  IN CASE chunks # {}              -> Min(chunks) * Lanes + Min(Hits(Min(chunks)))
       [] chunks = {} /\ tail # {} -> Min(tail)
       [] OTHER                    -> Absent

BinarySearch(a, x) ==
  LET narrow[r \in (0..Len(a)) \X (0..Len(a))] ==
        LET low == r[1]  high == r[2]  mid == low + (high - low) \div 2
        IN CASE high - low <= LinearWidth -> r
             [] At(a, mid) < x /\ high - low > LinearWidth -> narrow[<<mid + 1, high>>]
             [] OTHER -> narrow[<<low, mid>>]
      range == narrow[<<0, Len(a)>>]
  IN IF a = <<>> THEN Absent
     ELSE Shift(range[1], SimdFind(Slice(a, range[1], range[2]), x))

BoundedSearch_OpenEnd(a, x, predicted, bound) ==
  LET start == Min({Max({predicted - bound, 0}), Len(a) - 1})
  IN IF a = <<>> THEN Absent
     ELSE Shift(start, SimdFind(Slice(a, start, Min({predicted + bound, Len(a)})), x))

\* The window is [predicted - bound, predicted + bound], cut at both ends.
BoundedSearch(a, x, predicted, bound) ==
  LET start  == Min({Max({predicted - bound, 0}), Len(a) - 1})
      window == Slice(a, start, Min({predicted + bound + 1, Len(a)}))
  IN CASE a = <<>> -> Absent
       [] a # <<>> /\ Len(window) <= WindowWidth -> Shift(start, SimdFind(window, x))
       [] OTHER -> Shift(start, BinarySearch(window, x))

FilterRange(a, min, max) ==
  LET InRange(x) == min <= x /\ x <= max
      cut == WholeChunks(Len(a)) * Lanes
  IN SelectSeq(Slice(a, 0, cut), InRange) \o SelectSeq(Slice(a, cut, Len(a)), InRange)

Shorter(a, b) == Min({Len(a), Len(b)})
Pair(a, b, p) == <<At(a, p), At(b, p)>>
\* The lanes of chunk c, as they are loaded from both arrays.
Chunk(a, b, c) == [l \in 1..Lanes |-> Pair(a, b, c * Lanes + l - 1)]

\* The tail starts at the chunk that is left over, not at its first element.
Elementwise_UncutTail(a, b) ==
  LET n == Shorter(a, b)  chunks == WholeChunks(n)
  IN FlattenSeq([c \in 1..chunks |-> Chunk(a, b, c - 1)]) \o [i \in 1..(n - chunks) |-> Pair(a, b, chunks + i - 1)]

\* Two arrays lane by lane as far as the shorter goes: whole chunks, then the tail.
Elementwise(a, b) ==
  LET n == Shorter(a, b)  chunks == WholeChunks(n)  tail == chunks * Lanes
  IN FlattenSeq([c \in 1..chunks |-> Chunk(a, b, c - 1)]) \o [i \in 1..(n - tail) |-> Pair(a, b, tail + i - 1)]

Each(pairs, Op(_, _)) == [i \in DOMAIN pairs |-> Op(pairs[i][1], pairs[i][2])]
CompareArrays(a, b) == Each(Elementwise(a, b), LAMBDA x, y : x = y)
=============================================================================
