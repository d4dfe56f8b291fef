------------------------------ MODULE PGMIndex ------------------------------
(* The piecewise linear index of index/pgm.rs: the static PGMIndex and the   *)
(* DynamicPGMIndex that buffers inserts and rebuilds.  Keys are integers and *)
(* slopes exact fractions <<n, d>> with d > 0, <<0, 0>> for "no bound yet".  *)
(* The code computes slope * key + intercept in f64: where the exact result  *)
(* is an integer and the slope no binary fraction, the truncated result may  *)
(* be one less.  Predictions is the set of both outcomes, and so is          *)
(* everything derived from it.                                               *)
EXTENDS SearchKernels, TLC

CONSTANT GrowthDivisor      \* BUFFER_GROWTH_DIVISOR (8)
ASSUME GrowthAssumption == GrowthDivisor \in Nat \ {0}

Free == <<0, 0>>
Leq(p, q)   == p[1] * q[2] <= q[1] * p[2]
Steeper(p, q) == IF p = Free \/ Leq(p, q) THEN q ELSE p
Flatter(p, q) == IF p = Free \/ Leq(q, p) THEN q ELSE p

CloseSegment(keys, from, to, low, high) ==
  [slope |-> IF low = Free THEN <<0, 1>>
             ELSE <<low[1] * high[2] + high[1] * low[2], 2 * low[2] * high[2]>>,
   start_key |-> At(keys, from), end_key |-> At(keys, to),
   start_pos |-> from, end_pos |-> to]

\* One pass over the keys: the cone of slopes that keep every key of the
\* segment within eps of its position; a key outside it starts a new segment.
Extend(keys, eps, s, i) ==
  LET dx == At(keys, i) - At(keys, s.from)
      dy == i - s.from
      low  == Steeper(s.low, <<dy - eps, dx>>)
      high == Flatter(s.high, <<dy + eps, dx>>)
      Restart == [segments |-> Append(s.segments,
                      CloseSegment(keys, s.from, i - 1, s.low, s.high)),
                  from |-> i, low |-> Free, high |-> Free]
  IN CASE dx = 0 -> IF dy > eps THEN Restart ELSE s
       [] dx # 0 /\ Leq(low, high) -> [s EXCEPT !.low = low, !.high = high]
       [] OTHER -> Restart

Build(keys, eps) ==
  LET Step(s, i) == Extend(keys, eps, s, i)
      end == FoldLeft(Step, [segments |-> <<>>, from |-> 0, low |-> Free, high |-> Free],
                      [i \in 1..Len(keys)-1 |-> i])
  IN [keys |-> keys, error_bound |-> eps,
      segments |-> IF keys = <<>> THEN <<>>
                   ELSE Append(end.segments, CloseSegment(keys, end.from, Len(keys)-1,
                                                          end.low, end.high))]

Clamp(x, low, high) == Max({low, Min({x, high})})
BinaryFraction(r) == \E k \in 0..10 : (r[1] * 2^k) % r[2] = 0

Predictions(seg, key) ==
  LET num == seg.start_pos * seg.slope[2] + seg.slope[1] * (key - seg.start_key)
      pos == num \div seg.slope[2]
      low == num % seg.slope[2] = 0 /\ ~BinaryFraction(seg.slope)
  IN {Clamp(p, seg.start_pos, seg.end_pos) : p \in {pos} \cup (IF low THEN {pos - 1} ELSE {})}

\* In exact arithmetic there is one prediction, the greatest.
Exactly(S) == {Max(S)}

\* binary_search_by over the start keys: any segment that starts at the key,
\* else the last that starts before it, else the first.
Located(segments, key) ==
  LET at     == {i \in DOMAIN segments : segments[i].start_key = key}
      before == {i \in DOMAIN segments : segments[i].start_key < key}
  IN IF at # {} THEN at ELSE IF before # {} THEN {Max(before)} ELSE {1}

Covers(seg, key) == seg.start_key <= key /\ key <= seg.end_key

FindSegments(idx, key) ==
  {i \in UNION {{l, l + 1} : l \in IF idx.segments = <<>> THEN {}
                                   ELSE Located(idx.segments, key)} :
     /\ i \in DOMAIN idx.segments /\ Covers(idx.segments[i], key)
     /\ i \in Located(idx.segments, key)
          \/ (i - 1 \in Located(idx.segments, key) /\ ~Covers(idx.segments[i - 1], key))}

\* The possible results of search under Rounds, the set of predictions kept.
SearchWith(idx, key, Rounds(_)) ==
  LET segs == FindSegments(idx, key)
  IN IF segs = {} THEN {Absent}
     ELSE {BoundedSearch(idx.keys, key, p, idx.error_bound) :
             p \in UNION {Rounds(Predictions(idx.segments[i], key)) : i \in segs}}

AnyRounding(S) == S
Search(idx, key)      == SearchWith(idx, key, AnyRounding)
SearchExact(idx, key) == SearchWith(idx, key, Exactly)

\* slice::binary_search_by on the keys: a match, else the insertion point.
KeyPositions(keys, key) ==
  LET hits == {p \in 0..Len(keys)-1 : At(keys, p) = key}
  IN IF hits # {} THEN hits ELSE {Cardinality({i \in DOMAIN keys : keys[i] < key})}

PredictedRanks(idx, key) ==
  LET keys == idx.keys
      segs == FindSegments(idx, key)
  IN CASE keys = <<>> \/ (keys # <<>> /\ key < Head(keys)) -> {0}
       [] keys # <<>> /\ key >= Last(keys) -> {Len(keys)}
       [] OTHER -> IF segs # {}
                   THEN UNION {Predictions(idx.segments[i], key) : i \in segs}
                   ELSE {idx.segments[i].end_pos + 1 : i \in Located(idx.segments, key)}

\* From a match of the lower end, or from its insertion point, forward.
RangeFrom(keys, start, max) ==
  {p \in start..Len(keys)-1 : At(keys, p) <= max}

RangeSearch_TrustsModel(idx, min, max) ==
  IF idx.keys = <<>> \/ min > max THEN {{}}
  ELSE {IF r = Absent THEN {} ELSE RangeFrom(idx.keys, r, max) : r \in Search(idx, min)}

RangeSearch(idx, min, max) ==
  IF idx.keys = <<>> \/ min > max THEN {{}}
  ELSE {RangeFrom(idx.keys, start, max) :
          start \in UNION {IF r = Absent THEN KeyPositions(idx.keys, min) ELSE {r} :
                             r \in Search(idx, min)}}

Sorted(keys) == SortSeq(keys, <)

InsertWithRebuild(idx, key) == Build(Sorted(Append(idx.keys, key)), idx.error_bound)

NewDynamic(keys, eps, capacity) ==
  [base |-> Build(keys, eps), buffer |-> <<>>, capacity |-> capacity, min_capacity |-> capacity]

FlushBuffer_FixedCapacity(d) ==
  [d EXCEPT !.base = Build(Sorted(d.base.keys \o d.buffer), d.base.error_bound), !.buffer = <<>>]

FlushBuffer(d) ==
  LET merged == Sorted(d.base.keys \o d.buffer)
  IN IF d.buffer = <<>> THEN d
     ELSE [d EXCEPT !.base = Build(merged, d.base.error_bound), !.buffer = <<>>,
                    !.capacity = Max({Len(merged) \div GrowthDivisor, d.min_capacity})]

DynamicInsert(d, key) ==
  LET pushed == [d EXCEPT !.buffer = Append(@, key)]
  IN IF Len(pushed.buffer) >= d.capacity THEN FlushBuffer(pushed) ELSE pushed

\* The bag of keys in a range as a sequence, per outcome of the base's search.
DynamicRange(d, min, max) ==
  LET InRange(k) == min <= k /\ k <= max
  IN {Sorted([i \in 1..Cardinality(ps) |-> d.base.keys[Min(ps) + i]]
             \o SelectSeq(d.buffer, InRange)) : ps \in RangeSearch(d.base, min, max)}

DynamicContains(d, key) ==
  IF Contains(d.buffer, key) THEN {TRUE} ELSE {r # Absent : r \in Search(d.base, key)}
=============================================================================
