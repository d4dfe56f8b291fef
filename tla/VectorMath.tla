----------------------------- MODULE VectorMath -----------------------------
(* compute/vector_math.rs over integers: element-wise sums and products and  *)
(* the distances of the operators <=>, <-> and <#>.  A kernel takes Lanes    *)
(* elements at a time, as far as the shorter vector goes, and then the tail; *)
(* a sum has one accumulator per lane.  Lengths and norms stay squared: the  *)
(* code takes the root last.                                                 *)
EXTENDS SearchKernels

SumOf(terms) == FoldLeft(LAMBDA s, x : s + x, 0, terms)

AddVectors(a, b)      == Each(Elementwise(a, b), LAMBDA x, y : x + y)
MultiplyVectors(a, b) == Each(Elementwise(a, b), LAMBDA x, y : x * y)

\* The accumulators of the lanes are added up, then the tail is.
Accumulate(a, b, Term(_, _)) ==
  LET n == Shorter(a, b)  chunks == WholeChunks(n)  tail == chunks * Lanes
      Lane(l) == SumOf([c \in 1..chunks |-> Term(At(a, (c - 1) * Lanes + l), At(b, (c - 1) * Lanes + l))])
  IN FoldLeft(LAMBDA s, i : s + Term(At(a, i), At(b, i)), SumOf([l \in 1..Lanes |-> Lane(l - 1)]),
              [i \in 1..(n - tail) |-> tail + i - 1])
Dot(a, b)       == Accumulate(a, b, LAMBDA x, y : x * y)
SquaredL2(a, b) == Accumulate(a, b, LAMBDA x, y : (x - y) * (x - y))
SquaredNorm(v)  == Dot(v, v)
InnerProductDistance(a, b) == 0 - Dot(a, b)

\* A similarity is <<dot, squared norms>>: dot over the root of the product.
CosineSimilarity(a, b) ==
  IF SquaredNorm(a) = 0 \/ SquaredNorm(b) = 0 THEN <<0, 1>> ELSE <<Dot(a, b), SquaredNorm(a) * SquaredNorm(b)>>
\* 1 - similarity: its place between 0 and 2.
CosineDistanceIs(a, b, place) ==
  LET s == CosineSimilarity(a, b)
  IN CASE place = "same"     -> s[1] > 0 /\ s[1] * s[1] = s[2]
       [] place = "opposite" -> s[1] < 0 /\ s[1] * s[1] = s[2]
       [] place = "between"  -> s[1] * s[1] < s[2]
\* Each component over the norm; the zero vector is its own.
Normalize(v) == IF SquaredNorm(v) = 0 THEN [v |-> [i \in DOMAIN v |-> 0], over |-> 1] ELSE [v |-> v, over |-> SquaredNorm(v)]
=============================================================================
