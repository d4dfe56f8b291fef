----------------------------- MODULE HNSWProofs ------------------------------
(***************************************************************************)
(* Proofs about HNSW, for any number of threads, ids, vectors and layers.  *)
(* First what the loops of a search return, from their rounds; then four   *)
(* invariants and what follows from them: the types and the lengths of the *)
(* lists, whatever the threads do; the entry point and the edges of layer  *)
(* 0 as long as inserts do not overlap.                                    *)
(***************************************************************************)
EXTENDS HNSW, FiniteSetTheorems, SequenceTheorems, TLAPS

(* --- Numbers and sequences ----------------------------------------------- *)
(* The lower of two numbers. *)
LEMMA MinOfTwo ==
    ASSUME NEW a \in Nat, NEW b \in Nat
    PROVE  Min({a, b}) \in {a, b} /\ Min({a, b}) <= a /\ Min({a, b}) <= b
<1>1. PICK m \in {a, b} : \A y \in {a, b} : m =< y
  OBVIOUS
<1>2. Min({a, b}) \in {a, b} /\ \A y \in {a, b} : Min({a, b}) =< y
  BY <1>1 DEF Min
<1> QED
  BY <1>2

(* The higher of two numbers. *)
LEMMA MaxOfTwo ==
    ASSUME NEW a \in Nat, NEW b \in Nat
    PROVE  Max({a, b}) \in {a, b} /\ a <= Max({a, b}) /\ b <= Max({a, b})
<1>1. PICK m \in {a, b} : \A y \in {a, b} : m >= y
  OBVIOUS
<1>2. Max({a, b}) \in {a, b} /\ \A y \in {a, b} : Max({a, b}) >= y
  BY <1>1 DEF Max
<1> QED
  BY <1>2

(* Sequences, their elements and the sets of them. *)
LEMMA HeadTailIn ==
    ASSUME NEW S, NEW s \in Seq(S), s # <<>>
    PROVE  Head(s) \in S /\ Tail(s) \in Seq(S) /\ Len(Tail(s)) = Len(s) - 1
OBVIOUS

LEMMA HeadAndTail ==
    ASSUME NEW S, NEW s \in Seq(S), s # <<>>
    PROVE  ToSet(s) = {Head(s)} \cup ToSet(Tail(s))
<1>1. /\ Head(s) = s[1] /\ Len(s) \in Nat \ {0} /\ Len(Tail(s)) = Len(s) - 1
      /\ \A i \in 1..Len(Tail(s)) : Tail(s)[i] = s[i + 1]
      /\ DOMAIN s = 1..Len(s) /\ DOMAIN Tail(s) = 1..Len(Tail(s))
  OBVIOUS
<1>2. ASSUME NEW i \in 1..Len(s) PROVE s[i] = Head(s) \/ \E j \in 1..Len(Tail(s)) : Tail(s)[j] = s[i]
  <2>1. CASE i = 1
    BY <1>1, <2>1
  <2>2. CASE i # 1
    <3>1. i - 1 \in 1..Len(Tail(s)) /\ Tail(s)[i - 1] = s[i - 1 + 1] /\ i - 1 + 1 = i
      BY <1>1, <2>2
    <3> QED
      BY <3>1
  <2> QED
    BY <2>1, <2>2
<1>3. 1 \in 1..Len(s) /\ \A i \in 1..Len(Tail(s)) : i + 1 \in 1..Len(s)
  BY <1>1
<1>4. ToSet(s) \subseteq {Head(s)} \cup ToSet(Tail(s))
  <2> SUFFICES ASSUME NEW e \in ToSet(s), e # Head(s) PROVE e \in ToSet(Tail(s))
    OBVIOUS
  <2>1. PICK i \in 1..Len(s) : s[i] = e
    BY <1>1 DEF ToSet
  <2>2. PICK j \in 1..Len(Tail(s)) : Tail(s)[j] = e
    BY <1>2, <2>1
  <2> QED
    BY <1>1, <2>2 DEF ToSet
<1>5. Head(s) \in ToSet(s) /\ ToSet(Tail(s)) \subseteq ToSet(s)
  BY <1>1, <1>3 DEF ToSet
<1> QED
  BY <1>4, <1>5

LEMMA ToSetAppend ==
    ASSUME NEW S, NEW s \in Seq(S), NEW e \in S
    PROVE  ToSet(Append(s, e)) = ToSet(s) \cup {e}
<1>1. /\ Len(s) \in Nat /\ DOMAIN s = 1..Len(s) /\ DOMAIN Append(s, e) = 1..(Len(s) + 1)
      /\ Append(s, e)[Len(s) + 1] = e /\ \A i \in 1..Len(s) : Append(s, e)[i] = s[i]
  OBVIOUS
<1>2. \A i \in 1..(Len(s) + 1) : i = Len(s) + 1 \/ i \in 1..Len(s)
  BY <1>1
<1>3. Len(s) + 1 \in 1..(Len(s) + 1) /\ \A i \in 1..Len(s) : i \in 1..(Len(s) + 1)
  BY <1>1
<1> QED
  BY <1>1, <1>2, <1>3 DEF ToSet

(* --- Loops --------------------------------------------------------------- *)
(* A set of naturals has a least one: what the inductions below rest on. *)
LEMMA NatMin ==
    ASSUME NEW S \in SUBSET Nat, S # {}
    PROVE  \E m \in S : \A n \in S : m <= n
<1> DEFINE R == OpToRel(<, Nat)
<1>1. IsWellFoundedOn(R, Nat)
  BY NatLessThanWellFounded
<1>2. \A x, y \in Nat : <<y, x>> \in R <=> y < x
  BY Zenon DEF OpToRel
<1> HIDE DEF R
<1>3. PICK x \in S : \A y \in S : ~ (<<y, x>> \in R)
  BY <1>1, WFMin
<1>4. \A y \in S : ~ (y < x)
  BY <1>2, <1>3, Zenon
<1> QED
  BY <1>4

(* A loop has its rounds: round i starts where round i - 1 ends. *)
Rounds(F, x, s, g, n) == g[0] = x /\ \A i \in 1..n : g[i] = F[g[i - 1]][s[i]]

LEMMA RoundsExist ==
    ASSUME NEW F, NEW x, NEW s, NEW n \in Nat
    PROVE  \E g : Rounds(F, x, s, g, n)
<1> DEFINE Bad == {k \in Nat : ~ \E g : Rounds(F, x, s, g, k)}
<1> SUFFICES ASSUME Bad # {} PROVE FALSE
  OBVIOUS
<1>1. PICK m \in Bad : \A k \in Bad : m <= k
  BY NatMin
<1>2. Rounds(F, x, s, [i \in {0} |-> x], 0)
  BY DEF Rounds
<1>3. m # 0
  BY <1>2, <1>1
<1>4. m - 1 \in Nat /\ m - 1 \notin Bad
  BY <1>1, <1>3
<1>5. PICK g : Rounds(F, x, s, g, m - 1)
  BY <1>4
<1> DEFINE next == F[g[m - 1]][s[m]]
           h == [i \in 0..m |-> IF i = m THEN next ELSE g[i]]
<1>6. h[0] = x
  BY <1>3, <1>4, <1>5 DEF Rounds
<1>7. ASSUME NEW i \in 1..m PROVE h[i] = F[h[i - 1]][s[i]]
  <2>1. h[i - 1] = g[i - 1]
    BY <1>4
  <2>2. CASE i = m
    BY <2>1, <2>2
  <2>3. CASE i # m
    <3>1. i \in 1..(m - 1) /\ h[i] = g[i]
      BY <2>3, <1>4
    <3> QED
      BY <3>1, <2>1, <1>5 DEF Rounds
  <2> QED
    BY <2>2, <2>3
<1> HIDE DEF h
<1>8. Rounds(F, x, s, h, m)
  BY <1>6, <1>7 DEF Rounds
<1> QED
  BY <1>8, <1>1

(* Two runs of a loop go through the same rounds. *)
LEMMA RoundsAgree ==
    ASSUME NEW F, NEW x, NEW s, NEW g, NEW h, NEW m \in Nat, NEW n \in Nat, m <= n,
           Rounds(F, x, s, g, m), Rounds(F, x, s, h, n)
    PROVE  g[m] = h[m]
<1> DEFINE Bad == {k \in Nat : k <= m /\ g[k] # h[k]}
<1> SUFFICES ASSUME Bad # {} PROVE FALSE
  OBVIOUS
<1>1. PICK k \in Bad : \A j \in Bad : k <= j
  BY NatMin
<1>2. k # 0
  BY <1>1 DEF Rounds
<1>3. g[k - 1] = h[k - 1] /\ k \in 1..m /\ k \in 1..n
  BY <1>1, <1>2
<1>4. g[k] = F[g[k - 1]][s[k]] /\ h[k] = F[h[k - 1]][s[k]]
  BY <1>3 DEF Rounds
<1> QED
  BY <1>1, <1>3, <1>4

(* What a loop returns is the end of its last round. *)
LEMMA LoopRuns ==
    ASSUME NEW F, NEW x, NEW s, Len(s) \in Nat
    PROVE  \E g : Rounds(F, x, s, g, Len(s)) /\ Loop(F, x, s) = g[Len(s)]
<1> DEFINE G(i) == CHOOSE g : Rounds(F, x, s, g, i)
           f == [i \in Nat |-> G(i)[i]]
           Turn(a, i) == IF i = 0 THEN x ELSE F[a[i - 1]][s[i]]
<1>1. ASSUME NEW i \in Nat PROVE Rounds(F, x, s, G(i), i)
  BY RoundsExist
<1> HIDE DEF G
<1>2. ASSUME NEW i \in Nat PROVE f[i] = Turn(f, i)
  <2>1. CASE i = 0
    BY <2>1, <1>1 DEF Rounds
  <2>2. CASE i # 0
    <3>1. i - 1 \in Nat /\ i \in 1..i
      BY <2>2
    <3>2. G(i - 1)[i - 1] = G(i)[i - 1]
      <4>1. /\ Rounds(F, x, s, G(i - 1), i - 1)
            /\ \A j \in 1..(i - 1) : j \in 1..i
        BY <1>1, <3>1
      <4> QED
        BY <4>1, <3>1, <1>1, RoundsAgree
    <3>3. G(i)[i] = F[G(i)[i - 1]][s[i]]
      BY <1>1, <3>1 DEF Rounds
    <3> QED
      BY <2>2, <3>1, <3>2, <3>3
  <2> QED
    BY <2>1, <2>2
<1> HIDE DEF f
<1>3. f = [i \in Nat |-> Turn(f, i)]
  <2>1. f = [i \in Nat |-> G(i)[i]]
    BY DEF f
  <2> QED
    BY <2>1, <1>2
<1> DEFINE after == CHOOSE a : a = [i \in Nat |-> Turn(a, i)]
<1>4. after = [i \in Nat |-> Turn(after, i)]
  BY <1>3, Zenon
<1>5. Loop(F, x, s) = after[Len(s)]
  BY DEF Loop
<1> HIDE DEF after
<1>6. ASSUME NEW i \in Nat PROVE after[i] = Turn(after, i)
  BY <1>4
<1>7. Rounds(F, x, s, after, Len(s))
  BY <1>6 DEF Rounds
<1> QED
  BY <1>5, <1>7

(* What every round keeps, the loop keeps. *)
LEMMA LoopStays ==
    ASSUME NEW F, NEW x, NEW s, NEW S, Len(s) \in Nat, x \in S,
           \A a \in S, i \in 1..Len(s) : F[a][s[i]] \in S
    PROVE  Loop(F, x, s) \in S
<1>1. PICK g : Rounds(F, x, s, g, Len(s)) /\ Loop(F, x, s) = g[Len(s)]
  BY LoopRuns
<1> DEFINE Bad == {k \in Nat : k <= Len(s) /\ g[k] \notin S}
<1> SUFFICES ASSUME Bad # {} PROVE FALSE
  BY <1>1
<1>2. PICK k \in Bad : \A j \in Bad : k <= j
  BY NatMin
<1>3. k # 0
  BY <1>2, <1>1 DEF Rounds
<1>4. k - 1 \in Nat /\ k - 1 <= Len(s) /\ k - 1 \notin Bad /\ k \in 1..Len(s)
  BY <1>2, <1>3
<1>5. g[k] = F[g[k - 1]][s[k]]
  BY <1>1, <1>4 DEF Rounds
<1> QED
  BY <1>2, <1>4, <1>5

(* What holds of the state between two rounds holds after the loop. *)
LEMMA LoopLeads ==
    ASSUME NEW F, NEW x, NEW s, Len(s) \in Nat, NEW S,
           x \in S[0], \A i \in 1..Len(s) : \A y \in S[i - 1] : F[y][s[i]] \in S[i]
    PROVE  Loop(F, x, s) \in S[Len(s)]
<1>1. PICK g : Rounds(F, x, s, g, Len(s)) /\ Loop(F, x, s) = g[Len(s)]
  BY LoopRuns
<1> DEFINE Bad == {k \in Nat : k <= Len(s) /\ g[k] \notin S[k]}
<1> SUFFICES ASSUME Bad # {} PROVE FALSE
  BY <1>1
<1>2. PICK k \in Bad : \A j \in Bad : k <= j
  BY NatMin
<1>3. k # 0
  BY <1>1 DEF Rounds
<1>4. k - 1 \in Nat /\ k - 1 <= Len(s) /\ k - 1 \notin Bad /\ k \in 1..Len(s)
  BY <1>2, <1>3
<1>5. g[k] = F[g[k - 1]][s[k]]
  BY <1>1, <1>4 DEF Rounds
<1> QED
  BY <1>2, <1>4, <1>5

(* --- Sorting ------------------------------------------------------------- *)
(* R is a strict total order on S. *)
Orders(R, S) ==
    /\ \A a \in S : <<a, a>> \notin R
    /\ \A a, b \in S : a # b => <<a, b>> \in R \/ <<b, a>> \in R
    /\ \A a, b, c \in S : <<a, b>> \in R /\ <<b, c>> \in R => <<a, c>> \in R

BeforeIn(R, S, a) == {b \in S : <<b, a>> \in R}

(* How many come before an element tells it from the others. *)
LEMMA Ranks ==
    ASSUME NEW S, NEW R, IsFiniteSet(S), Orders(R, S)
    PROVE  /\ Cardinality(S) \in Nat
           /\ \A a \in S : Cardinality(BeforeIn(R, S, a)) \in 0..(Cardinality(S) - 1)
           /\ \A a, b \in S : <<a, b>> \in R =>
                Cardinality(BeforeIn(R, S, a)) < Cardinality(BeforeIn(R, S, b))
<1> DEFINE B(a) == BeforeIn(R, S, a)
<1>1. Cardinality(S) \in Nat
  BY FS_CardinalityType
<1>2. ASSUME NEW a \in S
      PROVE  IsFiniteSet(B(a)) /\ Cardinality(B(a)) \in Nat /\ B(a) # S /\ Cardinality(B(a)) <= Cardinality(S)
  <2>1. B(a) \in SUBSET S /\ a \notin B(a)
    BY DEF BeforeIn, Orders
  <2> HIDE DEF B
  <2>2. IsFiniteSet(B(a)) /\ Cardinality(B(a)) <= Cardinality(S)
    BY <2>1, FS_Subset
  <2> QED
    BY <2>1, <2>2, FS_CardinalityType
<1>3. ASSUME NEW a \in S PROVE Cardinality(B(a)) # Cardinality(S)
  <2>1. B(a) \in SUBSET S /\ B(a) # S
    BY <1>2 DEF BeforeIn
  <2> HIDE DEF B
  <2> QED
    BY <2>1, FS_Subset
<1>4. ASSUME NEW a \in S, NEW b \in S, <<a, b>> \in R
      PROVE  Cardinality(B(a)) < Cardinality(B(b))
  <2>1. B(a) \in SUBSET B(b) /\ B(a) # B(b)
    BY <1>4 DEF BeforeIn, Orders
  <2>2. IsFiniteSet(B(b)) /\ Cardinality(B(a)) \in Nat /\ Cardinality(B(b)) \in Nat
    BY <1>2
  <2> HIDE DEF B
  <2>3. Cardinality(B(a)) <= Cardinality(B(b)) /\ Cardinality(B(a)) # Cardinality(B(b))
    BY <2>1, <2>2, FS_Subset
  <2> QED
    BY <2>2, <2>3
<1> HIDE DEF B
<1>5. ASSUME NEW a \in S PROVE Cardinality(B(a)) \in 0..(Cardinality(S) - 1)
  <2>1. Cardinality(B(a)) \in Nat /\ Cardinality(B(a)) <= Cardinality(S) /\ Cardinality(B(a)) # Cardinality(S)
    BY <1>2, <1>3
  <2> QED
    BY <1>1, <2>1
<1> QED
  BY <1>1, <1>4, <1>5 DEF B

(* InOrder has every element, once, from first to last. *)
LEMMA InOrderIs ==
    ASSUME NEW S, NEW R, IsFiniteSet(S), Orders(R, S)
    PROVE  /\ Cardinality(S) \in Nat
           /\ InOrder(S, R) \in [1..Cardinality(S) -> S]
           /\ \A i, j \in 1..Cardinality(S) : i < j => <<InOrder(S, R)[i], InOrder(S, R)[j]>> \in R
           /\ \A a \in S : \E i \in 1..Cardinality(S) : InOrder(S, R)[i] = a
<1> DEFINE n == Cardinality(S)
           rank(a) == Cardinality(BeforeIn(R, S, a))
           ranks == [a \in S |-> rank(a)]
           f == InOrder(S, R)
<1>1. /\ n \in Nat
      /\ \A a \in S : rank(a) \in 0..(n - 1)
      /\ \A a, b \in S : <<a, b>> \in R => rank(a) < rank(b)
  BY Ranks
<1>2. f = [i \in 1..n |-> CHOOSE a \in S : rank(a) = i - 1]
  BY DEF InOrder, BeforeIn
<1> HIDE DEF n, rank, f
<1>3. \A a, b \in S : a # b => <<a, b>> \in R \/ <<b, a>> \in R
  BY DEF Orders
<1>4. \A a, b \in S : rank(a) < rank(b) => <<a, b>> \in R
  <2> SUFFICES ASSUME NEW a \in S, NEW b \in S, rank(a) < rank(b) PROVE <<a, b>> \in R
    OBVIOUS
  <2>1. rank(a) \in Int /\ rank(b) \in Int
    BY <1>1
  <2>2. a # b /\ ~ (rank(b) < rank(a))
    BY <2>1
  <2> QED
    BY <1>1, <1>3, <2>2
<1>5. \A a, b \in S : rank(a) = rank(b) => a = b
  <2> SUFFICES ASSUME NEW a \in S, NEW b \in S, rank(a) = rank(b), a # b PROVE FALSE
    OBVIOUS
  <2>1. rank(a) \in Int /\ rank(b) \in Int
    BY <1>1
  <2>2. ~ (rank(a) < rank(b)) /\ ~ (rank(b) < rank(a))
    BY <2>1
  <2> QED
    BY <1>1, <1>3, <2>2
<1>6. ranks \in Injection(S, 0..(n - 1))
  BY <1>1, <1>5 DEF Injection, IsInjective
<1>7. IsFiniteSet(0..(n - 1)) /\ Cardinality(0..(n - 1)) = n
  <2>1. 0 \in Int /\ n - 1 \in Int
    BY <1>1
  <2>2. /\ IsFiniteSet(0..(n - 1))
        /\ Cardinality(0..(n - 1)) = IF 0 > n - 1 THEN 0 ELSE (n - 1) - 0 + 1
    BY <2>1, FS_Interval
  <2> QED
    BY <1>1, <2>2
<1>8. ranks \in Surjection(S, 0..(n - 1))
  BY <1>6, <1>7, FS_Injection DEF n
<1>9. \A k \in 0..(n - 1) : \E a \in S : rank(a) = k
  BY <1>8 DEF Surjection
<1>10. \A i \in 1..n : f[i] \in S /\ rank(f[i]) = i - 1
  <2> SUFFICES ASSUME NEW i \in 1..n PROVE f[i] \in S /\ rank(f[i]) = i - 1
    OBVIOUS
  <2>1. \E a \in S : rank(a) = i - 1
    BY <1>1, <1>9
  <2>2. f[i] = CHOOSE a \in S : rank(a) = i - 1
    BY <1>2
  <2> QED
    BY <2>1, <2>2
<1>11. f \in [1..n -> S]
  BY <1>2, <1>10
<1>12. \A i, j \in 1..n : i < j => <<f[i], f[j]>> \in R
  BY <1>1, <1>4, <1>10
<1>13. \A a \in S : \E i \in 1..n : f[i] = a
  <2> SUFFICES ASSUME NEW a \in S PROVE \E i \in 1..n : f[i] = a
    OBVIOUS
  <2>1. rank(a) + 1 \in 1..n /\ rank(a) \in Nat
    BY <1>1
  <2>2. f[rank(a) + 1] \in S /\ rank(f[rank(a) + 1]) = rank(a)
    BY <1>10, <2>1
  <2> QED
    BY <1>5, <2>1, <2>2
<1> QED
  BY <1>1, <1>11, <1>12, <1>13 DEF n, f

(* --- The graph and distances in it --------------------------------------- *)
NodeFields == {"vector", "level", "deleted", "neighbors"}

(* The nodes of the map and the lists between them. *)
Graph ==
    /\ DOMAIN nodes \subseteq Ids
    /\ \A id \in DOMAIN nodes :
         /\ DOMAIN nodes[id] = NodeFields
         /\ nodes[id].vector \in Vectors[id]
         /\ nodes[id].level \in LevelsOf[id]
         /\ nodes[id].neighbors \in [0..nodes[id].level -> Seq(DOMAIN nodes)]

(* Nodes are finitely many, and are points on layers. *)
LEMMA NodesAre ==
    ASSUME Graph
    PROVE  /\ IsFiniteSet(DOMAIN nodes) /\ Cardinality(DOMAIN nodes) \in Nat /\ DOMAIN nodes \subseteq Nat
           /\ \A id \in DOMAIN nodes : nodes[id].vector \in Int /\ nodes[id].level \in Nat
<1>1. IsFiniteSet(DOMAIN nodes)
  BY HNSWAssumption, FS_Subset DEF Graph
<1> QED
  BY <1>1, HNSWAssumption, FS_CardinalityType DEF Graph

LEMMA NeighborsAre ==
    ASSUME Graph, NEW a \in DOMAIN nodes, NEW layer \in Nat
    PROVE  Neighbors(a, layer) \in Seq(DOMAIN nodes)
<1>1. nodes[a].level \in Nat
  BY NodesAre
<1>2. CASE layer <= nodes[a].level
  <2>1. layer \in 0..nodes[a].level
    BY <1>1, <1>2
  <2> QED
    BY <2>1, <1>2 DEF Graph, Neighbors
<1>3. CASE ~ (layer <= nodes[a].level)
  BY <1>3 DEF Neighbors
<1> QED
  BY <1>2, <1>3

LEMMA FromIs ==
    ASSUME Graph, NEW query \in Int, NEW a \in DOMAIN nodes
    PROVE  From(query, a) \in Nat
<1>1. nodes[a].vector \in Int
  BY NodesAre
<1> QED
  BY <1>1 DEF From, Distance

Nearer(query, S) == {p \in S \X S : Closer(query, p[1], p[2])}

(* Nodes are ordered by their distance from a point. *)
LEMMA ClosenessOrders ==
    ASSUME Graph, NEW query \in Int, NEW S \in SUBSET DOMAIN nodes
    PROVE  /\ IsFiniteSet(S) /\ Orders(Nearer(query, S), S)
           /\ \A a, b \in S : <<a, b>> \in Nearer(query, S) <=> Closer(query, a, b)
<1>1. IsFiniteSet(S)
  BY NodesAre, FS_Subset
<1>2. \A a, b \in S : <<a, b>> \in Nearer(query, S) <=> Closer(query, a, b)
  BY DEF Nearer
<1>3. \A a \in S : From(query, a) \in Int /\ a \in Int
  BY FromIs, NodesAre
<1>4. /\ \A a \in S : ~ Closer(query, a, a)
      /\ \A a, b \in S : a # b => Closer(query, a, b) \/ Closer(query, b, a)
      /\ \A a, b, c \in S : Closer(query, a, b) /\ Closer(query, b, c) => Closer(query, a, c)
  BY <1>3 DEF Closer
<1> QED
  BY <1>1, <1>2, <1>4 DEF Orders

(* The nodes of a set by distance, and the first and the last of them. *)
LEMMA ByDistanceIs ==
    ASSUME Graph, NEW query \in Int, NEW S \in SUBSET DOMAIN nodes
    PROVE  /\ Cardinality(S) \in Nat
           /\ ByDistance(query, S) \in [1..Cardinality(S) -> S]
           /\ \A i, j \in 1..Cardinality(S) : i < j =>
                Closer(query, ByDistance(query, S)[i], ByDistance(query, S)[j])
           /\ \A a \in S : \E i \in 1..Cardinality(S) : ByDistance(query, S)[i] = a
<1> DEFINE f == InOrder(S, Nearer(query, S))
<1>1. ByDistance(query, S) = f
  BY DEF ByDistance, Nearer
<1>2. /\ Cardinality(S) \in Nat
      /\ f \in [1..Cardinality(S) -> S]
      /\ \A i, j \in 1..Cardinality(S) : i < j => <<f[i], f[j]>> \in Nearer(query, S)
      /\ \A a \in S : \E i \in 1..Cardinality(S) : f[i] = a
  BY ClosenessOrders, InOrderIs
<1> HIDE DEF f
<1>3. \A i, j \in 1..Cardinality(S) : i < j => Closer(query, f[i], f[j])
  BY <1>2, ClosenessOrders
<1> QED
  BY <1>1, <1>2, <1>3

LEMMA NearestIs ==
    ASSUME Graph, NEW query \in Int, NEW S \in SUBSET DOMAIN nodes, S # {}
    PROVE  /\ Nearest(query, S) \in S
           /\ \A b \in S \ {Nearest(query, S)} : Closer(query, Nearest(query, S), b)
           /\ Farthest(query, S) \in S
           /\ \A b \in S \ {Farthest(query, S)} : Closer(query, b, Farthest(query, S))
<1> DEFINE n == Cardinality(S)
           f == ByDistance(query, S)
<1>1. /\ n \in Nat /\ f \in [1..n -> S]
      /\ \A i, j \in 1..n : i < j => Closer(query, f[i], f[j])
      /\ \A a \in S : \E i \in 1..n : f[i] = a
  BY ByDistanceIs
<1> HIDE DEF n, f
<1>2. 1 \in 1..n /\ n \in 1..n
  <2>1. PICK a \in S : TRUE
    OBVIOUS
  <2>2. PICK i \in 1..n : f[i] = a
    BY <1>1, <2>1
  <2> QED
    BY <1>1, <2>2
<1>3. f[1] \in S /\ \A b \in S \ {f[1]} : Closer(query, f[1], b)
  <2> SUFFICES ASSUME NEW b \in S \ {f[1]} PROVE Closer(query, f[1], b)
    BY <1>1, <1>2
  <2>1. PICK i \in 1..n : f[i] = b
    BY <1>1
  <2>2. 1 < i
    BY <2>1, <1>1
  <2> QED
    BY <1>1, <1>2, <2>1, <2>2
<1>4. f[n] \in S /\ \A b \in S \ {f[n]} : Closer(query, b, f[n])
  <2> SUFFICES ASSUME NEW b \in S \ {f[n]} PROVE Closer(query, b, f[n])
    BY <1>1, <1>2
  <2>1. PICK i \in 1..n : f[i] = b
    BY <1>1
  <2>2. i < n
    BY <2>1, <1>1
  <2> QED
    BY <1>1, <1>2, <2>1, <2>2
<1>5. Nearest(query, S) = CHOOSE a \in S : \A b \in S \ {a} : Closer(query, a, b)
  BY DEF Nearest
<1>6. Farthest(query, S) = CHOOSE a \in S : \A b \in S \ {a} : Closer(query, b, a)
  BY DEF Farthest
<1>7. /\ Nearest(query, S) \in S
      /\ \A b \in S \ {Nearest(query, S)} : Closer(query, Nearest(query, S), b)
  BY <1>3, <1>5, Zenon
<1>8. /\ Farthest(query, S) \in S
      /\ \A b \in S \ {Farthest(query, S)} : Closer(query, b, Farthest(query, S))
  BY <1>4, <1>6, Zenon
<1> QED
  BY <1>7, <1>8

(* --- Searches ------------------------------------------------------------ *)
(* No list of layer leads out of C. *)
ClosedAt(C, layer) == C \subseteq DOMAIN nodes /\ \A a \in C : ToSet(Neighbors(a, layer)) \subseteq C

LEMMA TimesIs == ASSUME NEW n \in Nat PROVE Len(Times(n)) = n /\ \A i \in 1..n : Times(n)[i] = i
BY DEF Times

(* A greedy walk stays where lists lead. *)
LEMMA GreedyStays ==
    ASSUME Graph, NEW query \in Int, NEW layer \in Nat, NEW C, ClosedAt(C, layer), NEW ep \in C
    PROVE  Greedy(query, ep, layer) \in C
<1> DEFINE Nearby(a) == {a} \cup {n \in ToSet(Neighbors(a, layer)) : From(query, n) < From(query, a)}
           Round == [a \in DOMAIN nodes |-> [i \in Nat |-> Nearest(query, Nearby(a))]]
           turns == Times(Cardinality(DOMAIN nodes))
<1>1. Greedy(query, ep, layer) = Loop(Round, ep, turns)
  BY DEF Greedy
<1>2. Len(turns) \in Nat /\ \A i \in 1..Len(turns) : turns[i] \in Nat
  BY NodesAre, TimesIs
<1>3. ASSUME NEW a \in C, NEW i \in Nat PROVE Round[a][i] \in C
  <2>1. Nearby(a) \in SUBSET C /\ Nearby(a) # {} /\ C \subseteq DOMAIN nodes
    BY DEF ClosedAt
  <2>2. Round[a][i] = Nearest(query, Nearby(a))
    BY <2>1
  <2> HIDE DEF Nearby
  <2>3. Nearby(a) \in SUBSET DOMAIN nodes
    BY <2>1
  <2> QED
    BY <2>1, <2>2, <2>3, NearestIs
<1> HIDE DEF Round, turns
<1>4. \A a \in C, i \in 1..Len(turns) : Round[a][turns[i]] \in C
  BY <1>2, <1>3
<1> QED
  BY <1>1, <1>2, <1>4, LoopStays

(* So does a descent, if it does so on every layer it passes. *)
LEMMA DescendStays ==
    ASSUME Graph, NEW query \in Int, NEW top \in Nat, NEW floor \in Nat,
           NEW C, \A layer \in Nat : layer > floor => ClosedAt(C, layer),
           NEW ep \in C, C \subseteq DOMAIN nodes
    PROVE  Descend(query, ep, top, floor) \in C
<1> DEFINE Down == [a \in DOMAIN nodes |-> [layer \in Nat |-> Greedy(query, a, layer)]]
           layers == [i \in 1..(top - floor) |-> top + 1 - i]
<1>1. Descend(query, ep, top, floor) = Loop(Down, ep, layers)
  BY DEF Descend
<1>2. Len(layers) \in Nat /\ \A i \in 1..Len(layers) : layers[i] \in Nat /\ layers[i] > floor
  <2>1. CASE top - floor \in Nat
    <3>1. Len(layers) = top - floor
      BY <2>1
    <3>2. \A i \in 1..(top - floor) : layers[i] = top + 1 - i /\ i <= top - floor /\ i \in Nat
      BY <2>1
    <3> HIDE DEF layers
    <3> QED
      BY <2>1, <3>1, <3>2
  <2>2. CASE ~ (top - floor \in Nat)
    <3>1. 1..(top - floor) = {}
      BY <2>2
    <3>2. layers = <<>>
      BY <3>1
    <3> HIDE DEF layers
    <3> QED
      BY <3>2
  <2> QED
    BY <2>1, <2>2
<1>3. ASSUME NEW a \in C, NEW layer \in Nat, layer > floor PROVE Down[a][layer] \in C
  BY <1>3, GreedyStays
<1> HIDE DEF Down, layers
<1>4. \A a \in C, i \in 1..Len(layers) : Down[a][layers[i]] \in C
  BY <1>2, <1>3
<1> QED
  BY <1>1, <1>2, <1>4, LoopStays

(* A search among the nodes of C. *)
SearchIn(C, s) == /\ s \in Searches /\ s.candidates \subseteq C /\ s.visited \subseteq C
                  /\ s.results \subseteq C /\ s.results # {}

(* It stays among them, and keeps a result: an evicted one makes room for another. *)
LEMMA VisitStays ==
    ASSUME Graph, NEW query \in Int, NEW ef \in Nat \ {0}, NEW C, C \subseteq DOMAIN nodes,
           NEW s, SearchIn(C, s), NEW n \in C
    PROVE  SearchIn(C, Visit(query, ef, s, n))
<1> DEFINE grown == s.results \cup {n}
           less == grown \ {Farthest(query, grown)}
<1>1. grown \in SUBSET DOMAIN nodes /\ grown # {} /\ grown \subseteq C
  BY DEF SearchIn
<1>2. Cardinality(grown) > ef => less # {}
  <2> SUFFICES ASSUME Cardinality(grown) > ef, less = {} PROVE FALSE
    OBVIOUS
  <2>1. grown = {Farthest(query, grown)}
    BY <1>1
  <2>2. Cardinality(grown) = 1
    BY <2>1, FS_Singleton
  <2> QED
    BY <2>2
<1>3. less \subseteq C /\ less \subseteq DOMAIN nodes
  BY <1>1
<1> DEFINE next == Visit(query, ef, s, n)
           T == SUBSET DOMAIN nodes
<1>4. \/ next = s
      \/ \E c, r, v : /\ next = [visited |-> v, candidates |-> c, results |-> r]
                      /\ v = s.visited \cup {n} /\ c \in {s.candidates, s.candidates \cup {n}}
                      /\ r \in {s.results, grown, less} /\ r # {}
  BY <1>1, <1>2 DEF Visit, SearchIn
<1> HIDE DEF grown, less, next
<1>5. ASSUME NEW c, NEW r, NEW v, next = [visited |-> v, candidates |-> c, results |-> r],
             v = s.visited \cup {n}, c \in {s.candidates, s.candidates \cup {n}},
             r \in {s.results, grown, less}, r # {}
      PROVE  SearchIn(C, next)
  <2>1. c \subseteq C /\ r \subseteq C /\ v \subseteq C
    BY <1>1, <1>3, <1>5 DEF SearchIn
  <2> QED
    BY <1>5, <2>1 DEF SearchIn, Searches
<1> QED
  BY <1>4, <1>5 DEF next

LEMMA ExpandStays ==
    ASSUME Graph, NEW query \in Int, NEW ef \in Nat \ {0}, NEW layer \in Nat, NEW C, ClosedAt(C, layer),
           NEW s, SearchIn(C, s), s.candidates # {}
    PROVE  /\ Nearest(query, s.candidates) \in s.candidates
           /\ SearchIn(C, Expand(query, ef, layer, s))
<1> DEFINE c == Nearest(query, s.candidates)
           open == [s EXCEPT !.candidates = @ \ {c}]
           ns == Neighbors(c, layer)
           Each == [x \in Searches |-> [n \in DOMAIN nodes |-> Visit(query, ef, x, n)]]
           S == {x \in Searches : SearchIn(C, x)}
<1>1. s.candidates \in SUBSET DOMAIN nodes /\ C \subseteq DOMAIN nodes
  BY DEF SearchIn, ClosedAt
<1>2. c \in s.candidates /\ c \in C
  BY <1>1, NearestIs DEF SearchIn
<1>3. Expand(query, ef, layer, s) = Loop(Each, open, ns)
  BY DEF Expand, VisitAll
<1>4. ns \in Seq(DOMAIN nodes) /\ ToSet(ns) \subseteq C
  BY <1>1, <1>2, NeighborsAre DEF ClosedAt
<1>5. open \in S
  BY DEF SearchIn, Searches
<1>6. \A i \in 1..Len(ns) : ns[i] \in C
  BY <1>4 DEF ToSet
<1>7. ASSUME NEW x \in S, NEW n \in C PROVE Each[x][n] \in S
  <2>1. Each[x][n] = Visit(query, ef, x, n)
    BY <1>1
  <2>2. SearchIn(C, Visit(query, ef, x, n))
    BY <1>1, VisitStays
  <2> QED
    BY <2>1, <2>2 DEF SearchIn
<1> HIDE DEF c, open, ns, Each, S
<1>8. \A x \in S, i \in 1..Len(ns) : Each[x][ns[i]] \in S
  BY <1>6, <1>7
<1>9. Loop(Each, open, ns) \in S
  BY <1>4, <1>5, <1>8, LoopStays
<1> QED
  BY <1>2, <1>3, <1>9 DEF S, c

(* A beam search finds something, among the nodes its lists lead to. *)
LEMMA BeamStays ==
    ASSUME Graph, NEW query \in Int, NEW ef \in Nat \ {0}, NEW layer \in Nat, NEW C, ClosedAt(C, layer),
           NEW ep \in C
    PROVE  Beam(query, ep, ef, layer) \subseteq C /\ Beam(query, ep, ef, layer) # {}
<1> DEFINE Round == [s \in Searches |-> [i \in Nat |-> IF Done(query, ef, s) THEN s ELSE Expand(query, ef, layer, s)]]
           turns == Times(Cardinality(DOMAIN nodes))
           S == {x \in Searches : SearchIn(C, x)}
<1>1. Beam(query, ep, ef, layer) = Loop(Round, StartAt(ep), turns).results
  BY DEF Beam
<1>2. Len(turns) \in Nat /\ \A i \in 1..Len(turns) : turns[i] \in Nat
  BY NodesAre, TimesIs
<1>3. StartAt(ep) \in S
  BY DEF StartAt, SearchIn, Searches, ClosedAt
<1>4. ASSUME NEW s \in S, NEW i \in Nat PROVE Round[s][i] \in S
  <2>1. Round[s][i] = IF Done(query, ef, s) THEN s ELSE Expand(query, ef, layer, s)
    OBVIOUS
  <2>2. CASE Done(query, ef, s)
    BY <2>1, <2>2
  <2>3. CASE ~ Done(query, ef, s)
    <3>1. s.candidates # {} /\ SearchIn(C, s)
      BY <2>3 DEF Done
    <3>2. SearchIn(C, Expand(query, ef, layer, s))
      BY <3>1, ExpandStays
    <3> QED
      BY <2>1, <2>3, <3>2 DEF SearchIn
  <2> QED
    BY <2>2, <2>3
<1> HIDE DEF Round, turns, S
<1>5. \A s \in S, i \in 1..Len(turns) : Round[s][turns[i]] \in S
  BY <1>2, <1>4
<1>6. Loop(Round, StartAt(ep), turns) \in S
  BY <1>2, <1>3, <1>5, LoopStays
<1> QED
  BY <1>1, <1>6 DEF S, SearchIn

(* --- The entry point ----------------------------------------------------- *)
PlaceFields == {"at", "id", "ep", "top", "layer", "found"}
OnLayers == {"layer", "forward", "reverse", "prune"}
Places == {"idle", "added", "first", "entered", "promote", "level"} \cup OnLayers

(* Nodes and the threads' places have their fields; a thread inside insert is
   about a node of the map.  The neighbour lists and what the searches found
   are not looked at. *)
Shape ==
    /\ DOMAIN nodes \subseteq Ids
    /\ \A id \in DOMAIN nodes : DOMAIN nodes[id] = NodeFields /\ nodes[id].level \in Nat
    /\ maxLevel \in Nat
    /\ DOMAIN insert = Threads
    /\ \A th \in Threads : /\ DOMAIN insert[th] = PlaceFields
                           /\ insert[th].at \in Places
                           /\ insert[th].layer \in Nat
                           /\ insert[th].at # "idle" => insert[th].id \in DOMAIN nodes
    /\ overlapped \in BOOLEAN

(* Until two inserts overlap, one thread at a time is inside insert. *)
Alone == \A th, u \in Threads : th # u /\ ~ At(th, "idle") => At(u, "idle")

(* The entry point is on the top layer, and above every node of S. *)
Below(S, n) == \A id \in S : nodes[id].level <= n
Tops(S) == /\ entry \in S /\ nodes[entry].level = maxLevel
           /\ Below(S, maxLevel)

(* What holds at each place of the one insert, whose node is not yet counted. *)
Inside(th) ==
    LET t == insert[th]
        others == DOMAIN nodes \ {t.id}
    IN /\ t.at = "added" => IF entry = None THEN others = {} ELSE Tops(others)
       /\ t.at = "first" => others = {}
       /\ t.at = "entered" => Tops(others)
       /\ t.at \in OnLayers => Tops(others) /\ t.top = maxLevel
       /\ t.at = "promote" => Below(others, nodes[t.id].level)
       /\ t.at = "level" => entry = t.id /\ Below(others, nodes[t.id].level)
Between == Quiet => IF DOMAIN nodes = {} THEN entry = None ELSE Tops(DOMAIN nodes)

Serial == ~ overlapped => /\ Alone /\ Between
                          /\ \A th \in Threads : Inside(th)

------------------------------------------------------------------------------
(* Steps that touch neighbour lists and tombstones move no node to another
   layer. *)
NodesKeep ==
    /\ DOMAIN nodes' = DOMAIN nodes
    /\ \A id \in DOMAIN nodes : /\ DOMAIN nodes'[id] = NodeFields
                                /\ nodes'[id].level = nodes[id].level

LEMMA ListsKeepNodes ==
    ASSUME Shape, NEW n, NEW l, NEW x, nodes' = [nodes EXCEPT ![n].neighbors[l] = x]
    PROVE  NodesKeep
BY DEF Shape, NodesKeep, NodeFields

LEMMA SameNodesKeep == ASSUME Shape, nodes' = nodes PROVE NodesKeep
BY DEF Shape, NodesKeep

LEMMA LinkingKeepsNodes ==
    ASSUME Shape, NEW th \in Threads,
           SetForward(th) \/ AddReverse(th) \/ Prune(th) \/ NextLayer(th) \/ FindNeighbors(th)
    PROVE  NodesKeep
<1>1. CASE SetForward(th)
  BY <1>1, ListsKeepNodes DEF SetForward
<1>2. CASE AddReverse(th)
  BY <1>2, ListsKeepNodes, SameNodesKeep DEF AddReverse
<1>3. CASE Prune(th)
  <2> DEFINE t == insert[th]
             n == Head(t.found)
  <2>1. \/ nodes' = nodes
        \/ \E x : nodes' = [nodes EXCEPT ![n].neighbors[t.layer] = x]
    BY <1>3 DEF Prune
  <2> QED
    BY <2>1, ListsKeepNodes, SameNodesKeep
<1>4. CASE NextLayer(th) \/ FindNeighbors(th)
  BY <1>4, SameNodesKeep DEF NextLayer, FindNeighbors, shared
<1> QED
  BY <1>1, <1>2, <1>3, <1>4

(* Where a step of insert takes the thread, and what it keeps. *)
Moves(th, from, to) ==
    /\ insert[th].at \in from /\ insert'[th].at \in to
    /\ DOMAIN insert'[th] = PlaceFields
    /\ insert'[th].layer \in Nat
    /\ "idle" \notin to => insert'[th].id = insert[th].id /\ insert'[th].top = insert[th].top
    /\ DOMAIN insert' = Threads
    /\ \A u \in Threads \ {th} : insert'[u] = insert[u]

(* The steps of the linking move the thread from layer to layer. *)
LEMMA LinkingMoves ==
    ASSUME Shape, NEW th \in Threads
    PROVE  /\ SetForward(th) \/ AddReverse(th) \/ Prune(th) \/ FindNeighbors(th)
              => Moves(th, OnLayers, OnLayers) /\ UNCHANGED <<entry, maxLevel, overlapped>>
           /\ NextLayer(th) => \/ Moves(th, OnLayers, OnLayers)
                               \/ Moves(th, OnLayers, {"promote"})
                                  /\ nodes[insert[th].id].level > insert[th].top
                               \/ Moves(th, OnLayers, {"idle"})
                                  /\ ~ (nodes[insert[th].id].level > insert[th].top)
<1> USE DEF Shape, PlaceFields, OnLayers, Moves, At, Go, history
<1>1. ASSUME SetForward(th)
      PROVE  Moves(th, OnLayers, OnLayers) /\ UNCHANGED <<entry, maxLevel, overlapped>>
  BY <1>1 DEF SetForward
<1>2. ASSUME AddReverse(th)
      PROVE  Moves(th, OnLayers, OnLayers) /\ UNCHANGED <<entry, maxLevel, overlapped>>
  BY <1>2 DEF AddReverse
<1>3. ASSUME Prune(th)
      PROVE  Moves(th, OnLayers, OnLayers) /\ UNCHANGED <<entry, maxLevel, overlapped>>
  BY <1>3 DEF Prune
<1>4. ASSUME FindNeighbors(th)
      PROVE  Moves(th, OnLayers, OnLayers) /\ UNCHANGED <<entry, maxLevel, overlapped>>
  BY <1>4 DEF FindNeighbors, shared
<1>5. ASSUME NextLayer(th)
      PROVE  \/ Moves(th, OnLayers, OnLayers)
             \/ Moves(th, OnLayers, {"promote"}) /\ nodes[insert[th].id].level > insert[th].top
             \/ Moves(th, OnLayers, {"idle"}) /\ ~ (nodes[insert[th].id].level > insert[th].top)
  <2> DEFINE t == insert[th]
  <2>1. CASE t.layer > 0
    BY <1>5, <2>1 DEF NextLayer
  <2>2. CASE t.layer = 0 /\ nodes[t.id].level > t.top
    BY <1>5, <2>2 DEF NextLayer
  <2>3. CASE t.layer = 0 /\ ~ (nodes[t.id].level > t.top)
    BY <1>5, <2>3 DEF NextLayer, Idle
  <2> QED
    BY <2>1, <2>2, <2>3
<1> QED
  BY <1>1, <1>2, <1>3, <1>4, <1>5

(* Adding brings one node, of the level drawn, and starts an insert. *)
LEMMA AddShape ==
    ASSUME Shape, NEW th \in Threads, NEW id \in Ids, NEW v, NEW level \in LevelsOf[id],
           Add(th, id, v, level), id \notin DOMAIN nodes
    PROVE  /\ DOMAIN nodes' = DOMAIN nodes \cup {id}
           /\ DOMAIN nodes'[id] = NodeFields /\ nodes'[id].level = level /\ level \in Nat
           /\ \A n \in DOMAIN nodes : nodes'[n] = nodes[n]
           /\ insert[th].at = "idle" /\ insert'[th].at = "added" /\ insert'[th].id = id
           /\ DOMAIN insert'[th] = PlaceFields /\ insert'[th].layer \in Nat
           /\ DOMAIN insert' = Threads
           /\ \A u \in Threads \ {th} : insert'[u] = insert[u]
           /\ entry' = entry /\ maxLevel' = maxLevel
           /\ overlapped' = (overlapped \/ \E other \in Threads : ~ At(other, "idle"))
<1>1. /\ nodes' = [n \in DOMAIN nodes \cup {id} |-> IF n = id THEN Node(v, level) ELSE nodes[n]]
      /\ insert' = [insert EXCEPT ![th] = [Idle EXCEPT !.at = "added", !.id = id]]
      /\ entry' = entry /\ maxLevel' = maxLevel
      /\ overlapped' = (overlapped \/ \E other \in Threads : ~ At(other, "idle"))
      /\ insert[th].at = "idle"
  BY DEF Add, Go, At
<1>2. level \in Nat
  BY HNSWAssumption
<1>3. /\ DOMAIN nodes' = DOMAIN nodes \cup {id}
      /\ nodes'[id] = Node(v, level)
      /\ \A n \in DOMAIN nodes : nodes'[n] = nodes[n]
  BY <1>1
<1>4. DOMAIN Node(v, level) = NodeFields /\ Node(v, level).level = level
  BY DEF Node, NodeFields
<1>5. /\ insert'[th].at = "added" /\ insert'[th].id = id
      /\ DOMAIN insert'[th] = PlaceFields /\ insert'[th].layer \in Nat
      /\ DOMAIN insert' = Threads
      /\ \A u \in Threads \ {th} : insert'[u] = insert[u]
  BY <1>1 DEF Shape, Idle, PlaceFields
<1> QED
  BY <1>1, <1>2, <1>3, <1>4, <1>5

(* The steps that read or move the entry point. *)
LEMMA EntryMoves ==
    ASSUME Shape, NEW th \in Threads
    PROVE  /\ ReadEntry(th) =>
                 /\ Moves(th, {"added"}, IF entry = None THEN {"first"} ELSE {"entered"})
                 /\ UNCHANGED <<nodes, entry, maxLevel, overlapped>>
           /\ FirstEntry(th) =>
                 /\ Moves(th, {"first"}, {"level"}) /\ entry' = insert[th].id
                 /\ UNCHANGED <<nodes, maxLevel, overlapped>>
           /\ PromoteEntry(th) =>
                 /\ Moves(th, {"promote"}, {"level"}) /\ entry' = insert[th].id
                 /\ UNCHANGED <<nodes, maxLevel, overlapped>>
           /\ SetMaxLevel(th) =>
                 /\ Moves(th, {"level"}, {"idle"}) /\ maxLevel' = nodes[insert[th].id].level
                 /\ UNCHANGED <<nodes, entry, overlapped>>
<1> USE DEF Shape, PlaceFields, Moves, At, Go, history, shared
<1>1. ASSUME ReadEntry(th)
      PROVE  /\ Moves(th, {"added"}, IF entry = None THEN {"first"} ELSE {"entered"})
             /\ UNCHANGED <<nodes, entry, maxLevel, overlapped>>
  BY <1>1 DEF ReadEntry
<1>2. ASSUME FirstEntry(th)
      PROVE  /\ Moves(th, {"first"}, {"level"}) /\ entry' = insert[th].id
             /\ UNCHANGED <<nodes, maxLevel, overlapped>>
  BY <1>2 DEF FirstEntry, SetEntry
<1>3. ASSUME PromoteEntry(th)
      PROVE  /\ Moves(th, {"promote"}, {"level"}) /\ entry' = insert[th].id
             /\ UNCHANGED <<nodes, maxLevel, overlapped>>
  BY <1>3 DEF PromoteEntry, SetEntry
<1>4. ASSUME SetMaxLevel(th)
      PROVE  /\ Moves(th, {"level"}, {"idle"}) /\ maxLevel' = nodes[insert[th].id].level
             /\ UNCHANGED <<nodes, entry, overlapped>>
  BY <1>4 DEF SetMaxLevel, Idle
<1> QED
  BY <1>1, <1>2, <1>3, <1>4

LEMMA DescendMoves ==
    ASSUME Shape, NEW th \in Threads, DescendTo(th)
    PROVE  /\ insert[th].at = "entered" /\ insert'[th].at = "layer"
           /\ DOMAIN insert'[th] = PlaceFields /\ insert'[th].layer \in Nat
           /\ insert'[th].id = insert[th].id /\ insert'[th].top = maxLevel
           /\ DOMAIN insert' = Threads
           /\ \A u \in Threads \ {th} : insert'[u] = insert[u]
           /\ UNCHANGED <<nodes, entry, maxLevel, overlapped>>
<1> DEFINE lower == Min({nodes[insert[th].id].level, maxLevel})
<1>1. insert[th].at = "entered" /\ insert[th].id \in DOMAIN nodes
  BY DEF DescendTo, At, Shape
<1>2. lower \in Nat
  BY <1>1, MinOfTwo DEF Shape
<1>3. /\ \E ep : insert' = [insert EXCEPT ![th] =
              [insert[th] EXCEPT !.at = "layer", !.top = maxLevel, !.layer = lower, !.ep = ep]]
      /\ UNCHANGED <<nodes, entry, maxLevel, overlapped>>
  BY DEF DescendTo, Go, shared, history
<1> HIDE DEF lower
<1> QED
  BY <1>1, <1>2, <1>3 DEF Shape, PlaceFields

LEMMA RemovalKeeps ==
    ASSUME Shape, NEW id \in Ids, RemoveVector(id)
    PROVE  NodesKeep /\ UNCHANGED <<entry, maxLevel, insert, overlapped>>
BY DEF Shape, RemoveVector, Live, NodesKeep, NodeFields

------------------------------------------------------------------------------
LEMMA MovedShape ==
    ASSUME Shape, NodesKeep, maxLevel' \in Nat, overlapped' = overlapped,
           NEW th \in Threads, NEW from, NEW to \in SUBSET Places, Moves(th, from, to),
           "idle" \notin from, "idle" \notin to \/ insert'[th].at = "idle"
    PROVE  Shape'
BY DEF Shape, NodesKeep, Moves

LEMMA ShapeStep == ASSUME Shape, [Next]_vars PROVE Shape'
<1>1. ASSUME NEW th \in Threads, NEW id \in Ids, NEW v \in Vectors[id], NEW level \in LevelsOf[id],
             Add(th, id, v, level)
      PROVE  Shape'
  <2>1. CASE id \in DOMAIN nodes
    BY <1>1, <2>1 DEF Add, Shape, vars
  <2>2. CASE id \notin DOMAIN nodes
    <3>0. /\ DOMAIN nodes' = DOMAIN nodes \cup {id}
          /\ DOMAIN nodes'[id] = NodeFields /\ nodes'[id].level \in Nat
          /\ \A n \in DOMAIN nodes : nodes'[n] = nodes[n]
          /\ insert'[th].at = "added" /\ insert'[th].id = id
          /\ DOMAIN insert'[th] = PlaceFields /\ insert'[th].layer \in Nat
          /\ DOMAIN insert' = Threads /\ \A u \in Threads \ {th} : insert'[u] = insert[u]
          /\ maxLevel' = maxLevel
      BY <1>1, <2>2, AddShape
    <3>a. overlapped' \in BOOLEAN
      <4>1. overlapped' = (overlapped \/ \E other \in Threads : ~ At(other, "idle"))
        BY <1>1, <2>2, AddShape
      <4> QED
        BY <4>1
    <3>1. /\ DOMAIN nodes' \subseteq Ids
          /\ \A n \in DOMAIN nodes' : DOMAIN nodes'[n] = NodeFields /\ nodes'[n].level \in Nat
      BY <3>0 DEF Shape
    <3>2. maxLevel' \in Nat /\ overlapped' \in BOOLEAN /\ DOMAIN insert' = Threads
      BY <3>0, <3>a DEF Shape
    <3>3. ASSUME NEW u \in Threads
          PROVE  /\ DOMAIN insert'[u] = PlaceFields /\ insert'[u].at \in Places
                 /\ insert'[u].layer \in Nat
                 /\ insert'[u].at # "idle" => insert'[u].id \in DOMAIN nodes'
      <4>1. CASE u = th
        BY <3>0, <4>1 DEF Places
      <4>2. CASE u # th
        BY <3>0, <4>2 DEF Shape
      <4> QED
        BY <4>1, <4>2
    <3> QED
      BY <3>1, <3>2, <3>3 DEF Shape
  <2> QED
    BY <2>1, <2>2
<1>2. ASSUME NEW th \in Threads, ReadEntry(th) \/ FirstEntry(th) \/ PromoteEntry(th)
      PROVE  Shape'
  <2>1. /\ NodesKeep /\ UNCHANGED <<maxLevel, overlapped>>
        /\ \/ Moves(th, {"added"}, {"first"}) \/ Moves(th, {"added"}, {"entered"})
           \/ Moves(th, {"first"}, {"level"}) \/ Moves(th, {"promote"}, {"level"})
    BY <1>2, EntryMoves, SameNodesKeep
  <2>2. maxLevel' \in Nat
    BY <2>1 DEF Shape
  <2> QED
    BY <2>1, <2>2, MovedShape DEF Places
<1>3. ASSUME NEW th \in Threads, SetMaxLevel(th) PROVE Shape'
  <2>1. /\ NodesKeep /\ overlapped' = overlapped /\ Moves(th, {"level"}, {"idle"})
        /\ maxLevel' = nodes[insert[th].id].level
    BY <1>3, EntryMoves, SameNodesKeep
  <2>2. maxLevel' \in Nat /\ insert'[th].at = "idle"
    BY <2>1 DEF Shape, Moves
  <2> QED
    BY <2>1, <2>2, MovedShape DEF Places
<1>4. ASSUME NEW th \in Threads, DescendTo(th) PROVE Shape'
  BY <1>4, DescendMoves DEF Shape, Places, OnLayers
<1>5. ASSUME NEW th \in Threads,
             SetForward(th) \/ AddReverse(th) \/ Prune(th) \/ FindNeighbors(th) \/ NextLayer(th)
      PROVE  Shape'
  <2>1. /\ NodesKeep /\ UNCHANGED <<maxLevel, overlapped>>
        /\ \/ Moves(th, OnLayers, OnLayers) \/ Moves(th, OnLayers, {"promote"})
           \/ Moves(th, OnLayers, {"idle"})
    BY <1>5, LinkingKeepsNodes, LinkingMoves DEF NextLayer, shared, history
  <2>2. maxLevel' \in Nat /\ "idle" \notin OnLayers
    BY <2>1 DEF Shape, OnLayers
  <2>3. Moves(th, OnLayers, {"idle"}) => insert'[th].at = "idle"
    BY DEF Moves
  <2> QED
    BY <2>1, <2>2, <2>3, MovedShape DEF Places
<1>6. ASSUME NEW id \in Ids, RemoveVector(id) PROVE Shape'
  BY <1>6, RemovalKeeps DEF Shape, NodesKeep
<1>7. CASE UNCHANGED vars
  BY <1>7 DEF vars, Shape
<1> QED
  BY <1>1, <1>2, <1>3, <1>4, <1>5, <1>6, <1>7, HNSWAssumption DEF Next, Step, RandomLevel

(* While one thread is inside insert, its step is all that can matter. *)
LEMMA MovedSerial ==
    ASSUME Shape, NEW th \in Threads, \A u \in Threads \ {th} : insert[u].at = "idle",
           \A u \in Threads \ {th} : insert'[u] = insert[u],
           Inside(th)', insert'[th].at = "idle" => Tops(DOMAIN nodes)', DOMAIN nodes' # {}
    PROVE  Alone' /\ Between' /\ \A u \in Threads : Inside(u)'
<1>1. \A u \in Threads \ {th} : insert'[u].at = "idle"
  OBVIOUS
<1>2. Alone'
  BY <1>1 DEF Alone, At
<1>3. Between'
  BY DEF Between, Quiet, At
<1>4. ASSUME NEW u \in Threads \ {th} PROVE Inside(u)'
  BY <1>1 DEF Inside, OnLayers
<1> QED
  BY <1>2, <1>3, <1>4

(* One step per action: what it leaves of the insert it belongs to. *)
LEMMA SerialStep ==
    ASSUME Shape, Serial, [Next]_vars
    PROVE  Serial'
<1> DEFINE Goal == Alone' /\ Between' /\ \A u \in Threads : Inside(u)'
<1>0. SUFFICES ASSUME ~ overlapped' PROVE Goal
  BY DEF Serial
<1>1. ASSUME ~ overlapped, NEW th \in Threads, insert[th].at # "idle"
      PROVE  /\ \A u \in Threads \ {th} : insert[u].at = "idle"
             /\ insert[th].id \in DOMAIN nodes /\ Inside(th)
  BY <1>1 DEF Serial, Alone, At, Shape
<1>2. ASSUME NEW th \in Threads, NEW id \in Ids, NEW v \in Vectors[id], NEW level \in LevelsOf[id],
             Add(th, id, v, level)
      PROVE  Goal
  <2>1. CASE id \in DOMAIN nodes
    <3>1. UNCHANGED vars
      BY <1>2, <2>1 DEF Add
    <3> QED
      BY <1>0, <3>1
      DEF vars, Serial, Alone, Between, Quiet, Inside, Tops, Below, At, OnLayers
  <2>2. CASE id \notin DOMAIN nodes
    <3>1. /\ DOMAIN nodes' = DOMAIN nodes \cup {id}
          /\ \A n \in DOMAIN nodes : nodes'[n] = nodes[n]
          /\ insert[th].at = "idle" /\ insert'[th].at = "added" /\ insert'[th].id = id
          /\ \A u \in Threads \ {th} : insert'[u] = insert[u]
          /\ entry' = entry /\ maxLevel' = maxLevel
      BY <1>2, <2>2, AddShape
    <3>2. ~ overlapped /\ \A u \in Threads : insert[u].at = "idle"
      <4>1. overlapped' = (overlapped \/ \E other \in Threads : ~ At(other, "idle"))
        BY <1>2, <2>2, AddShape
      <4> QED
        BY <1>0, <4>1 DEF At
    <3>3. IF DOMAIN nodes = {} THEN entry = None ELSE Tops(DOMAIN nodes)
      BY <3>2 DEF Serial, Between, Quiet, At
    <3>4. entry \in DOMAIN nodes => entry # None
      BY HNSWAssumption DEF Shape
    <3>5. DOMAIN nodes' \ {id} = DOMAIN nodes
      BY <2>2, <3>1
    <3>6. \/ entry = None /\ DOMAIN nodes = {}
          \/ entry # None /\ Tops(DOMAIN nodes)
      BY <3>3, <3>4 DEF Tops
    <3>7. Inside(th)'
      <4>1. CASE entry = None /\ DOMAIN nodes = {}
        BY <3>1, <3>5, <4>1 DEF Inside, OnLayers
      <4>2. CASE entry # None /\ Tops(DOMAIN nodes)
        <5>1. Tops(DOMAIN nodes \ {insert[th].id})'
          BY <3>1, <3>5, <4>2 DEF Tops, Below
        <5> QED
          BY <3>1, <4>2, <5>1 DEF Inside, OnLayers
      <4> QED
        BY <3>6, <4>1, <4>2
    <3> QED
      BY <3>1, <3>2, <3>7, MovedSerial
  <2> QED
    BY <2>1, <2>2
<1>3. ASSUME NEW th \in Threads, ReadEntry(th) PROVE Goal
  <2>1. /\ Moves(th, {"added"}, IF entry = None THEN {"first"} ELSE {"entered"})
        /\ UNCHANGED <<nodes, entry, maxLevel, overlapped>>
    BY <1>3, EntryMoves
  <2>2. /\ insert[th].at = "added" /\ insert'[th].id = insert[th].id
        /\ insert'[th].at = IF entry = None THEN "first" ELSE "entered"
        /\ \A u \in Threads \ {th} : insert'[u] = insert[u]
    BY <2>1 DEF Moves
  <2>3. /\ \A u \in Threads \ {th} : insert[u].at = "idle"
        /\ insert[th].id \in DOMAIN nodes /\ Inside(th)
    BY <1>0, <1>1, <2>1, <2>2
  <2>4. Inside(th)'
    BY <2>1, <2>2, <2>3 DEF Inside, OnLayers, Tops, Below
  <2> QED
    BY <2>1, <2>2, <2>3, <2>4, MovedSerial
<1>4. ASSUME NEW th \in Threads, FirstEntry(th) \/ PromoteEntry(th) PROVE Goal
  <2>1. /\ Moves(th, {"first"}, {"level"}) \/ Moves(th, {"promote"}, {"level"})
        /\ entry' = insert[th].id
        /\ UNCHANGED <<nodes, maxLevel, overlapped>>
    BY <1>4, EntryMoves
  <2>2. /\ insert[th].at \in {"first", "promote"} /\ insert'[th].id = insert[th].id
        /\ insert'[th].at = "level"
        /\ \A u \in Threads \ {th} : insert'[u] = insert[u]
    BY <2>1 DEF Moves
  <2>3. /\ \A u \in Threads \ {th} : insert[u].at = "idle"
        /\ insert[th].id \in DOMAIN nodes /\ Inside(th)
    BY <1>0, <1>1, <2>1, <2>2
  <2>4. Inside(th)'
    BY <2>1, <2>2, <2>3 DEF Inside, OnLayers, Below
  <2> QED
    BY <2>1, <2>2, <2>3, <2>4, MovedSerial
<1>5. ASSUME NEW th \in Threads, SetMaxLevel(th) PROVE Goal
  <2>1. /\ Moves(th, {"level"}, {"idle"})
        /\ maxLevel' = nodes[insert[th].id].level
        /\ UNCHANGED <<nodes, entry, overlapped>>
    BY <1>5, EntryMoves
  <2>2. /\ insert[th].at = "level" /\ insert'[th].at = "idle"
        /\ \A u \in Threads \ {th} : insert'[u] = insert[u]
    BY <2>1 DEF Moves
  <2>3. /\ \A u \in Threads \ {th} : insert[u].at = "idle"
        /\ insert[th].id \in DOMAIN nodes /\ Inside(th)
    BY <1>0, <1>1, <2>1, <2>2
  <2>4. Tops(DOMAIN nodes)'
    BY <2>1, <2>2, <2>3 DEF Inside, OnLayers, Tops, Below, Shape
  <2>5. Inside(th)'
    BY <2>2 DEF Inside, OnLayers
  <2> QED
    BY <2>1, <2>2, <2>3, <2>4, <2>5, MovedSerial
<1>6. ASSUME NEW th \in Threads, DescendTo(th) PROVE Goal
  <2>1. /\ insert[th].at = "entered" /\ insert'[th].at = "layer"
        /\ insert'[th].id = insert[th].id /\ insert'[th].top = maxLevel
        /\ \A u \in Threads \ {th} : insert'[u] = insert[u]
        /\ UNCHANGED <<nodes, entry, maxLevel, overlapped>>
    BY <1>6, DescendMoves
  <2>2. /\ \A u \in Threads \ {th} : insert[u].at = "idle"
        /\ insert[th].id \in DOMAIN nodes /\ Inside(th)
    BY <1>0, <1>1, <2>1
  <2>3. Inside(th)'
    BY <2>1, <2>2 DEF Inside, OnLayers, Tops, Below
  <2> QED
    BY <2>1, <2>2, <2>3, MovedSerial
<1>7. ASSUME NEW th \in Threads,
             SetForward(th) \/ AddReverse(th) \/ Prune(th) \/ FindNeighbors(th) \/ NextLayer(th)
      PROVE  Goal
  <2> DEFINE t == insert[th]
  <2>1. /\ NodesKeep /\ UNCHANGED <<entry, maxLevel, overlapped>>
        /\ \/ Moves(th, OnLayers, OnLayers)
           \/ Moves(th, OnLayers, {"promote"}) /\ nodes[t.id].level > t.top
           \/ Moves(th, OnLayers, {"idle"}) /\ ~ (nodes[t.id].level > t.top)
    BY <1>7, LinkingKeepsNodes, LinkingMoves DEF NextLayer, shared, history
  <2>2. /\ t.at \in OnLayers /\ t.at # "idle"
        /\ \A u \in Threads \ {th} : insert'[u] = insert[u]
    BY <2>1 DEF Moves, OnLayers
  <2>3. /\ \A u \in Threads \ {th} : insert[u].at = "idle"
        /\ t.id \in DOMAIN nodes /\ Inside(th)
    BY <1>0, <1>1, <2>1, <2>2
  <2>4. Tops(DOMAIN nodes \ {t.id}) /\ t.top = maxLevel
    BY <2>2, <2>3 DEF Inside
  <2>5. /\ DOMAIN nodes' = DOMAIN nodes
        /\ \A n \in DOMAIN nodes : nodes'[n].level = nodes[n].level /\ nodes[n].level \in Nat
    BY <2>1 DEF NodesKeep, Shape
  <2>6. CASE Moves(th, OnLayers, OnLayers)
    <3>1. insert'[th].at \in OnLayers /\ insert'[th].id = t.id /\ insert'[th].top = t.top
      BY <2>6 DEF Moves, OnLayers
    <3>2. Inside(th)'
      BY <2>1, <2>4, <2>5, <3>1 DEF Inside, OnLayers, Tops, Below
    <3> QED
      BY <2>2, <2>3, <2>5, <3>1, <3>2, MovedSerial DEF OnLayers
  <2>7. CASE Moves(th, OnLayers, {"promote"}) /\ nodes[t.id].level > t.top
    <3>1. insert'[th].at = "promote" /\ insert'[th].id = t.id
      BY <2>7 DEF Moves
    <3>2. Below(DOMAIN nodes \ {t.id}, nodes[t.id].level)
      BY <2>3, <2>4, <2>5, <2>7 DEF Tops, Below, Shape
    <3>3. Inside(th)'
      BY <2>5, <2>3, <3>1, <3>2 DEF Inside, OnLayers, Below
    <3> QED
      BY <2>2, <2>3, <2>5, <3>1, <3>3, MovedSerial
  <2>8. CASE Moves(th, OnLayers, {"idle"}) /\ ~ (nodes[t.id].level > t.top)
    <3>1. insert'[th].at = "idle"
      BY <2>8 DEF Moves
    <3>2. Tops(DOMAIN nodes)'
      BY <2>1, <2>3, <2>4, <2>5, <2>8 DEF Tops, Below, Shape
    <3>3. Inside(th)'
      BY <3>1 DEF Inside, OnLayers
    <3> QED
      BY <2>2, <2>3, <2>5, <3>1, <3>2, <3>3, MovedSerial
  <2> QED
    BY <2>1, <2>6, <2>7, <2>8
<1>8. ASSUME NEW id \in Ids, RemoveVector(id) PROVE Goal
  <2>1. /\ UNCHANGED <<entry, maxLevel, insert, overlapped>>
        /\ DOMAIN nodes' = DOMAIN nodes
        /\ \A n \in DOMAIN nodes : nodes'[n].level = nodes[n].level
    BY <1>8, RemovalKeeps DEF NodesKeep
  <2>2. Alone /\ Between /\ \A th \in Threads : Inside(th)
    BY <1>0, <2>1 DEF Serial
  <2>3. Alone' /\ Between'
    BY <2>1, <2>2 DEF Alone, Between, Quiet, At, Tops, Below
  <2>4. ASSUME NEW th \in Threads PROVE Inside(th)'
    <3>1. Inside(th) /\ (insert[th].at # "idle" => insert[th].id \in DOMAIN nodes)
      BY <2>2 DEF Shape
    <3> QED
      BY <2>1, <3>1 DEF Inside, OnLayers, Tops, Below
  <2> QED
    BY <2>3, <2>4
<1>9. CASE UNCHANGED vars
  BY <1>0, <1>9
  DEF vars, Serial, Alone, Between, Quiet, Inside, Tops, Below, At, OnLayers
<1> QED
  BY <1>2, <1>3, <1>4, <1>5, <1>6, <1>7, <1>8, <1>9 DEF Next, Step, RandomLevel

LEMMA SerialInit == Init => Shape /\ Serial
<1> SUFFICES ASSUME Init PROVE Shape /\ Serial
  OBVIOUS
<1>1. /\ DOMAIN nodes = {} /\ entry = None /\ maxLevel = 0
      /\ DOMAIN insert = Threads /\ \A th \in Threads : insert[th] = Idle
      /\ overlapped \in BOOLEAN
  BY DEF Init
<1>2. /\ DOMAIN Idle = PlaceFields /\ Idle.at = "idle" /\ Idle.layer = 0
  BY DEF Idle, PlaceFields
<1>3. Shape
  BY <1>1, <1>2 DEF Shape, Places
<1>4. Alone /\ Between
  BY <1>1, <1>2 DEF Alone, Between, Quiet, At
<1>5. \A th \in Threads : Inside(th)
  BY <1>1, <1>2 DEF Inside, OnLayers
<1> QED
  BY <1>3, <1>4, <1>5 DEF Serial

LEMMA SerialInvariant == Spec => [](Shape /\ Serial)
<1>1. Init => Shape /\ Serial
  BY SerialInit
<1>2. Shape /\ Serial /\ [Next]_vars => Shape' /\ Serial'
  BY ShapeStep, SerialStep
<1> QED
  BY <1>1, <1>2, PTL DEF Spec

(* hnsw.rs, "the node with the highest level": as long as no two inserts
   overlapped, between them the entry point is a node of the highest level
   and max_level is that level, whatever neighbours the searches found and
   whatever was removed. *)
THEOREM EntryStaysHighest == Spec => []EntryIsHighest
<1>1. Shape /\ Serial => EntryIsHighest
  <2> SUFFICES ASSUME Shape, Serial, Quiet, ~ overlapped, DOMAIN nodes # {}
               PROVE  /\ entry # None /\ nodes[entry].level = maxLevel
                      /\ \A id \in DOMAIN nodes : nodes[id].level <= maxLevel
    BY DEF EntryIsHighest
  <2>1. Tops(DOMAIN nodes)
    BY DEF Serial, Between
  <2> QED
    BY <2>1, HNSWAssumption DEF Tops, Below, Shape
<1> QED
  BY <1>1, SerialInvariant, PTL

(* --- Neighbours found ---------------------------------------------------- *)
(* The first n of a sequence. *)
LEMMA TakeIs ==
    ASSUME NEW S, NEW s \in Seq(S), NEW n \in Nat
    PROVE  /\ Take(s, n) \in Seq(S) /\ Len(Take(s, n)) <= n /\ Len(Take(s, n)) <= Len(s)
           /\ \A i \in 1..Len(Take(s, n)) : Take(s, n)[i] = s[i]
           /\ s # <<>> /\ n # 0 => Take(s, n) # <<>>
<1> DEFINE m == Min({n, Len(s)})
<1>1. m \in Nat /\ m <= n /\ m <= Len(s) /\ (s # <<>> /\ n # 0 => m # 0)
  BY MinOfTwo
<1>2. Take(s, n) = SubSeq(s, 1, m)
  BY DEF Take
<1> HIDE DEF m
<1>3. /\ SubSeq(s, 1, m) \in Seq(S)
      /\ Len(SubSeq(s, 1, m)) = m
      /\ \A i \in 1..m : SubSeq(s, 1, m)[i] = s[i]
  BY <1>1
<1> QED
  BY <1>1, <1>2, <1>3

LEMMA CapacityIs == ASSUME NEW l PROVE Capacity(l) \in Nat /\ Capacity(l) # 0
BY HNSWAssumption DEF Capacity

(* What a beam search returns: nodes of C, once, the nearest first. *)
LEMMA SearchLayerIs ==
    ASSUME Graph, NEW query \in Int, NEW ef \in Nat \ {0}, NEW layer \in Nat, NEW C, ClosedAt(C, layer),
           NEW ep \in C
    PROVE  /\ SearchLayer(query, ep, ef, layer) \in Seq(C)
           /\ SearchLayer(query, ep, ef, layer) # <<>>
           /\ SearchLayer(query, ep, ef, layer)[1] \in C
<1> DEFINE B == Beam(query, ep, ef, layer)
           f == ByDistance(query, B)
<1>1. B \subseteq C /\ B # {} /\ B \in SUBSET DOMAIN nodes
  BY BeamStays DEF ClosedAt
<1>2. SearchLayer(query, ep, ef, layer) = f
  BY DEF SearchLayer
<1> HIDE DEF B
<1>3. /\ Cardinality(B) \in Nat /\ f \in [1..Cardinality(B) -> B]
      /\ \A a \in B : \E i \in 1..Cardinality(B) : f[i] = a
  BY <1>1, ByDistanceIs
<1> HIDE DEF f
<1>4. 1 \in 1..Cardinality(B)
  BY <1>1, <1>3
<1>5. f \in Seq(B) /\ Len(f) = Cardinality(B)
  BY <1>3
<1> QED
  BY <1>1, <1>2, <1>3, <1>4, <1>5

LEMMA AllIsClosed == ASSUME Graph, NEW layer \in Nat PROVE ClosedAt(DOMAIN nodes, layer)
<1>1. ASSUME NEW a \in DOMAIN nodes PROVE ToSet(Neighbors(a, layer)) \subseteq DOMAIN nodes
  BY NeighborsAre DEF ToSet
<1> QED
  BY <1>1 DEF ClosedAt

(* --- Lists --------------------------------------------------------------- *)
LEMMA ListReplaced ==
    ASSUME NEW D, NEW S, NEW f \in [D -> S], NEW l \in D, NEW x \in S
    PROVE  /\ [f EXCEPT ![l] = x] \in [D -> S]
           /\ \A k \in D : [f EXCEPT ![l] = x][k] = IF k = l THEN x ELSE f[k]
OBVIOUS

(* A list is replaced. *)
ListSet(n, l, x) ==
    /\ n \in DOMAIN nodes /\ l \in 0..nodes[n].level /\ x \in Seq(DOMAIN nodes)
    /\ nodes' = [nodes EXCEPT ![n].neighbors[l] = x]

(* Nothing but that list changes. *)
LEMMA ListSetIs ==
    ASSUME Graph, NEW n, NEW l, NEW x, ListSet(n, l, x)
    PROVE  /\ Graph' /\ DOMAIN nodes' = DOMAIN nodes
           /\ \A id \in DOMAIN nodes :
                /\ nodes'[id].vector = nodes[id].vector /\ nodes'[id].level = nodes[id].level
                /\ nodes'[id].deleted = nodes[id].deleted
                /\ \A k \in 0..nodes[id].level :
                     nodes'[id].neighbors[k] = IF id = n /\ k = l THEN x ELSE nodes[id].neighbors[k]
<1>1. /\ DOMAIN nodes' = DOMAIN nodes
      /\ \A id \in DOMAIN nodes \ {n} : nodes'[id] = nodes[id]
      /\ nodes'[n] = [nodes[n] EXCEPT !.neighbors[l] = x]
  BY DEF ListSet
<1>2. /\ DOMAIN nodes'[n] = NodeFields
      /\ nodes'[n].vector = nodes[n].vector /\ nodes'[n].level = nodes[n].level
      /\ nodes'[n].deleted = nodes[n].deleted
      /\ nodes'[n].neighbors = [nodes[n].neighbors EXCEPT ![l] = x]
  BY <1>1 DEF ListSet, Graph, NodeFields
<1>3. nodes[n].neighbors \in [0..nodes[n].level -> Seq(DOMAIN nodes)]
  BY DEF Graph, ListSet
<1>4. /\ nodes'[n].neighbors \in [0..nodes[n].level -> Seq(DOMAIN nodes)]
      /\ \A k \in 0..nodes[n].level : nodes'[n].neighbors[k] = IF k = l THEN x ELSE nodes[n].neighbors[k]
  <2>1. l \in 0..nodes[n].level /\ x \in Seq(DOMAIN nodes)
    BY DEF ListSet
  <2> DEFINE f == nodes[n].neighbors
             D == 0..nodes[n].level
             after == [f EXCEPT ![l] = x]
  <2>2. f \in [D -> Seq(DOMAIN nodes)] /\ l \in D
    BY <1>3, <2>1
  <2>3. nodes'[n].neighbors = after
    BY <1>2
  <2> HIDE DEF f, D
  <2>4. after \in [D -> Seq(DOMAIN nodes)] /\ \A k \in D : after[k] = IF k = l THEN x ELSE f[k]
    BY <2>1, <2>2, ListReplaced
  <2> QED
    BY <2>3, <2>4 DEF f, D
<1>5. Graph'
  BY <1>1, <1>2, <1>4 DEF Graph, ListSet
<1> QED
  BY <1>1, <1>2, <1>4, <1>5 DEF ListSet

LEMMA NeighborsAfter ==
    ASSUME Graph, NEW n, NEW l, NEW x, ListSet(n, l, x), NEW id \in DOMAIN nodes, NEW k \in Nat
    PROVE  Neighbors(id, k)' = IF id = n /\ k = l THEN x ELSE Neighbors(id, k)
<1>1. nodes'[id].level = nodes[id].level /\ nodes[id].level \in Nat
  BY ListSetIs, NodesAre
<1>2. CASE k <= nodes[id].level
  <2>1. k \in 0..nodes[id].level
    BY <1>1, <1>2
  <2> QED
    BY <1>1, <1>2, <2>1, ListSetIs DEF Neighbors
<1>3. CASE ~ (k <= nodes[id].level)
  BY <1>1, <1>3 DEF Neighbors, ListSet
<1> QED
  BY <1>2, <1>3

(* --- The lengths of lists ------------------------------------------------ *)
(* What a thread has in hand at each place. *)
Placed(t) ==
    /\ t.found \in Seq(DOMAIN nodes)
    /\ t.at = "idle" => t.id = None
    /\ t.at \in {"entered"} \cup OnLayers => t.ep \in DOMAIN nodes
    /\ t.at \in OnLayers => t.layer <= nodes[t.id].level
    /\ t.at = "forward" => Len(t.found) <= Capacity(t.layer)
    /\ t.at = "prune" => t.found # <<>> /\ t.layer <= nodes[Head(t.found)].level

(* A list may be over its capacity by the threads that are about to prune it. *)
Pruners(n, l) == {th \in Threads : At(th, "prune") /\ Head(insert[th].found) = n /\ insert[th].layer = l}
Bounded == \A n \in DOMAIN nodes : \A l \in 0..nodes[n].level :
             Len(nodes[n].neighbors[l]) <= Capacity(l) + Cardinality(Pruners(n, l))

Listed ==
    /\ Graph
    /\ entry \in DOMAIN nodes \cup {None}
    /\ maxLevel \in {0} \cup {nodes[id].level : id \in DOMAIN nodes}
    /\ \A th \in Threads : Placed(insert[th])
    /\ Bounded

(* One thread takes a step; nodes stay on their layers. *)
Alters(th, next) == /\ insert'[th] = next /\ DOMAIN insert' = Threads
                    /\ \A u \in Threads \ {th} : insert'[u] = insert[u]
LEMMA Goes == ASSUME Shape, NEW th \in Threads, NEW next, Go(th, next) PROVE Alters(th, next)
BY DEF Shape, Go, Alters

Keeps == /\ DOMAIN nodes \subseteq DOMAIN nodes'
         /\ \A id \in DOMAIN nodes : nodes'[id].level = nodes[id].level

(* What a thread has in hand stays good while others take steps. *)
LEMMA StaysPlaced ==
    ASSUME Shape, Keeps, NEW u \in Threads, Placed(insert[u]), insert'[u] = insert[u]
    PROVE  Placed(insert[u])'
<1> DEFINE t == insert[u]
<1>1. t.found \in Seq(DOMAIN nodes) /\ DOMAIN nodes \subseteq DOMAIN nodes'
  BY DEF Placed, Keeps
<1>2. t.found \in Seq(DOMAIN nodes')
  BY <1>1
<1>3. t.at \in OnLayers => nodes'[t.id].level = nodes[t.id].level
  BY DEF Shape, Keeps, OnLayers
<1>4. t.at = "prune" => nodes'[Head(t.found)].level = nodes[Head(t.found)].level
  <2>1. t.at = "prune" => Head(t.found) \in DOMAIN nodes
    BY <1>1 DEF Placed
  <2> QED
    BY <2>1 DEF Keeps
<1> QED
  BY <1>1, <1>2, <1>3, <1>4 DEF Placed, Capacity

LEMMA AllPlaced ==
    ASSUME Shape, Keeps, \A u \in Threads : Placed(insert[u]), NEW th \in Threads, NEW next,
           Alters(th, next), Placed(insert[th])'
    PROVE  (\A u \in Threads : Placed(insert[u]))'
BY StaysPlaced DEF Alters

(* The threads about to prune one list are some of those about to prune. *)
LEMMA PrunersAreFew ==
    ASSUME NEW n, NEW l
    PROVE  /\ IsFiniteSet(Pruners(n, l)) /\ Cardinality(Pruners(n, l)) \in Nat
           /\ IsFiniteSet({th \in Threads : At(th, "prune")})
           /\ Cardinality({th \in Threads : At(th, "prune")}) \in Nat
           /\ Cardinality(Pruners(n, l)) <= Cardinality({th \in Threads : At(th, "prune")})
<1> DEFINE P == Pruners(n, l)
           A == {th \in Threads : At(th, "prune")}
<1>1. P \in SUBSET A /\ A \in SUBSET Threads
  BY DEF Pruners
<1> HIDE DEF P, A
<1>2. IsFiniteSet(A)
  BY <1>1, HNSWAssumption, FS_Subset
<1>3. IsFiniteSet(P) /\ Cardinality(P) <= Cardinality(A)
  BY <1>1, <1>2, FS_Subset
<1> QED
  BY <1>2, <1>3, FS_CardinalityType DEF P, A

LEMMA PrunersAfterFew ==
    ASSUME NEW n, NEW l
    PROVE  IsFiniteSet(Pruners(n, l)') /\ Cardinality(Pruners(n, l)') \in Nat
<1>1. Pruners(n, l)' \in SUBSET Threads
  BY DEF Pruners
<1> QED
  BY <1>1, HNSWAssumption, FS_Subset, FS_CardinalityType

(* While a thread is not about to prune a list and does not lengthen it, the
   bound on the list stays. *)
LEMMA StaysBounded ==
    ASSUME NEW th \in Threads, NEW next, Alters(th, next), NEW n, NEW l,
           th \notin Pruners(n, l) \/ th \in Pruners(n, l)'
    PROVE  Cardinality(Pruners(n, l)) <= Cardinality(Pruners(n, l)')
<1>1. Pruners(n, l) \in SUBSET Pruners(n, l)'
  BY DEF Pruners, Alters, At
<1> QED
  BY <1>1, PrunersAfterFew, FS_Subset

LEMMA OneMorePruner ==
    ASSUME NEW th \in Threads, NEW next, Alters(th, next), NEW n, NEW l,
           th \notin Pruners(n, l), th \in Pruners(n, l)'
    PROVE  Cardinality(Pruners(n, l)) + 1 <= Cardinality(Pruners(n, l)')
<1>1. Pruners(n, l) \cup {th} \in SUBSET Pruners(n, l)'
  BY DEF Pruners, Alters, At
<1>2. Cardinality(Pruners(n, l) \cup {th}) = Cardinality(Pruners(n, l)) + 1
  BY PrunersAreFew, FS_AddElement
<1> QED
  BY <1>1, <1>2, PrunersAfterFew, FS_Subset

(* A thread that is about to prune nothing leaves lists that are not longer
   within their bounds. *)
LEMMA AllBounded ==
    ASSUME Graph, Bounded, NEW th \in Threads, NEW next, Alters(th, next),
           DOMAIN nodes' = DOMAIN nodes,
           \A id \in DOMAIN nodes : nodes'[id].level = nodes[id].level,
           \A id \in DOMAIN nodes, l \in Nat : l <= nodes[id].level =>
               \/ Len(nodes'[id].neighbors[l]) <= Capacity(l)
               \/ /\ Len(nodes'[id].neighbors[l]) <= Len(nodes[id].neighbors[l])
                  /\ th \notin Pruners(id, l) \/ th \in Pruners(id, l)'
               \/ /\ Len(nodes'[id].neighbors[l]) <= Len(nodes[id].neighbors[l]) + 1
                  /\ th \notin Pruners(id, l) /\ th \in Pruners(id, l)',
           \A id \in DOMAIN nodes, l \in Nat : l <= nodes[id].level =>
               Len(nodes'[id].neighbors[l]) \in Nat
    PROVE  Bounded'
<1> SUFFICES ASSUME NEW n \in DOMAIN nodes, NEW l \in 0..nodes[n].level
             PROVE  Len(nodes'[n].neighbors[l]) <= Capacity(l) + Cardinality(Pruners(n, l)')
  BY DEF Bounded, Capacity
<1>0. nodes[n].level \in Nat /\ l \in Nat /\ l <= nodes[n].level
  BY NodesAre
<1>1. /\ Len(nodes[n].neighbors[l]) <= Capacity(l) + Cardinality(Pruners(n, l))
      /\ Len(nodes[n].neighbors[l]) \in Nat
  BY DEF Bounded, Graph
<1>2. /\ Capacity(l) \in Nat /\ Cardinality(Pruners(n, l)) \in Nat
      /\ Cardinality(Pruners(n, l)') \in Nat /\ Len(nodes'[n].neighbors[l]) \in Nat
  BY <1>0, CapacityIs, PrunersAreFew, PrunersAfterFew
<1>3. CASE Len(nodes'[n].neighbors[l]) <= Capacity(l)
  BY <1>2, <1>3
<1>4. CASE /\ Len(nodes'[n].neighbors[l]) <= Len(nodes[n].neighbors[l])
           /\ th \notin Pruners(n, l) \/ th \in Pruners(n, l)'
  <2>1. Cardinality(Pruners(n, l)) <= Cardinality(Pruners(n, l)')
    BY <1>4, StaysBounded
  <2> QED
    BY <1>1, <1>2, <1>4, <2>1
<1>5. CASE /\ Len(nodes'[n].neighbors[l]) <= Len(nodes[n].neighbors[l]) + 1
           /\ th \notin Pruners(n, l) /\ th \in Pruners(n, l)'
  <2>1. Cardinality(Pruners(n, l)) + 1 <= Cardinality(Pruners(n, l)')
    BY <1>5, OneMorePruner
  <2>2. ASSUME NEW a \in Nat, NEW b \in Nat, NEW c \in Nat, NEW p \in Nat, NEW q \in Nat,
               a <= c + p, b <= a + 1, p + 1 <= q
        PROVE  b <= c + q
    BY <2>2
  <2> QED
    BY <1>1, <1>2, <1>5, <2>1, <2>2
<1> QED
  BY <1>0, <1>3, <1>4, <1>5

(* A step that leaves the nodes alone, of a thread that prunes nothing. *)
LEMMA SameNodesListed ==
    ASSUME Shape, Listed, nodes' = nodes, NEW th \in Threads, NEW next, Alters(th, next),
           insert[th].at # "prune",
           entry' \in DOMAIN nodes \cup {None},
           maxLevel' \in {0} \cup {nodes[id].level : id \in DOMAIN nodes},
           Placed(insert[th])'
    PROVE  Listed'
<1>1. Graph'
  BY DEF Listed, Graph
<1>2. Keeps
  BY DEF Keeps
<1>3. (\A u \in Threads : Placed(insert[u]))'
  BY <1>2, AllPlaced DEF Listed
<1>4. \A id \in DOMAIN nodes, l \in Nat : l <= nodes[id].level =>
          /\ Len(nodes'[id].neighbors[l]) \in Nat
          /\ Len(nodes'[id].neighbors[l]) <= Len(nodes[id].neighbors[l])
          /\ th \notin Pruners(id, l)
  <2> SUFFICES ASSUME NEW id \in DOMAIN nodes, NEW l \in Nat, l <= nodes[id].level
               PROVE  /\ Len(nodes[id].neighbors[l]) \in Nat
                      /\ th \notin Pruners(id, l)
    BY DEF Pruners
  <2>1. nodes[id].level \in Nat /\ l \in 0..nodes[id].level
    BY NodesAre DEF Listed
  <2> QED
    BY <2>1 DEF Listed, Graph, Pruners, At
<1>5. Bounded'
  BY <1>4, AllBounded DEF Listed
<1> QED
  BY <1>1, <1>3, <1>5 DEF Listed

(* A step that replaces a list. *)
LEMMA ListSetListed ==
    ASSUME Shape, Listed, NEW n, NEW l, NEW x, ListSet(n, l, x),
           NEW th \in Threads, NEW next, Alters(th, next),
           UNCHANGED <<entry, maxLevel>>, Placed(insert[th])',
           \/ Len(x) <= Capacity(l)
           \/ /\ Len(x) <= Len(nodes[n].neighbors[l]) + 1
              /\ th \notin Pruners(n, l) /\ th \in Pruners(n, l)',
           \A id, k : id # n \/ k # l => th \notin Pruners(id, k)
    PROVE  Listed'
<1>0. Graph
  BY DEF Listed
<1>1. /\ Graph' /\ DOMAIN nodes' = DOMAIN nodes
      /\ \A id \in DOMAIN nodes : nodes'[id].level = nodes[id].level
  BY <1>0, ListSetIs
<1>2. Keeps
  BY <1>1 DEF Keeps
<1>3. (\A u \in Threads : Placed(insert[u]))'
  BY <1>2, AllPlaced DEF Listed
<1>4. ASSUME NEW id \in DOMAIN nodes, NEW k \in Nat, k <= nodes[id].level
      PROVE  /\ Len(nodes'[id].neighbors[k]) \in Nat
             /\ \/ Len(nodes'[id].neighbors[k]) <= Capacity(k)
                \/ /\ Len(nodes'[id].neighbors[k]) <= Len(nodes[id].neighbors[k])
                   /\ th \notin Pruners(id, k) \/ th \in Pruners(id, k)'
                \/ /\ Len(nodes'[id].neighbors[k]) <= Len(nodes[id].neighbors[k]) + 1
                   /\ th \notin Pruners(id, k) /\ th \in Pruners(id, k)'
  <2>1. nodes[id].level \in Nat /\ k \in 0..nodes[id].level
    BY <1>0, <1>4, NodesAre
  <2>2. /\ nodes'[id].neighbors[k] = IF id = n /\ k = l THEN x ELSE nodes[id].neighbors[k]
        /\ nodes[id].neighbors[k] \in Seq(DOMAIN nodes)
        /\ x \in Seq(DOMAIN nodes)
    BY <1>0, <2>1, ListSetIs DEF Graph, ListSet
  <2>3. CASE id = n /\ k = l
    BY <2>2, <2>3
  <2>4. CASE ~ (id = n /\ k = l)
    BY <2>2, <2>4
  <2> QED
    BY <2>3, <2>4
<1>5. Bounded'
  BY <1>0, <1>1, <1>4, AllBounded DEF Listed
<1> QED
  BY <1>1, <1>3, <1>5 DEF Listed

------------------------------------------------------------------------------
(* The step that adds a node, and then one lemma per action of insert. *)
LEMMA AddListed ==
    ASSUME Shape, Listed, NEW th \in Threads, NEW id \in Ids, NEW v \in Vectors[id], NEW level \in LevelsOf[id],
           Add(th, id, v, level), id \notin DOMAIN nodes
    PROVE  Listed'
<1>1. /\ nodes' = [n \in DOMAIN nodes \cup {id} |-> IF n = id THEN Node(v, level) ELSE nodes[n]]
      /\ Go(th, [Idle EXCEPT !.at = "added", !.id = id])
      /\ entry' = entry /\ maxLevel' = maxLevel /\ insert[th].at = "idle"
  BY DEF Add, At
<1>2. level \in Nat
  BY HNSWAssumption
<1>3. Alters(th, [Idle EXCEPT !.at = "added", !.id = id])
  BY <1>1, Goes
<1>4. /\ DOMAIN nodes' = DOMAIN nodes \cup {id}
      /\ \A n \in DOMAIN nodes : nodes'[n] = nodes[n]
      /\ nodes'[id] = Node(v, level)
  BY <1>1
<1>5. /\ DOMAIN Node(v, level) = NodeFields
      /\ Node(v, level).vector = v /\ Node(v, level).level = level
      /\ Node(v, level).neighbors = [l \in 0..level |-> <<>>]
  BY DEF Node, NodeFields
<1>6. Graph'
  <2>1. ASSUME NEW n \in DOMAIN nodes
        PROVE  nodes[n].neighbors \in [0..nodes[n].level -> Seq(DOMAIN nodes \cup {id})]
    <3>1. nodes[n].neighbors \in [0..nodes[n].level -> Seq(DOMAIN nodes)]
      BY DEF Listed, Graph
    <3>2. Seq(DOMAIN nodes) \subseteq Seq(DOMAIN nodes \cup {id})
      OBVIOUS
    <3> QED
      BY <3>1, <3>2
  <2>2. Node(v, level).neighbors \in [0..level -> Seq(DOMAIN nodes \cup {id})]
    BY <1>5
  <2>3. DOMAIN nodes' \subseteq Ids
    BY <1>4 DEF Listed, Graph
  <2>4. ASSUME NEW n \in DOMAIN nodes'
        PROVE  /\ DOMAIN nodes'[n] = NodeFields /\ nodes'[n].vector \in Vectors[n]
               /\ nodes'[n].level \in LevelsOf[n]
               /\ nodes'[n].neighbors \in [0..nodes'[n].level -> Seq(DOMAIN nodes')]
    <3>1. CASE n = id
      BY <1>4, <1>5, <2>2, <3>1
    <3>2. CASE n # id
      <4>1. n \in DOMAIN nodes /\ nodes'[n] = nodes[n]
        BY <1>4, <3>2
      <4> QED
        BY <1>4, <2>1, <4>1 DEF Listed, Graph
    <3> QED
      BY <3>1, <3>2
  <2> QED
    BY <2>3, <2>4 DEF Graph
<1>7. Keeps
  BY <1>4 DEF Keeps
<1>8. Placed(insert[th])'
  <2>1. insert'[th] = [Idle EXCEPT !.at = "added", !.id = id]
    BY <1>3 DEF Alters
  <2>2. insert'[th].at = "added" /\ insert'[th].found = <<>>
    BY <2>1 DEF Idle
  <2> QED
    BY <2>2 DEF Placed, OnLayers
<1>9. (\A u \in Threads : Placed(insert[u]))'
  BY <1>3, <1>7, <1>8, AllPlaced DEF Listed
<1>10. Bounded'
  <2> SUFFICES ASSUME NEW n \in DOMAIN nodes', NEW l \in 0..nodes'[n].level
               PROVE  Len(nodes'[n].neighbors[l]) <= Capacity(l) + Cardinality(Pruners(n, l)')
    BY DEF Bounded, Capacity
  <2>1. Capacity(l) \in Nat /\ Cardinality(Pruners(n, l)') \in Nat /\ Cardinality(Pruners(n, l)) \in Nat
    BY CapacityIs, PrunersAfterFew, PrunersAreFew
  <2>2. CASE n = id
    <3>1. nodes'[n].neighbors[l] = <<>>
      BY <1>4, <1>5, <2>2
    <3> QED
      BY <2>1, <3>1
  <2>3. CASE n # id
    <3>1. n \in DOMAIN nodes /\ nodes'[n] = nodes[n]
      BY <1>4, <2>3
    <3>2. Len(nodes[n].neighbors[l]) <= Capacity(l) + Cardinality(Pruners(n, l))
      BY <3>1 DEF Listed, Bounded
    <3>3. Len(nodes[n].neighbors[l]) \in Nat
      BY <3>1 DEF Listed, Graph
    <3>4. th \notin Pruners(n, l)
      BY <1>1 DEF Pruners, At
    <3>5. Cardinality(Pruners(n, l)) <= Cardinality(Pruners(n, l)')
      BY <1>3, <3>4, StaysBounded
    <3> QED
      BY <2>1, <3>1, <3>2, <3>3, <3>5
  <2> QED
    BY <2>2, <2>3
<1>11. maxLevel' \in {0} \cup {nodes'[n].level : n \in DOMAIN nodes'}
  <2>1. CASE maxLevel = 0
    BY <1>1, <2>1
  <2>2. CASE maxLevel # 0
    <3>1. PICK n \in DOMAIN nodes : maxLevel = nodes[n].level
      BY <2>2 DEF Listed
    <3> QED
      BY <1>1, <1>4, <3>1
  <2> QED
    BY <2>1, <2>2
<1> QED
  BY <1>1, <1>4, <1>6, <1>9, <1>10, <1>11 DEF Listed

(* The steps before and after the linking. *)
LEMMA EntryListed ==
    ASSUME Shape, Listed, NEW th \in Threads,
           ReadEntry(th) \/ FirstEntry(th) \/ PromoteEntry(th) \/ SetMaxLevel(th)
    PROVE  Listed'
<1> DEFINE t == insert[th]
<1>0. /\ t.found \in Seq(DOMAIN nodes) /\ DOMAIN t = PlaceFields
      /\ entry \in DOMAIN nodes \cup {None}
      /\ maxLevel \in {0} \cup {nodes[id].level : id \in DOMAIN nodes}
      /\ t.at # "idle" => t.id \in DOMAIN nodes
  BY DEF Listed, Placed, Shape
<1>1. CASE ReadEntry(th)
  <2> DEFINE next == [t EXCEPT !.at = IF entry = None THEN "first" ELSE "entered", !.ep = entry]
  <2>1. /\ t.at = "added" /\ Alters(th, next) /\ UNCHANGED <<nodes, entry, maxLevel>>
    BY <1>1, Goes DEF ReadEntry, At, shared
  <2>2. /\ next.found = t.found /\ next.ep = entry
        /\ next.at = IF entry = None THEN "first" ELSE "entered"
    BY <1>0 DEF PlaceFields
  <2>3. insert'[th] = next
    BY <2>1 DEF Alters
  <2> HIDE DEF next
  <2>4. Placed(insert[th])'
    BY <1>0, <2>1, <2>2, <2>3 DEF Placed, OnLayers
  <2> QED
    BY <1>0, <2>1, <2>4, SameNodesListed
<1>2. CASE FirstEntry(th) \/ PromoteEntry(th)
  <2> DEFINE next == [t EXCEPT !.at = "level"]
  <2>1. /\ t.at \in {"first", "promote"} /\ Alters(th, next) /\ entry' = t.id
        /\ UNCHANGED <<nodes, maxLevel>>
    BY <1>2, Goes DEF FirstEntry, PromoteEntry, SetEntry, At
  <2>2. next.found = t.found /\ next.at = "level"
    BY <1>0 DEF PlaceFields
  <2>3. insert'[th] = next
    BY <2>1 DEF Alters
  <2> HIDE DEF next
  <2>4. Placed(insert[th])'
    BY <1>0, <2>1, <2>2, <2>3 DEF Placed, OnLayers
  <2> QED
    BY <1>0, <2>1, <2>4, SameNodesListed
<1>3. CASE SetMaxLevel(th)
  <2>1. /\ t.at = "level" /\ Alters(th, Idle) /\ maxLevel' = nodes[t.id].level
        /\ UNCHANGED <<nodes, entry>>
    BY <1>3, Goes DEF SetMaxLevel, At
  <2>2. insert'[th] = Idle
    BY <2>1 DEF Alters
  <2>3. Placed(insert[th])'
    BY <2>2 DEF Placed, OnLayers, Idle
  <2> QED
    BY <1>0, <2>1, <2>3, SameNodesListed
<1> QED
  BY <1>1, <1>2, <1>3

(* What a thread inside insert works with. *)
LEMMA InsideIs ==
    ASSUME Shape, Listed, NEW th \in Threads, insert[th].at # "idle"
    PROVE  LET t == insert[th] IN
           /\ Graph /\ DOMAIN t = PlaceFields /\ t.found \in Seq(DOMAIN nodes) /\ t.layer \in Nat
           /\ t.id \in DOMAIN nodes /\ nodes[t.id].vector \in Int /\ nodes[t.id].level \in Nat
           /\ t.at \in {"entered"} \cup OnLayers => t.ep \in DOMAIN nodes
           /\ t.at \in OnLayers => t.layer \in 0..nodes[t.id].level
<1> DEFINE t == insert[th]
<1>1. /\ Graph /\ DOMAIN t = PlaceFields /\ t.found \in Seq(DOMAIN nodes) /\ t.layer \in Nat
      /\ t.id \in DOMAIN nodes
      /\ t.at \in {"entered"} \cup OnLayers => t.ep \in DOMAIN nodes
      /\ t.at \in OnLayers => t.layer <= nodes[t.id].level
  BY DEF Listed, Placed, Shape
<1>2. nodes[t.id].vector \in Int /\ nodes[t.id].level \in Nat
  BY <1>1, NodesAre
<1> QED
  BY <1>1, <1>2

(* The descent, the search and the end of a layer leave the nodes alone. *)
LEMMA DescendListed == ASSUME Shape, Listed, NEW th \in Threads, DescendTo(th) PROVE Listed'
<1> DEFINE t == insert[th]
           me == nodes[t.id]
           lower == Min({me.level, maxLevel})
           down == Descend(me.vector, t.ep, maxLevel, me.level)
           next == [t EXCEPT !.at = "layer", !.top = maxLevel, !.layer = lower, !.ep = down]
<1>1. t.at = "entered" /\ Alters(th, next) /\ UNCHANGED <<nodes, entry, maxLevel>>
  BY Goes DEF DescendTo, At, shared
<1>2. /\ Graph /\ DOMAIN t = PlaceFields /\ t.found \in Seq(DOMAIN nodes)
      /\ me.vector \in Int /\ me.level \in Nat /\ t.ep \in DOMAIN nodes
  BY <1>1, InsideIs
<1>3. maxLevel \in Nat
  BY DEF Shape
<1>4. lower \in Nat /\ lower <= me.level
  BY <1>2, <1>3, MinOfTwo
<1>5. down \in DOMAIN nodes
  BY <1>2, <1>3, AllIsClosed, DescendStays
<1> HIDE DEF lower, down
<1>6. /\ next.at = "layer" /\ next.found = t.found /\ next.ep = down
      /\ next.layer = lower /\ next.id = t.id
  BY <1>2 DEF PlaceFields
<1>7. insert'[th] = next
  BY <1>1 DEF Alters
<1> HIDE DEF next
<1>8. Placed(insert[th])'
  BY <1>1, <1>2, <1>4, <1>5, <1>6, <1>7 DEF Placed, OnLayers
<1> QED
  BY <1>1, <1>8, SameNodesListed DEF Listed

LEMMA FindListed == ASSUME Shape, Listed, NEW th \in Threads, FindNeighbors(th) PROVE Listed'
<1> DEFINE t == insert[th]
           found == SearchLayer(nodes[t.id].vector, t.ep, EfConstruction, t.layer)
           next == [t EXCEPT !.at = "forward", !.ep = found[1], !.found = Take(found, Capacity(t.layer))]
<1>1. t.at = "layer" /\ Alters(th, next) /\ UNCHANGED <<nodes, entry, maxLevel>>
  BY Goes DEF FindNeighbors, At, shared
<1>2. /\ Graph /\ DOMAIN t = PlaceFields /\ t.layer \in 0..nodes[t.id].level
      /\ t.layer \in Nat /\ nodes[t.id].vector \in Int /\ t.ep \in DOMAIN nodes
  BY <1>1, InsideIs DEF OnLayers
<1>3. found \in Seq(DOMAIN nodes) /\ found # <<>> /\ found[1] \in DOMAIN nodes
  BY <1>2, AllIsClosed, SearchLayerIs, HNSWAssumption
<1> HIDE DEF found
<1>4. /\ Take(found, Capacity(t.layer)) \in Seq(DOMAIN nodes)
      /\ Len(Take(found, Capacity(t.layer))) <= Capacity(t.layer)
  BY <1>3, TakeIs, CapacityIs
<1>5. /\ next.at = "forward" /\ next.ep = found[1] /\ next.found = Take(found, Capacity(t.layer))
      /\ next.layer = t.layer /\ next.id = t.id
  BY <1>2 DEF PlaceFields
<1>6. insert'[th] = next
  BY <1>1 DEF Alters
<1> HIDE DEF next
<1>7. Placed(insert[th])'
  BY <1>1, <1>2, <1>3, <1>4, <1>5, <1>6 DEF Placed, OnLayers, Capacity
<1> QED
  BY <1>1, <1>7, SameNodesListed DEF Listed

LEMMA NextLayerListed == ASSUME Shape, Listed, NEW th \in Threads, NextLayer(th) PROVE Listed'
<1> DEFINE t == insert[th]
           next == CASE t.layer > 0 -> [t EXCEPT !.at = "layer", !.layer = @ - 1]
                     [] t.layer = 0 /\ nodes[t.id].level > t.top -> [t EXCEPT !.at = "promote"]
                     [] OTHER -> Idle
<1>1. t.at = "reverse" /\ Alters(th, next) /\ UNCHANGED <<nodes, entry, maxLevel>>
  BY Goes DEF NextLayer, At, shared
<1>2. /\ DOMAIN t = PlaceFields /\ t.layer \in 0..nodes[t.id].level /\ nodes[t.id].level \in Nat
      /\ t.found \in Seq(DOMAIN nodes) /\ t.ep \in DOMAIN nodes
  BY <1>1, InsideIs DEF OnLayers
<1>3. insert'[th] = next
  BY <1>1 DEF Alters
<1>4. Placed(next)
  <2>1. CASE t.layer > 0
    <3>1. /\ next = [t EXCEPT !.at = "layer", !.layer = @ - 1]
      BY <2>1
    <3>2. /\ next.at = "layer" /\ next.layer = t.layer - 1 /\ next.id = t.id
          /\ next.ep = t.ep /\ next.found = t.found
      BY <1>2, <3>1 DEF PlaceFields
    <3> HIDE DEF next
    <3> QED
      BY <1>2, <2>1, <3>2 DEF Placed
  <2>2. CASE t.layer = 0 /\ nodes[t.id].level > t.top
    <3>1. next = [t EXCEPT !.at = "promote"]
      BY <2>2
    <3>2. next.at = "promote" /\ next.found = t.found
      BY <1>2, <3>1 DEF PlaceFields
    <3> HIDE DEF next
    <3> QED
      BY <1>2, <3>2 DEF Placed, OnLayers
  <2>3. CASE ~ (t.layer > 0) /\ ~ (t.layer = 0 /\ nodes[t.id].level > t.top)
    <3>1. next = Idle
      BY <2>3
    <3> HIDE DEF next
    <3> QED
      BY <3>1 DEF Placed, OnLayers, Idle
  <2> QED
    BY <2>1, <2>2, <2>3
<1> HIDE DEF next
<1>5. Placed(insert[th])'
  BY <1>1, <1>3, <1>4 DEF Placed, Capacity
<1> QED
  BY <1>1, <1>5, SameNodesListed DEF Listed

(* The new node's own list is no longer than a list may be. *)
LEMMA SetForwardListed == ASSUME Shape, Listed, NEW th \in Threads, SetForward(th) PROVE Listed'
<1> DEFINE t == insert[th]
           next == [t EXCEPT !.at = "reverse"]
<1>1. /\ t.at = "forward" /\ Alters(th, next) /\ UNCHANGED <<entry, maxLevel>>
      /\ nodes' = [nodes EXCEPT ![t.id].neighbors[t.layer] = t.found]
  BY Goes DEF SetForward, At
<1>2. /\ Graph /\ DOMAIN t = PlaceFields /\ t.layer \in 0..nodes[t.id].level
      /\ t.id \in DOMAIN nodes /\ t.found \in Seq(DOMAIN nodes) /\ t.ep \in DOMAIN nodes
  BY <1>1, InsideIs DEF OnLayers
<1>3. Len(t.found) <= Capacity(t.layer)
  BY <1>1 DEF Listed, Placed
<1>4. ListSet(t.id, t.layer, t.found)
  BY <1>1, <1>2 DEF ListSet
<1>5. /\ next.at = "reverse" /\ next.layer = t.layer /\ next.id = t.id
      /\ next.ep = t.ep /\ next.found = t.found
  BY <1>2 DEF PlaceFields
<1>6. insert'[th] = next
  BY <1>1 DEF Alters
<1>7. DOMAIN nodes' = DOMAIN nodes /\ nodes'[t.id].level = nodes[t.id].level
  BY <1>2, <1>4, ListSetIs
<1> HIDE DEF next
<1>8. Placed(insert[th])'
  BY <1>1, <1>2, <1>5, <1>6, <1>7 DEF Placed, OnLayers
<1>9. \A id, k : th \notin Pruners(id, k)
  BY <1>1 DEF Pruners, At
<1> QED
  BY <1>1, <1>3, <1>4, <1>8, <1>9, ListSetListed

(* A list that becomes too long has one more thread about to prune it. *)
LEMMA AddReverseListed == ASSUME Shape, Listed, NEW th \in Threads, AddReverse(th) PROVE Listed'
<1> DEFINE t == insert[th]
<1>1. t.at = "reverse" /\ t.found # <<>> /\ UNCHANGED <<entry, maxLevel>>
  BY DEF AddReverse, At
<1>2. /\ Graph /\ DOMAIN t = PlaceFields /\ t.layer \in 0..nodes[t.id].level /\ t.layer \in Nat
      /\ t.id \in DOMAIN nodes /\ t.found \in Seq(DOMAIN nodes) /\ t.ep \in DOMAIN nodes
      /\ nodes[t.id].level \in Nat
  BY <1>1, InsideIs DEF OnLayers
<1>3. PICK n \in DOMAIN nodes, l \in Nat, rest \in Seq(DOMAIN nodes) :
        n = Head(t.found) /\ l = t.layer /\ rest = Tail(t.found)
  BY <1>1, <1>2, HeadTailIn
<1> DEFINE list == Neighbors(n, l)
           onLayer == l <= nodes[n].level
           full == onLayer /\ Len(list) + 1 > Capacity(l)
           next == [t EXCEPT !.at = IF full THEN "prune" ELSE "reverse",
                             !.found = IF full THEN t.found ELSE rest]
<1>4. /\ Alters(th, next)
      /\ nodes' = IF onLayer THEN [nodes EXCEPT ![n].neighbors[l] = Append(@, t.id)] ELSE nodes
  <2>1. Go(th, next)
    BY <1>2, <1>3 DEF AddReverse
  <2>2. nodes' = IF onLayer THEN [nodes EXCEPT ![n].neighbors[l] = Append(@, t.id)] ELSE nodes
    BY <1>3 DEF AddReverse
  <2> HIDE DEF next
  <2> QED
    BY <2>1, <2>2, Goes
<1>5. /\ next.at = (IF full THEN "prune" ELSE "reverse")
      /\ next.found = (IF full THEN t.found ELSE rest)
      /\ next.layer = l /\ next.id = t.id /\ next.ep = t.ep
  BY <1>2, <1>3 DEF PlaceFields
<1>6. insert'[th] = next
  BY <1>4 DEF Alters
<1> HIDE DEF next
<1>7. \A id, k : th \notin Pruners(id, k)
  BY <1>1 DEF Pruners, At
<1>8. CASE ~ onLayer
  <2>1. nodes' = nodes /\ ~ full
    BY <1>4, <1>8
  <2>2. Placed(insert[th])'
    BY <1>1, <1>2, <1>3, <1>5, <1>6, <2>1 DEF Placed, OnLayers
  <2> QED
    BY <1>1, <1>4, <2>1, <2>2, SameNodesListed DEF Listed
<1>9. CASE onLayer
  <2>1. list = nodes[n].neighbors[l] /\ list \in Seq(DOMAIN nodes)
    BY <1>2, <1>9, NeighborsAre DEF Neighbors
  <2>2. nodes[n].level \in Nat /\ l \in 0..nodes[n].level
    BY <1>2, <1>9, NodesAre
  <2> HIDE DEF list
  <2>3. PICK x \in Seq(DOMAIN nodes) : x = Append(list, t.id) /\ Len(x) = Len(list) + 1
    <3>1. Append(list, t.id) \in Seq(DOMAIN nodes) /\ Len(Append(list, t.id)) = Len(list) + 1
      BY <1>2, <2>1
    <3> QED
      BY <3>1
  <2>4. nodes' = [nodes EXCEPT ![n].neighbors[l] = x]
    BY <1>4, <1>9, <2>1, <2>3
  <2>5. ListSet(n, l, x)
    BY <2>2, <2>3, <2>4 DEF ListSet
  <2>6. /\ DOMAIN nodes' = DOMAIN nodes
        /\ nodes'[t.id].level = nodes[t.id].level /\ nodes'[n].level = nodes[n].level
    BY <1>2, <2>5, ListSetIs
  <2> HIDE DEF full
  <2>7. Placed(insert[th])'
    BY <1>1, <1>2, <1>3, <1>5, <1>6, <1>9, <2>6 DEF Placed, OnLayers
  <2>8. \/ Len(x) <= Capacity(l)
        \/ /\ Len(x) <= Len(nodes[n].neighbors[l]) + 1
           /\ th \notin Pruners(n, l) /\ th \in Pruners(n, l)'
    <3>1. Len(list) \in Nat /\ Capacity(l) \in Nat
      BY <2>1, CapacityIs
    <3>2. CASE full
      <4>1. th \in Pruners(n, l)'
        BY <1>3, <1>5, <1>6, <3>2 DEF Pruners, At
      <4> QED
        BY <1>7, <2>1, <2>3, <3>1, <4>1
    <3>3. CASE ~ full
      BY <1>9, <2>3, <3>1, <3>3 DEF full
    <3> QED
      BY <3>2, <3>3
  <2>9. \A id, k : id # n \/ k # l => th \notin Pruners(id, k)
    BY <1>7
  <2> QED
    BY <1>1, <1>4, <2>5, <2>7, <2>8, <2>9, ListSetListed
<1> QED
  BY <1>8, <1>9

(* What prune_neighbors keeps of a list: as many of its nodes as fit. *)
LEMMA KeptListIs ==
    ASSUME Graph, NEW n \in DOMAIN nodes, NEW l \in Nat, Capacity(l) < Len(Neighbors(n, l))
    PROVE  Kept(n, l) \in Seq(DOMAIN nodes) /\ Len(Kept(n, l)) = Capacity(l)
<1> DEFINE list == Neighbors(n, l)
           D == DOMAIN list
           away == [i \in D |-> From(nodes[n].vector, list[i])]
           R == {p \in D \X D : away[p[1]] < away[p[2]] \/ (away[p[1]] = away[p[2]] /\ p[1] < p[2])}
           order == InOrder(D, R)
           kept == [i \in 1..Capacity(l) |-> list[order[i]]]
<1>1. list \in Seq(DOMAIN nodes) /\ Capacity(l) \in Nat /\ nodes[n].vector \in Int
  BY NeighborsAre, CapacityIs, NodesAre
<1>2. Kept(n, l) = kept
  BY DEF Kept
<1>3. Capacity(l) < Len(list)
  OBVIOUS
<1> HIDE DEF list
<1>4. D = 1..Len(list) /\ Len(list) \in Nat /\ \A i \in D : list[i] \in DOMAIN nodes
  BY <1>1
<1>5. IsFiniteSet(D) /\ Cardinality(D) = Len(list)
  <2>1. 1 \in Int /\ Len(list) \in Int
    BY <1>4
  <2>2. /\ IsFiniteSet(1..Len(list))
        /\ Cardinality(1..Len(list)) = IF 1 > Len(list) THEN 0 ELSE Len(list) - 1 + 1
    BY <2>1, FS_Interval
  <2> QED
    BY <1>4, <2>2
<1>6. \A i \in D : away[i] \in Int
  <2> SUFFICES ASSUME NEW i \in D PROVE away[i] \in Int
    OBVIOUS
  <2>1. away[i] = From(nodes[n].vector, list[i])
    OBVIOUS
  <2> QED
    BY <1>1, <1>4, <2>1, FromIs
<1> HIDE DEF away
<1>7. \A i, j \in D : <<i, j>> \in R <=> away[i] < away[j] \/ (away[i] = away[j] /\ i < j)
  OBVIOUS
<1>8. \A i \in D : i \in Int
  BY <1>4
<1> HIDE DEF D, R
<1>9. Orders(R, D)
  BY <1>6, <1>7, <1>8 DEF Orders
<1>10. order \in [1..Cardinality(D) -> D]
  BY <1>5, <1>9, InOrderIs
<1> HIDE DEF order
<1>11. \A i \in 1..Capacity(l) : list[order[i]] \in DOMAIN nodes
  <2> SUFFICES ASSUME NEW i \in 1..Capacity(l) PROVE list[order[i]] \in DOMAIN nodes
    OBVIOUS
  <2>1. i \in 1..Cardinality(D)
    BY <1>1, <1>3, <1>4, <1>5
  <2>2. order[i] \in D
    BY <1>10, <2>1
  <2> QED
    BY <1>4, <2>2
<1>12. kept \in Seq(DOMAIN nodes) /\ Len(kept) = Capacity(l)
  BY <1>1, <1>11
<1> HIDE DEF kept
<1> QED
  BY <1>2, <1>12

(* A thread that leaves prune leaves a list that fits. *)
LEMMA PruneListed == ASSUME Shape, Listed, NEW th \in Threads, Prune(th) PROVE Listed'
<1> DEFINE t == insert[th]
<1>1. /\ t.at = "prune" /\ UNCHANGED <<entry, maxLevel>> /\ t.found # <<>>
      /\ t.layer <= nodes[Head(t.found)].level
  BY DEF Prune, At, Listed, Placed
<1>2. /\ Graph /\ DOMAIN t = PlaceFields /\ t.layer \in 0..nodes[t.id].level /\ t.layer \in Nat
      /\ t.id \in DOMAIN nodes /\ t.found \in Seq(DOMAIN nodes) /\ t.ep \in DOMAIN nodes
      /\ nodes[t.id].level \in Nat
  BY <1>1, InsideIs DEF OnLayers
<1>3. PICK n \in DOMAIN nodes, l \in Nat, rest \in Seq(DOMAIN nodes) :
        n = Head(t.found) /\ l = t.layer /\ rest = Tail(t.found)
  BY <1>1, <1>2, HeadTailIn
<1> DEFINE list == Neighbors(n, l)
           kept == Kept(n, l)
           next == [t EXCEPT !.at = "reverse", !.found = rest]
<1>4. /\ Alters(th, next)
      /\ IF Len(list) <= Capacity(l) THEN nodes' = nodes
         ELSE nodes' = [nodes EXCEPT ![n].neighbors[l] = kept]
  <2>1. Go(th, next)
    BY <1>2, <1>3 DEF Prune
  <2>2. IF Len(list) <= Capacity(l) THEN nodes' = nodes
        ELSE nodes' = [nodes EXCEPT ![n].neighbors[l] = kept]
    BY <1>3 DEF Prune
  <2> HIDE DEF next, kept, list
  <2> QED
    BY <2>1, <2>2, Goes
<1>5. next.at = "reverse" /\ next.found = rest /\ next.layer = l /\ next.id = t.id /\ next.ep = t.ep
  BY <1>2, <1>3 DEF PlaceFields
<1>6. insert'[th] = next
  BY <1>4 DEF Alters
<1> HIDE DEF next
<1>7. \A id, k : id # n \/ k # l => th \notin Pruners(id, k)
  BY <1>3 DEF Pruners
<1>8. nodes[n].level \in Nat /\ l \in 0..nodes[n].level /\ nodes[n].vector \in Int
  BY <1>1, <1>2, <1>3, NodesAre
<1>9. list = nodes[n].neighbors[l] /\ list \in Seq(DOMAIN nodes)
  <2>1. l <= nodes[n].level
    BY <1>8
  <2> QED
    BY <1>2, <2>1, NeighborsAre DEF Neighbors
<1>10. Capacity(l) \in Nat
  BY CapacityIs
<1> HIDE DEF list
<1>11. CASE Len(list) <= Capacity(l)
  <2>1. nodes' = nodes
    BY <1>4, <1>11
  <2>2. Placed(insert[th])'
    BY <1>1, <1>2, <1>3, <1>5, <1>6, <2>1 DEF Placed, OnLayers
  <2>3. Keeps /\ Graph'
    BY <1>2, <2>1 DEF Keeps, Graph
  <2>4. (\A u \in Threads : Placed(insert[u]))'
    BY <1>4, <2>2, <2>3, AllPlaced DEF Listed
  <2>5. ASSUME NEW id \in DOMAIN nodes, NEW k \in Nat, k <= nodes[id].level
        PROVE  /\ Len(nodes'[id].neighbors[k]) \in Nat
               /\ \/ Len(nodes'[id].neighbors[k]) <= Capacity(k)
                  \/ /\ Len(nodes'[id].neighbors[k]) <= Len(nodes[id].neighbors[k])
                     /\ th \notin Pruners(id, k)
    <3>1. nodes[id].level \in Nat /\ k \in 0..nodes[id].level
      BY <1>2, <2>5, NodesAre
    <3>2. Len(nodes[id].neighbors[k]) \in Nat
      BY <1>2, <3>1 DEF Graph
    <3>3. CASE id = n /\ k = l
      BY <1>9, <1>11, <2>1, <3>2, <3>3
    <3>4. CASE ~ (id = n /\ k = l)
      BY <1>7, <2>1, <3>2, <3>4
    <3> QED
      BY <3>3, <3>4
  <2>6. Bounded'
    BY <1>2, <1>4, <2>1, <2>5, AllBounded DEF Listed
  <2> QED
    BY <1>1, <2>1, <2>3, <2>4, <2>6 DEF Listed
<1>12. CASE ~ (Len(list) <= Capacity(l))
  <2>1. Capacity(l) < Len(Neighbors(n, l))
    BY <1>9, <1>10, <1>12 DEF list
  <2>4. kept \in Seq(DOMAIN nodes) /\ Len(kept) = Capacity(l)
    BY <1>2, <1>8, <2>1, KeptListIs
  <2>5. nodes' = [nodes EXCEPT ![n].neighbors[l] = kept]
    BY <1>4, <1>12
  <2> HIDE DEF kept
  <2>6. ListSet(n, l, kept)
    BY <1>8, <2>4, <2>5 DEF ListSet
  <2>7. DOMAIN nodes' = DOMAIN nodes /\ nodes'[t.id].level = nodes[t.id].level
    BY <1>2, <2>6, ListSetIs
  <2>8. Placed(insert[th])'
    BY <1>1, <1>2, <1>3, <1>5, <1>6, <2>7 DEF Placed, OnLayers
  <2>9. PICK x : x = kept
    OBVIOUS
  <2>10. ListSet(n, l, x) /\ Len(x) <= Capacity(l)
    BY <1>10, <2>4, <2>6, <2>9
  <2> QED
    BY <1>1, <1>4, <1>7, <2>8, <2>10, ListSetListed
<1> QED
  BY <1>11, <1>12

(* A tombstone changes no list. *)
LEMMA RemovalListed == ASSUME Shape, Listed, NEW id \in Ids, RemoveVector(id) PROVE Listed'
<1>1. /\ id \in DOMAIN nodes /\ nodes' = [nodes EXCEPT ![id].deleted = TRUE]
      /\ UNCHANGED <<entry, maxLevel, insert>>
  BY DEF RemoveVector, Live
<1>2. /\ DOMAIN nodes' = DOMAIN nodes
      /\ \A n \in DOMAIN nodes : /\ DOMAIN nodes'[n] = DOMAIN nodes[n]
                                 /\ nodes'[n].vector = nodes[n].vector /\ nodes'[n].level = nodes[n].level
                                 /\ nodes'[n].neighbors = nodes[n].neighbors
  BY <1>1 DEF Listed, Graph, NodeFields
<1>3. Graph'
  BY <1>2 DEF Listed, Graph
<1>4. Keeps
  BY <1>2 DEF Keeps
<1>5. (\A u \in Threads : Placed(insert[u]))'
  BY <1>1, <1>4, StaysPlaced DEF Listed
<1>6. \A n, l : Pruners(n, l)' = Pruners(n, l)
  BY <1>1 DEF Pruners, At
<1>7. Bounded'
  BY <1>2, <1>6 DEF Listed, Bounded, Capacity
<1> QED
  BY <1>1, <1>2, <1>3, <1>5, <1>7 DEF Listed

LEMMA ListedStays == ASSUME Listed, UNCHANGED vars PROVE Listed'
<1>1. UNCHANGED <<nodes, entry, maxLevel, insert>>
  BY DEF vars
<1>2. \A n, l : Pruners(n, l)' = Pruners(n, l)
  BY <1>1 DEF Pruners, At
<1> QED
  BY <1>1, <1>2 DEF Listed, Graph, Placed, Bounded, Capacity

LEMMA ListedInit == Init => Listed
<1> SUFFICES ASSUME Init PROVE Listed
  OBVIOUS
<1>1. DOMAIN nodes = {} /\ entry = None /\ maxLevel = 0 /\ \A th \in Threads : insert[th] = Idle
  BY DEF Init
<1>2. Idle.found = <<>> /\ Idle.at = "idle" /\ Idle.id = None
  BY DEF Idle
<1> QED
  <2>1. \A th \in Threads : Placed(insert[th])
    <3> SUFFICES ASSUME NEW th \in Threads PROVE Placed(insert[th])
      OBVIOUS
    <3>1. insert[th].found = <<>> /\ insert[th].at = "idle" /\ insert[th].id = None
      BY <1>1, <1>2
    <3> QED
      BY <3>1 DEF Placed, OnLayers
  <2>2. Graph /\ Bounded
    BY <1>1 DEF Graph, Bounded
  <2> QED
    BY <1>1, <2>1, <2>2 DEF Listed

LEMMA ListedStep == ASSUME Shape, Listed, [Next]_vars PROVE Listed'
<1>1. ASSUME NEW th \in Threads, Step(th) PROVE Listed'
  BY <1>1, EntryListed, DescendListed, FindListed, SetForwardListed, AddReverseListed, PruneListed,
     NextLayerListed DEF Step
<1>2. ASSUME NEW th \in Threads, NEW id \in Ids, NEW v \in Vectors[id], NEW level \in RandomLevel(id),
             Add(th, id, v, level)
      PROVE  Listed'
  <2>1. CASE id \in DOMAIN nodes
    BY <1>2, <2>1, ListedStays DEF Add
  <2>2. CASE id \notin DOMAIN nodes
    BY <1>2, <2>2, AddListed DEF RandomLevel
  <2> QED
    BY <2>1, <2>2
<1>3. ASSUME UNCHANGED vars PROVE Listed'
  BY <1>3, ListedStays
<1> QED
  BY <1>1, <1>2, <1>3, RemovalListed DEF Next

(* The invariant of types and of the lengths of lists. *)
LEMMA ListedInvariant == Spec => [](Shape /\ Listed)
<1>1. Init => Shape /\ Listed
  BY ListedInit, SerialInit
<1>2. Shape /\ Listed /\ [Next]_vars => (Shape /\ Listed)'
  BY ShapeStep, ListedStep
<1> QED
  BY <1>1, <1>2, PTL DEF Spec

(* insert takes and releases the lock of the map between writing an edge and
   pruning the list it made too long: whatever the threads do meanwhile, every
   edge leads to a node, the entry point and max_level are those of nodes of
   the map, and a list is above its capacity by no more than the threads that
   are on their way to prune it. *)
THEOREM TypeCorrect == Spec => []HTypeOK
<1>1. Shape /\ Listed => HTypeOK
  <2> SUFFICES ASSUME Shape, Listed PROVE HTypeOK
    OBVIOUS
  <2>1. /\ DOMAIN nodes \subseteq Ids /\ entry \in DOMAIN nodes \cup {None}
        /\ maxLevel \in {0} \cup {nodes[id].level : id \in DOMAIN nodes}
        /\ \A id \in DOMAIN nodes : nodes[id].vector \in Vectors[id] /\ nodes[id].level \in LevelsOf[id]
    BY DEF Listed, Graph
  <2>2. ASSUME NEW id \in DOMAIN nodes, NEW l \in 0..nodes[id].level
        PROVE  /\ ToSet(nodes[id].neighbors[l]) \subseteq DOMAIN nodes
               /\ Len(nodes[id].neighbors[l]) <= Capacity(l) + Cardinality({th \in Threads : At(th, "prune")})
    <3>1. nodes[id].neighbors[l] \in Seq(DOMAIN nodes)
      BY DEF Listed, Graph
    <3>2. Len(nodes[id].neighbors[l]) <= Capacity(l) + Cardinality(Pruners(id, l))
      BY DEF Listed, Bounded
    <3>3. /\ Cardinality(Pruners(id, l)) \in Nat /\ Cardinality({th \in Threads : At(th, "prune")}) \in Nat
          /\ Cardinality(Pruners(id, l)) <= Cardinality({th \in Threads : At(th, "prune")})
      BY PrunersAreFew
    <3>4. Capacity(l) \in Nat /\ Len(nodes[id].neighbors[l]) \in Nat
      BY <3>1, CapacityIs
    <3>5. ToSet(nodes[id].neighbors[l]) \subseteq DOMAIN nodes
      BY <3>1 DEF ToSet
    <3> QED
      BY <3>2, <3>3, <3>4, <3>5
  <2>3. \A th \in Threads : insert[th].id \in DOMAIN nodes \cup {None}
    BY DEF Shape, Listed, Placed
  <2> QED
    BY <2>1, <2>2, <2>3 DEF HTypeOK
<1> QED
  BY <1>1, ListedInvariant, PTL

(* --- What a search returns ----------------------------------------------- *)
(* Nodes by distance: each once, the closest first. *)
LEMMA ByDistanceSorted ==
    ASSUME Graph, NEW query \in Int, NEW S \in SUBSET DOMAIN nodes
    PROVE  /\ ByDistance(query, S) \in Seq(S)
           /\ \A i, j \in 1..Len(ByDistance(query, S)) : i < j =>
                /\ ByDistance(query, S)[i] # ByDistance(query, S)[j]
                /\ From(query, ByDistance(query, S)[i]) <= From(query, ByDistance(query, S)[j])
<1> DEFINE f == ByDistance(query, S)
           n == Cardinality(S)
<1>1. /\ n \in Nat /\ f \in [1..n -> S]
      /\ \A i, j \in 1..n : i < j => Closer(query, f[i], f[j])
  BY ByDistanceIs
<1> HIDE DEF n, f
<1>2. f \in Seq(S) /\ Len(f) = n
  BY <1>1
<1>3. ASSUME NEW i \in 1..n, NEW j \in 1..n, i < j
      PROVE  f[i] # f[j] /\ From(query, f[i]) <= From(query, f[j])
  <2>1. f[i] \in DOMAIN nodes /\ f[j] \in DOMAIN nodes /\ f[i] \in Int /\ f[j] \in Int
    <3>1. \A a \in DOMAIN nodes : a \in Int
      BY NodesAre
    <3>2. f[i] \in S /\ f[j] \in S
      BY <1>1
    <3> QED
      BY <3>1, <3>2
  <2>2. From(query, f[i]) \in Int /\ From(query, f[j]) \in Int
    BY <2>1, FromIs
  <2>3. Closer(query, f[i], f[j])
    BY <1>1, <1>3
  <2> QED
    BY <2>1, <2>2, <2>3 DEF Closer
<1> QED
  BY <1>2, <1>3 DEF f

(* A search for any point and any number of nodes, in any state of the lists. *)
LEMMA ASearchIsSound ==
    ASSUME Shape, Listed, NEW q \in Int, NEW k \in Nat
    PROVE  LET r == Search(q, k)
           IN /\ Len(r) <= k /\ IsInjective(r) /\ ToSet(r) \subseteq Live
              /\ \A i \in 1..Len(r) - 1 : From(q, r[i]) <= From(q, r[i + 1])
<1>1. CASE k = 0 \/ entry = None
  <2>1. Search(q, k) = <<>>
    BY <1>1 DEF Search
  <2>2. Len(<<>>) = 0 /\ ToSet(<<>>) = {} /\ IsInjective(<<>>)
    BY DEF ToSet, IsInjective
  <2> QED
    BY <2>1, <2>2
<1>2. CASE ~ (k = 0 \/ entry = None)
  <2> DEFINE ep == Descend(q, entry, maxLevel, 0)
             ef == Max({EfSearch, k})
             S == Live \cap Beam(q, ep, ef, 0)
             f == ByDistance(q, S)
             r == Take(f, k)
  <2>1. Graph /\ entry \in DOMAIN nodes /\ maxLevel \in Nat
    BY <1>2 DEF Listed, Shape
  <2>2. ef \in Nat \ {0}
    BY HNSWAssumption, MaxOfTwo
  <2>3. S \in SUBSET DOMAIN nodes /\ S \subseteq Live
    BY DEF Live
  <2>4. Search(q, k) = r
    BY <1>2 DEF Search
  <2> HIDE DEF S
  <2>5. /\ f \in Seq(S)
        /\ \A i, j \in 1..Len(f) : i < j => f[i] # f[j] /\ From(q, f[i]) <= From(q, f[j])
    BY <2>1, <2>3, ByDistanceSorted
  <2> HIDE DEF f
  <2>6. /\ r \in Seq(S) /\ Len(r) <= k /\ Len(r) <= Len(f)
        /\ \A i \in 1..Len(r) : r[i] = f[i]
    BY <2>5, TakeIs
  <2> HIDE DEF r
  <2>7. Len(r) \in Nat /\ Len(f) \in Nat /\ DOMAIN r = 1..Len(r)
    BY <2>5, <2>6
  <2>8. \A i, j \in 1..Len(r) : i < j => r[i] # r[j] /\ From(q, r[i]) <= From(q, r[j])
    BY <2>5, <2>6, <2>7
  <2>9. IsInjective(r)
    BY <2>7, <2>8 DEF IsInjective
  <2>10. ToSet(r) \subseteq Live
    BY <2>3, <2>6 DEF ToSet
  <2>11. \A i \in 1..Len(r) - 1 : From(q, r[i]) <= From(q, r[i + 1])
    BY <2>7, <2>8
  <2> QED
    BY <2>4, <2>6, <2>9, <2>10, <2>11
<1> QED
  BY <1>1, <1>2

(* HNSWIndex::search, in any state the inserts and removals of any number of
   threads can leave: the nodes it returns are live, each is returned once, the
   closest first, and they are no more than it was asked for. *)
THEOREM SearchesAreSound == Spec => []SearchIsSound
<1>1. Shape /\ Listed => SearchIsSound
  <2> SUFFICES ASSUME Shape, Listed PROVE SearchIsSound
    OBVIOUS
  <2>1. Cardinality(Ids) \in Nat
    BY HNSWAssumption, FS_CardinalityType
  <2>2. \A q \in Queries : q \in Int
    BY HNSWAssumption
  <2> QED
    BY <2>1, <2>2, ASearchIsSound DEF SearchIsSound
<1> QED
  BY <1>1, ListedInvariant, PTL

(* --- A beam as wide as the index ----------------------------------------- *)
(* A search that no bound on its results has touched: what it has found is what
   it has visited, and every node it has closed leads only to those. *)
Closed(s) == s.visited \ s.candidates
Wide(ep, layer, s) ==
    /\ s \in Searches /\ ep \in s.visited /\ s.results = s.visited /\ s.candidates \subseteq s.visited
    /\ \A a \in Closed(s) : ToSet(Neighbors(a, layer)) \subseteq s.visited

(* With room for every node, a node that is visited is a result and a candidate. *)
LEMMA VisitWide ==
    ASSUME Graph, NEW query \in Int, NEW ef \in Nat, Cardinality(DOMAIN nodes) <= ef,
           NEW s \in Searches, s.results = s.visited, s.candidates \subseteq s.visited, NEW n \in DOMAIN nodes
    PROVE  LET x == Visit(query, ef, s, n)
           IN /\ x \in Searches /\ x.results = x.visited /\ x.candidates \subseteq x.visited
              /\ Closed(x) = Closed(s) /\ x.visited = s.visited \cup {n}
<1> DEFINE x == Visit(query, ef, s, n)
           grown == s.results \cup {n}
<1>1. CASE n \in s.visited
  <2>1. x = s
    BY <1>1 DEF Visit
  <2> QED
    BY <1>1, <2>1
<1>2. CASE n \notin s.visited
  <2>1. s.visited \in SUBSET DOMAIN nodes /\ s.candidates \in SUBSET DOMAIN nodes
    BY DEF Searches
  <2>2. /\ IsFiniteSet(DOMAIN nodes) /\ Cardinality(DOMAIN nodes) \in Nat
    BY NodesAre
  <2>3. grown \in SUBSET DOMAIN nodes
    BY <2>1
  <2>4. /\ IsFiniteSet(s.results) /\ Cardinality(s.results) \in Nat
        /\ Cardinality(grown) <= Cardinality(DOMAIN nodes)
        /\ Cardinality(grown) = Cardinality(s.results) + 1
    BY <1>2, <2>1, <2>2, <2>3, FS_Subset, FS_AddElement, FS_CardinalityType
  <2>5. Cardinality(s.results) < ef /\ ~ (Cardinality(grown) > ef)
    BY <2>2, <2>4
  <2>6. x = [visited |-> s.visited \cup {n}, candidates |-> s.candidates \cup {n}, results |-> grown]
    BY <1>2, <2>5 DEF Visit
  <2>7. /\ x.visited = grown /\ x.results = grown /\ x.candidates = s.candidates \cup {n}
        /\ x \in Searches
    BY <2>1, <2>3, <2>6 DEF Searches
  <2> QED
    BY <1>2, <2>7 DEF Closed
<1> QED
  BY <1>1, <1>2

(* Expanding a candidate closes it and nothing else. *)
LEMMA ExpandWide ==
    ASSUME Graph, NEW query \in Int, NEW ef \in Nat, Cardinality(DOMAIN nodes) <= ef, NEW layer \in Nat,
           NEW ep, NEW s, Wide(ep, layer, s), s.candidates # {}
    PROVE  /\ Wide(ep, layer, Expand(query, ef, layer, s))
           /\ \E c \in s.candidates : Closed(Expand(query, ef, layer, s)) = Closed(s) \cup {c}
<1> DEFINE c == Nearest(query, s.candidates)
           open == [s EXCEPT !.candidates = @ \ {c}]
           ns == Neighbors(c, layer)
           Each == [x \in Searches |-> [n \in DOMAIN nodes |-> Visit(query, ef, x, n)]]
           After(i) == {x \in Searches : /\ x.results = x.visited /\ x.candidates \subseteq x.visited
                                         /\ Closed(x) = Closed(s) \cup {c} /\ s.visited \subseteq x.visited
                                         /\ \A j \in 1..i : ns[j] \in x.visited}
           S == [i \in 0..Len(ns) |-> After(i)]
<1>1. s.candidates \in SUBSET DOMAIN nodes /\ s \in Searches
  BY DEF Wide, Searches
<1>2. c \in s.candidates /\ c \in DOMAIN nodes
  BY <1>1, NearestIs
<1>3. Expand(query, ef, layer, s) = Loop(Each, open, ns)
  BY DEF Expand, VisitAll
<1>4. ns \in Seq(DOMAIN nodes) /\ Len(ns) \in Nat
  BY <1>2, NeighborsAre
<1>5. /\ open \in Searches /\ open.visited = s.visited /\ open.results = s.results
      /\ open.candidates = s.candidates \ {c}
  BY <1>1 DEF Searches
<1> HIDE DEF c, ns, open
<1>6. open \in After(0)
  BY <1>2, <1>5 DEF Wide, Closed
<1>7. ASSUME NEW i \in 1..Len(ns), NEW y \in After(i - 1) PROVE Each[y][ns[i]] \in After(i)
  <2>1. ns[i] \in DOMAIN nodes /\ y \in Searches
    BY <1>4
  <2>2. Each[y][ns[i]] = Visit(query, ef, y, ns[i])
    BY <2>1
  <2> DEFINE x == Visit(query, ef, y, ns[i])
  <2>3. /\ x \in Searches /\ x.results = x.visited /\ x.candidates \subseteq x.visited
        /\ Closed(x) = Closed(y) /\ x.visited = y.visited \cup {ns[i]}
    BY <2>1, VisitWide
  <2> HIDE DEF x
  <2>4. \A j \in 1..i : j = i \/ j \in 1..(i - 1)
    BY <1>4
  <2>5. x \in After(i)
    BY <2>3, <2>4
  <2> QED
    BY <2>2, <2>5 DEF x
<1>8. /\ \A i \in 0..Len(ns) : S[i] = After(i)
      /\ 0 \in 0..Len(ns) /\ Len(ns) \in 0..Len(ns)
      /\ \A i \in 1..Len(ns) : i \in 0..Len(ns) /\ i - 1 \in 0..Len(ns)
  BY <1>4
<1> HIDE DEF S, After, Each
<1>9. Loop(Each, open, ns) \in S[Len(ns)]
  BY <1>4, <1>6, <1>7, <1>8, LoopLeads
<1>10. PICK x : x = Loop(Each, open, ns) /\ x \in After(Len(ns))
  BY <1>8, <1>9
<1>11. /\ x \in Searches /\ x.results = x.visited /\ x.candidates \subseteq x.visited
       /\ Closed(x) = Closed(s) \cup {c} /\ s.visited \subseteq x.visited
       /\ \A j \in 1..Len(ns) : ns[j] \in x.visited
  BY <1>10 DEF After
<1>12. ToSet(ns) \subseteq x.visited
  BY <1>4, <1>11 DEF ToSet
<1>13. Wide(ep, layer, x)
  BY <1>11, <1>12 DEF Wide, ns
<1> QED
  BY <1>2, <1>3, <1>10, <1>11, <1>13

(* A beam as wide as the index finds all that its layer leads to. *)
LEMMA BeamReaches ==
    ASSUME Graph, NEW query \in Int, NEW ef \in Nat \ {0}, Cardinality(DOMAIN nodes) <= ef, NEW layer \in Nat,
           NEW ep \in DOMAIN nodes
    PROVE  ClosedAt(Beam(query, ep, ef, layer), layer) /\ ep \in Beam(query, ep, ef, layer)
<1> DEFINE Round == [s \in Searches |-> [i \in Nat |-> IF Done(query, ef, s) THEN s ELSE Expand(query, ef, layer, s)]]
           N == Cardinality(DOMAIN nodes)
           After(i) == {s \in Searches : /\ Wide(ep, layer, s)
                                         /\ s.candidates = {} \/ Cardinality(Closed(s)) >= i}
           S == [i \in 0..N |-> After(i)]
<1>1. Beam(query, ep, ef, layer) = Loop(Round, StartAt(ep), Times(N)).results
  BY DEF Beam
<1>2. N \in Nat /\ IsFiniteSet(DOMAIN nodes) /\ Len(Times(N)) = N /\ \A i \in 1..N : Times(N)[i] = i
  BY NodesAre, TimesIs
<1>3. StartAt(ep) \in After(0)
  <2>1. StartAt(ep) \in Searches /\ Closed(StartAt(ep)) = {} /\ Wide(ep, layer, StartAt(ep))
    BY DEF StartAt, Searches, Wide, Closed
  <2>2. Cardinality(Closed(StartAt(ep))) >= 0
    BY <2>1, FS_EmptySet
  <2> QED
    BY <2>1, <2>2
<1>4. ASSUME NEW i \in 1..N, NEW s \in After(i - 1) PROVE Round[s][i] \in After(i)
  <2>1. i \in Nat /\ s \in Searches /\ Wide(ep, layer, s)
    BY <1>2
  <2>2. Round[s][i] = IF Done(query, ef, s) THEN s ELSE Expand(query, ef, layer, s)
    BY <2>1
  <2>3. /\ s.candidates \in SUBSET DOMAIN nodes /\ s.results \in SUBSET DOMAIN nodes /\ s.results # {}
        /\ s.candidates \subseteq s.results /\ Closed(s) \in SUBSET DOMAIN nodes
    BY <2>1 DEF Searches, Wide, Closed
  <2>4. CASE Done(query, ef, s)
    <3>1. s.candidates = {}
      <4> SUFFICES ASSUME s.candidates # {} PROVE FALSE
        OBVIOUS
      <4> DEFINE near == Nearest(query, s.candidates)
                 far == Farthest(query, s.results)
      <4>1. From(query, near) > From(query, far)
        BY <2>4 DEF Done
      <4>2. near \in s.results /\ far \in s.results
            /\ \A b \in s.results \ {far} : Closer(query, b, far)
        BY <2>3, NearestIs
      <4> HIDE DEF near, far
      <4>3. From(query, near) \in Nat /\ From(query, far) \in Nat
        BY <2>3, <4>2, FromIs
      <4>4. near = far \/ Closer(query, near, far)
        BY <4>2
      <4> QED
        BY <4>1, <4>3, <4>4 DEF Closer
    <3> QED
      BY <2>1, <2>2, <2>4, <3>1
  <2>5. CASE ~ Done(query, ef, s)
    <3>1. s.candidates # {}
      BY <2>5 DEF Done
    <3> DEFINE x == Expand(query, ef, layer, s)
    <3>2. Wide(ep, layer, x) /\ \E c \in s.candidates : Closed(x) = Closed(s) \cup {c}
      BY <2>1, <3>1, ExpandWide
    <3> HIDE DEF x
    <3>3. PICK c \in s.candidates : Closed(x) = Closed(s) \cup {c}
      BY <3>2
    <3>4. c \notin Closed(s) /\ IsFiniteSet(Closed(s))
      BY <1>2, <2>3, FS_Subset DEF Closed
    <3>5. Cardinality(Closed(s)) \in Nat /\ Cardinality(Closed(x)) = Cardinality(Closed(s)) + 1
      BY <3>3, <3>4, FS_AddElement, FS_CardinalityType
    <3>6. Cardinality(Closed(x)) >= i
      BY <2>1, <3>1, <3>5
    <3>7. x \in Searches
      BY <3>2 DEF Wide
    <3> QED
      BY <2>2, <2>5, <3>2, <3>6, <3>7 DEF x
  <2> QED
    BY <2>4, <2>5
<1>5. /\ \A i \in 0..N : S[i] = After(i)
      /\ 0 \in 0..N /\ N \in 0..N
      /\ \A i \in 1..N : i \in 0..N /\ i - 1 \in 0..N
  BY <1>2
<1> HIDE DEF S, After, Round, N
<1>6. Loop(Round, StartAt(ep), Times(N)) \in S[N]
  <2>1. Len(Times(N)) \in Nat /\ StartAt(ep) \in S[0]
    BY <1>2, <1>3, <1>5
  <2>2. \A i \in 1..Len(Times(N)) : \A y \in S[i - 1] : Round[y][Times(N)[i]] \in S[i]
    BY <1>2, <1>4, <1>5
  <2>3. Loop(Round, StartAt(ep), Times(N)) \in S[Len(Times(N))]
    BY <2>1, <2>2, LoopLeads
  <2> QED
    BY <1>2, <2>3
<1>7. PICK s : s = Loop(Round, StartAt(ep), Times(N)) /\ s \in After(N)
  BY <1>5, <1>6
<1>8. Wide(ep, layer, s) /\ (s.candidates = {} \/ Cardinality(Closed(s)) >= N)
  BY <1>7 DEF After
<1>9. s.candidates \in SUBSET DOMAIN nodes /\ Closed(s) \in SUBSET DOMAIN nodes /\ s.visited \in SUBSET DOMAIN nodes
  BY <1>8 DEF Wide, Searches, Closed
<1>10. s.candidates = {}
  <2>1. CASE Cardinality(Closed(s)) >= N
    <3>1. Cardinality(Closed(s)) <= N /\ Cardinality(Closed(s)) \in Nat
      BY <1>2, <1>9, FS_Subset, FS_CardinalityType DEF N
    <3>2. Cardinality(Closed(s)) = Cardinality(DOMAIN nodes)
      BY <1>2, <2>1, <3>1 DEF N
    <3>3. Closed(s) = DOMAIN nodes
      BY <1>2, <1>9, <3>2, FS_Subset
    <3> QED
      BY <1>9, <3>3 DEF Closed
  <2> QED
    BY <1>8, <2>1
<1>11. Closed(s) = s.visited
  BY <1>10 DEF Closed
<1> QED
  BY <1>1, <1>7, <1>8, <1>9, <1>11 DEF Wide, ClosedAt

(* --- Layer 0 is connected ------------------------------------------------ *)
(* Where the lists lead, as a value. *)
Ways == [a \in DOMAIN nodes |-> [l \in Nat |-> ToSet(Neighbors(a, l))]]

(* Layer 0 is connected on S: nothing but all of S keeps to itself. *)
Whole(W, S) == \A C \in SUBSET S : C # {} /\ (\A a \in C : W[a][0] \cap S \subseteq C) => C = S

Others(W, t) == DOMAIN W \ {t.id}
NotYet(W, t, l) == \A a \in DOMAIN W : t.id \notin W[a][l]

(* How far a thread has linked its node, when it is alone inside insert and no
   list was pruned: the other nodes are connected all along; no list of the
   layers to come leads to the node, so a search on them finds others only;
   and on layer 0 each neighbour it has leads back to it, or is still to be
   done. *)
Linked(W, t) ==
    /\ t.at \in {"added", "entered"} \cup OnLayers => Whole(W, Others(W, t))
    /\ t.at \in {"promote", "level"} => Whole(W, DOMAIN W)
    /\ t.at \in {"added", "entered"} => \A l \in Nat : NotYet(W, t, l)
    /\ t.at = "layer" => \A l \in 0..t.layer : NotYet(W, t, l)
    /\ t.at \in {"forward", "reverse", "prune"} => \A l \in 0..(t.layer - 1) : NotYet(W, t, l)
    /\ t.at \in {"entered"} \cup OnLayers => t.ep \in Others(W, t)
    /\ t.at = "forward" => t.found # <<>>
    /\ t.at \in {"forward", "reverse", "prune"} => ToSet(t.found) \subseteq Others(W, t)
    /\ t.at \in {"reverse", "prune"} /\ t.layer = 0 =>
         /\ W[t.id][0] # {} /\ W[t.id][0] \subseteq Others(W, t)
         /\ \A n \in W[t.id][0] : n \in ToSet(t.found) \/ t.id \in W[n][0]
    /\ t.at = "prune" /\ t.layer = 0 => t.id \in W[Head(t.found)][0]

Joined == ~ overlapped /\ ~ pruned =>
            /\ \A th \in Threads : Linked(Ways, insert[th])
            /\ Quiet => Whole(Ways, DOMAIN nodes)

------------------------------------------------------------------------------
LEMMA WaysAre ==
    ASSUME Graph
    PROVE  /\ DOMAIN Ways = DOMAIN nodes
           /\ \A a \in DOMAIN nodes, l \in Nat : /\ Ways[a][l] = ToSet(Neighbors(a, l))
                                                /\ Ways[a][l] \subseteq DOMAIN nodes
<1>1. \A a \in DOMAIN nodes, l \in Nat : ToSet(Neighbors(a, l)) \subseteq DOMAIN nodes
  BY NeighborsAre DEF ToSet
<1> QED
  BY <1>1 DEF Ways

LEMMA WaysSame == ASSUME nodes' = nodes PROVE Ways' = Ways
BY DEF Ways, Neighbors

(* A list that is replaced changes where that list leads. *)
LEMMA WaysSet ==
    ASSUME Graph, NEW n, NEW l, NEW x, ListSet(n, l, x)
    PROVE  /\ DOMAIN Ways' = DOMAIN Ways
           /\ \A a \in DOMAIN Ways, k \in Nat : Ways'[a][k] = IF a = n /\ k = l THEN ToSet(x) ELSE Ways[a][k]
<1>1. DOMAIN Ways' = DOMAIN nodes' /\ DOMAIN Ways = DOMAIN nodes /\ DOMAIN nodes' = DOMAIN nodes
  BY ListSetIs DEF Ways
<1>2. ASSUME NEW a \in DOMAIN nodes, NEW k \in Nat
      PROVE  Ways'[a][k] = IF a = n /\ k = l THEN ToSet(x) ELSE Ways[a][k]
  <2>1. Ways'[a][k] = ToSet(Neighbors(a, k)')
    BY <1>1 DEF Ways, ToSet
  <2>2. Ways[a][k] = ToSet(Neighbors(a, k))
    BY DEF Ways
  <2>3. Neighbors(a, k)' = IF a = n /\ k = l THEN x ELSE Neighbors(a, k)
    BY NeighborsAfter
  <2> QED
    BY <2>1, <2>2, <2>3
<1> QED
  BY <1>1, <1>2

(* While no list leads to the new node, a search among the others stays there. *)
LEMMA OthersAreClosed ==
    ASSUME Graph, NEW t, NEW l \in Nat, NotYet(Ways, t, l)
    PROVE  ClosedAt(Others(Ways, t), l)
<1>1. /\ DOMAIN Ways = DOMAIN nodes
      /\ \A a \in DOMAIN nodes : /\ Ways[a][l] = ToSet(Neighbors(a, l))
                                 /\ Ways[a][l] \subseteq DOMAIN nodes
  BY WaysAre
<1> QED
  BY <1>1 DEF ClosedAt, Others, NotYet

(* More edges leave it connected. *)
LEMMA WholeGrows ==
    ASSUME NEW W, NEW S, NEW V, Whole(W, S), \A a \in S : W[a][0] \cap S \subseteq V[a][0]
    PROVE  Whole(V, S)
BY DEF Whole

(* A node that leads to another and is led to by each it leads to is connected. *)
LEMMA WholeWithOneMore ==
    ASSUME NEW W, NEW S, NEW x, x \notin S, Whole(W, S),
           W[x][0] # {}, W[x][0] \subseteq S, \A n \in W[x][0] : x \in W[n][0]
    PROVE  Whole(W, S \cup {x})
<1> SUFFICES ASSUME NEW C \in SUBSET (S \cup {x}), C # {},
                    \A a \in C : W[a][0] \cap (S \cup {x}) \subseteq C
             PROVE  C = S \cup {x}
  BY DEF Whole
<1>1. PICK n \in S : n \in W[x][0]
  OBVIOUS
<1> DEFINE D == C \ {x}
<1>2. D \in SUBSET S /\ \A a \in D : W[a][0] \cap S \subseteq D
  OBVIOUS
<1>3. CASE x \in C
  <2>1. n \in D
    BY <1>1, <1>3
  <2>2. D = S
    BY <1>2, <2>1 DEF Whole
  <2> QED
    BY <1>3, <2>2
<1>4. CASE x \notin C
  <2>1. D = S
    BY <1>2, <1>4 DEF Whole
  <2>2. n \in C /\ x \in W[n][0]
    BY <1>1, <2>1
  <2> QED
    BY <1>4, <2>2
<1> QED
  BY <1>3, <1>4

(* On a connected layer 0 a beam as wide as the index finds every node. *)
LEMMA SearchIsExact ==
    ASSUME Graph, maxLevel \in Nat, entry \in DOMAIN nodes, Whole(Ways, DOMAIN nodes),
           Cardinality(DOMAIN nodes) <= EfSearch, NEW q \in Int, NEW k \in Nat \ {0}
    PROVE  Search(q, k) = Take(ByDistance(q, Live), k)
<1> DEFINE ep == Descend(q, entry, maxLevel, 0)
           ef == Max({EfSearch, k})
           B == Beam(q, ep, ef, 0)
<1>1. ep \in DOMAIN nodes
  BY AllIsClosed, DescendStays
<1>2. ef \in Nat \ {0} /\ Cardinality(DOMAIN nodes) <= ef
  <2>1. ef \in {EfSearch, k} /\ EfSearch <= ef /\ k <= ef /\ EfSearch \in Nat
    BY HNSWAssumption, MaxOfTwo
  <2>2. Cardinality(DOMAIN nodes) \in Nat
    BY NodesAre
  <2> HIDE DEF ef
  <2> QED
    BY <2>1, <2>2, HNSWAssumption
<1>3. Search(q, k) = Take(ByDistance(q, Live \cap B), k)
  BY HNSWAssumption DEF Search, Graph
<1> HIDE DEF ep, ef
<1>4. ClosedAt(B, 0) /\ ep \in B
  BY <1>1, <1>2, BeamReaches
<1> HIDE DEF B
<1>5. B = DOMAIN nodes
  BY <1>4, WaysAre DEF ClosedAt, Whole
<1>6. Live \cap B = Live
  BY <1>5 DEF Live
<1> QED
  BY <1>3, <1>6

(* What the step of the one thread inside insert has to leave behind. *)
Onward(th) ==
    /\ Linked(Ways', insert'[th])
    /\ insert'[th].at = "idle" => Whole(Ways', DOMAIN Ways')

(* One lemma per action of insert. *)
LEMMA EntryLinked ==
    ASSUME Shape, Listed, NEW th \in Threads, Inside(th), Linked(Ways, insert[th]),
           ReadEntry(th) \/ FirstEntry(th) \/ PromoteEntry(th) \/ SetMaxLevel(th)
    PROVE  Onward(th)
<1> DEFINE t == insert[th]
<1>0. DOMAIN t = PlaceFields /\ DOMAIN Ways = DOMAIN nodes
  BY WaysAre DEF Shape, Listed
<1>1. CASE ReadEntry(th)
  <2> DEFINE next == [t EXCEPT !.at = IF entry = None THEN "first" ELSE "entered", !.ep = entry]
  <2>1. t.at = "added" /\ Alters(th, next) /\ Ways' = Ways
    BY <1>1, Goes, WaysSame DEF ReadEntry, At, shared
  <2>2. next.ep = entry /\ next.id = t.id /\ next.at = IF entry = None THEN "first" ELSE "entered"
    BY <1>0 DEF PlaceFields
  <2>3. insert'[th] = next
    BY <2>1 DEF Alters
  <2> HIDE DEF next
  <2>4. Whole(Ways, Others(Ways, t)) /\ \A l \in Nat : NotYet(Ways, t, l)
    BY <2>1 DEF Linked
  <2>5. entry # None => entry \in Others(Ways, t)
    BY <1>0, <2>1 DEF Inside, Tops, Others
  <2>6. Linked(Ways, next)
    <3>1. CASE entry = None
      BY <2>2, <3>1 DEF Linked, OnLayers
    <3>2. CASE entry # None
      BY <2>2, <2>4, <2>5, <3>2 DEF Linked, OnLayers, Others, NotYet
    <3> QED
      BY <3>1, <3>2
  <2> QED
    BY <2>1, <2>2, <2>3, <2>6 DEF Onward
<1>2. CASE FirstEntry(th)
  <2> DEFINE next == [t EXCEPT !.at = "level"]
  <2>1. t.at = "first" /\ Alters(th, next) /\ Ways' = Ways
    BY <1>2, Goes, WaysSame DEF FirstEntry, SetEntry, At
  <2>2. insert'[th] = next /\ next.at = "level"
    BY <1>0, <2>1 DEF Alters, PlaceFields
  <2> HIDE DEF next
  <2>3. DOMAIN nodes = {t.id}
    BY <2>1 DEF Inside, Shape
  <2>4. Whole(Ways, DOMAIN Ways)
    BY <1>0, <2>3 DEF Whole
  <2>5. Linked(Ways, next)
    BY <2>2, <2>4 DEF Linked, OnLayers
  <2> QED
    BY <2>1, <2>2, <2>5 DEF Onward
<1>3. CASE PromoteEntry(th)
  <2> DEFINE next == [t EXCEPT !.at = "level"]
  <2>1. t.at = "promote" /\ Alters(th, next) /\ Ways' = Ways
    BY <1>3, Goes, WaysSame DEF PromoteEntry, SetEntry, At
  <2>2. insert'[th] = next /\ next.at = "level"
    BY <1>0, <2>1 DEF Alters, PlaceFields
  <2> HIDE DEF next
  <2>3. Whole(Ways, DOMAIN Ways)
    BY <2>1 DEF Linked
  <2>4. Linked(Ways, next)
    BY <2>2, <2>3 DEF Linked, OnLayers
  <2> QED
    BY <2>1, <2>2, <2>4 DEF Onward
<1>4. CASE SetMaxLevel(th)
  <2>1. t.at = "level" /\ Alters(th, Idle) /\ Ways' = Ways
    BY <1>4, Goes, WaysSame DEF SetMaxLevel, At
  <2>2. insert'[th] = Idle /\ Idle.at = "idle"
    BY <2>1 DEF Alters, Idle
  <2>3. Whole(Ways, DOMAIN Ways)
    BY <2>1 DEF Linked
  <2>4. Linked(Ways, Idle)
    BY <2>2 DEF Linked, OnLayers
  <2> QED
    BY <2>1, <2>2, <2>3, <2>4 DEF Onward
<1> QED
  BY <1>1, <1>2, <1>3, <1>4

(* No list leads to a node that has not been linked, so a descent to its level
   ends at another node. *)
LEMMA DescendLinked ==
    ASSUME Shape, Listed, NEW th \in Threads, Linked(Ways, insert[th]), DescendTo(th)
    PROVE  Onward(th)
<1> DEFINE t == insert[th]
           me == nodes[t.id]
           lower == Min({me.level, maxLevel})
           down == Descend(me.vector, t.ep, maxLevel, me.level)
           next == [t EXCEPT !.at = "layer", !.top = maxLevel, !.layer = lower, !.ep = down]
           C == Others(Ways, t)
<1>1. t.at = "entered" /\ Alters(th, next) /\ Ways' = Ways
  BY Goes, WaysSame DEF DescendTo, At, shared
<1>2. /\ Graph /\ DOMAIN t = PlaceFields /\ me.vector \in Int /\ me.level \in Nat /\ maxLevel \in Nat
  BY <1>1, InsideIs DEF Shape
<1>3. t.ep \in C /\ Whole(Ways, C) /\ \A l \in Nat : NotYet(Ways, t, l)
  BY <1>1 DEF Linked
<1>4. lower \in Nat
  BY <1>2, MinOfTwo
<1>5. C \subseteq DOMAIN nodes
  BY <1>2, WaysAre DEF Others
<1>6. \A l \in Nat : ClosedAt(C, l)
  BY <1>2, <1>3, OthersAreClosed
<1>7. down \in C
  BY <1>2, <1>3, <1>5, <1>6, DescendStays
<1> HIDE DEF lower, down
<1>8. next.at = "layer" /\ next.ep = down /\ next.layer = lower /\ next.id = t.id
  BY <1>2 DEF PlaceFields
<1>9. insert'[th] = next
  BY <1>1 DEF Alters
<1> HIDE DEF next
<1>10. Linked(Ways, next)
  BY <1>3, <1>4, <1>7, <1>8 DEF Linked, OnLayers, Others, NotYet
<1> QED
  BY <1>1, <1>8, <1>9, <1>10 DEF Onward

(* On each layer the search for neighbours finds other nodes, at least one. *)
LEMMA FindLinked ==
    ASSUME Shape, Listed, NEW th \in Threads, Linked(Ways, insert[th]), FindNeighbors(th)
    PROVE  Onward(th)
<1> DEFINE t == insert[th]
           found == SearchLayer(nodes[t.id].vector, t.ep, EfConstruction, t.layer)
           taken == Take(found, Capacity(t.layer))
           next == [t EXCEPT !.at = "forward", !.ep = found[1], !.found = taken]
           C == Others(Ways, t)
<1>1. t.at = "layer" /\ Alters(th, next) /\ Ways' = Ways
  BY Goes, WaysSame DEF FindNeighbors, At, shared
<1>2. /\ Graph /\ DOMAIN t = PlaceFields /\ nodes[t.id].vector \in Int /\ t.layer \in Nat
  BY <1>1, InsideIs
<1>3. t.ep \in C /\ Whole(Ways, C) /\ \A l \in 0..t.layer : NotYet(Ways, t, l)
  BY <1>1 DEF Linked, OnLayers
<1>4. t.layer \in 0..t.layer /\ \A l \in 0..(t.layer - 1) : l \in 0..t.layer
  BY <1>2
<1>5. ClosedAt(C, t.layer)
  BY <1>2, <1>3, <1>4, OthersAreClosed
<1>6. found \in Seq(C) /\ found # <<>> /\ found[1] \in C
  BY <1>2, <1>3, <1>5, SearchLayerIs, HNSWAssumption
<1> HIDE DEF found
<1>7. taken \in Seq(C) /\ taken # <<>>
  BY <1>6, TakeIs, CapacityIs
<1> HIDE DEF taken
<1>8. ToSet(taken) \subseteq C
  BY <1>7 DEF ToSet
<1>9. /\ next.at = "forward" /\ next.ep = found[1] /\ next.found = taken
      /\ next.layer = t.layer /\ next.id = t.id
  BY <1>2 DEF PlaceFields
<1>10. insert'[th] = next
  BY <1>1 DEF Alters
<1> HIDE DEF next
<1>11. Linked(Ways, next)
  BY <1>3, <1>4, <1>6, <1>7, <1>8, <1>9 DEF Linked, OnLayers, Others, NotYet
<1> QED
  BY <1>1, <1>9, <1>10, <1>11 DEF Onward

(* The new node's own list: the others are as before, and on layer 0 all its
   neighbours are still to be done. *)
LEMMA SetForwardLinked ==
    ASSUME Shape, Listed, NEW th \in Threads, Linked(Ways, insert[th]), SetForward(th)
    PROVE  Onward(th)
<1> DEFINE t == insert[th]
           next == [t EXCEPT !.at = "reverse"]
           C == Others(Ways, t)
<1>1. /\ t.at = "forward" /\ Alters(th, next)
      /\ nodes' = [nodes EXCEPT ![t.id].neighbors[t.layer] = t.found]
  BY Goes DEF SetForward, At
<1>2. /\ Graph /\ DOMAIN t = PlaceFields /\ t.layer \in 0..nodes[t.id].level /\ t.layer \in Nat
      /\ t.id \in DOMAIN nodes /\ t.found \in Seq(DOMAIN nodes)
  BY <1>1, InsideIs DEF OnLayers
<1>3. ListSet(t.id, t.layer, t.found)
  BY <1>1, <1>2 DEF ListSet
<1>4. PICK V : V = Ways'
  OBVIOUS
<1>5. /\ DOMAIN V = DOMAIN Ways /\ DOMAIN Ways = DOMAIN nodes
      /\ \A a \in DOMAIN Ways, k \in Nat :
           V[a][k] = IF a = t.id /\ k = t.layer THEN ToSet(t.found) ELSE Ways[a][k]
  BY <1>2, <1>3, <1>4, WaysSet, WaysAre
<1>6. /\ Whole(Ways, C) /\ \A l \in 0..(t.layer - 1) : NotYet(Ways, t, l)
      /\ t.ep \in C /\ t.found # <<>> /\ ToSet(t.found) \subseteq C
  BY <1>1 DEF Linked, OnLayers
<1>7. /\ next.at = "reverse" /\ next.layer = t.layer /\ next.id = t.id
      /\ next.ep = t.ep /\ next.found = t.found
  BY <1>2 DEF PlaceFields
<1>8. insert'[th] = next
  BY <1>1 DEF Alters
<1> HIDE DEF next
<1>9. Others(V, next) = C
  BY <1>5, <1>7 DEF Others
<1>10. Whole(V, C)
  BY <1>5, <1>6, WholeGrows DEF Others
<1>11. \A l \in 0..(next.layer - 1) : NotYet(V, next, l)
  BY <1>2, <1>5, <1>6, <1>7 DEF NotYet
<1>12. ToSet(t.found) # {}
  BY <1>2, <1>6, HeadAndTail
<1>13. t.layer = 0 => V[t.id][0] = ToSet(t.found)
  BY <1>2, <1>5
<1>14. Linked(V, next)
  BY <1>6, <1>7, <1>9, <1>10, <1>11, <1>12, <1>13 DEF Linked, OnLayers
<1> QED
  BY <1>4, <1>7, <1>8, <1>14 DEF Onward

(* The new node enters the list of a neighbour, whose turn is over unless its
   list has to be pruned. *)
LEMMA AddReverseLinked ==
    ASSUME Shape, Listed, NEW th \in Threads, Linked(Ways, insert[th]), AddReverse(th)
    PROVE  Onward(th)
<1> DEFINE t == insert[th]
           C == Others(Ways, t)
<1>1. t.at = "reverse" /\ t.found # <<>>
  BY DEF AddReverse, At
<1>2. /\ Graph /\ DOMAIN t = PlaceFields /\ t.layer \in Nat
      /\ t.id \in DOMAIN nodes /\ t.found \in Seq(DOMAIN nodes)
  BY <1>1, InsideIs DEF OnLayers
<1>3. PICK n \in DOMAIN nodes, l \in Nat, rest \in Seq(DOMAIN nodes) :
        n = Head(t.found) /\ l = t.layer /\ rest = Tail(t.found)
  BY <1>1, <1>2, HeadTailIn
<1>4. ToSet(t.found) = {n} \cup ToSet(rest)
  BY <1>1, <1>2, <1>3, HeadAndTail
<1> DEFINE list == Neighbors(n, l)
           onLayer == l <= nodes[n].level
           full == onLayer /\ Len(list) + 1 > Capacity(l)
           next == [t EXCEPT !.at = IF full THEN "prune" ELSE "reverse",
                             !.found = IF full THEN t.found ELSE rest]
<1>5. /\ Alters(th, next)
      /\ nodes' = IF onLayer THEN [nodes EXCEPT ![n].neighbors[l] = Append(@, t.id)] ELSE nodes
  <2>1. Go(th, next)
    BY <1>2, <1>3 DEF AddReverse
  <2>2. nodes' = IF onLayer THEN [nodes EXCEPT ![n].neighbors[l] = Append(@, t.id)] ELSE nodes
    BY <1>3 DEF AddReverse
  <2> HIDE DEF next
  <2> QED
    BY <2>1, <2>2, Goes
<1>6. /\ next.at = (IF full THEN "prune" ELSE "reverse")
      /\ next.found = (IF full THEN t.found ELSE rest)
      /\ next.layer = l /\ next.id = t.id /\ next.ep = t.ep
  BY <1>2, <1>3 DEF PlaceFields
<1>7. insert'[th] = next
  BY <1>5 DEF Alters
<1> HIDE DEF next, full
<1>8. /\ Whole(Ways, C) /\ \A k \in 0..(l - 1) : NotYet(Ways, t, k)
      /\ t.ep \in C /\ ToSet(t.found) \subseteq C
      /\ l = 0 => /\ Ways[t.id][0] # {} /\ Ways[t.id][0] \subseteq C
                  /\ \A m \in Ways[t.id][0] : m \in ToSet(t.found) \/ t.id \in Ways[m][0]
  BY <1>1, <1>3 DEF Linked, OnLayers
<1>9. PICK V : V = Ways'
  OBVIOUS
<1>10. /\ DOMAIN Ways = DOMAIN nodes /\ DOMAIN V = DOMAIN nodes
       /\ \A a \in DOMAIN nodes, k \in Nat : a # n \/ k # l => V[a][k] = Ways[a][k]
       /\ onLayer => V[n][l] = Ways[n][l] \cup {t.id}
       /\ ~ onLayer => V[n][l] = Ways[n][l]
  <2>1. /\ DOMAIN Ways = DOMAIN nodes
        /\ Ways[n][l] = ToSet(list)
    BY <1>2, WaysAre
  <2>2. CASE ~ onLayer
    <3>1. V = Ways
      BY <1>5, <1>9, <2>2, WaysSame
    <3> QED
      BY <2>1, <2>2, <3>1
  <2>3. CASE onLayer
    <3>1. list = nodes[n].neighbors[l] /\ list \in Seq(DOMAIN nodes)
      BY <1>2, <2>3, NeighborsAre DEF Neighbors
    <3>2. nodes[n].level \in Nat /\ l \in 0..nodes[n].level
      BY <1>2, <2>3, NodesAre
    <3> HIDE DEF list
    <3>3. PICK x \in Seq(DOMAIN nodes) : x = Append(list, t.id)
      BY <1>2, <3>1, AppendProperties
    <3>4. ToSet(x) = ToSet(list) \cup {t.id}
      BY <1>2, <3>1, <3>3, ToSetAppend
    <3>5. nodes' = [nodes EXCEPT ![n].neighbors[l] = x]
      BY <1>5, <2>3, <3>1, <3>3
    <3>6. ListSet(n, l, x)
      BY <3>2, <3>3, <3>5 DEF ListSet
    <3>7. /\ DOMAIN V = DOMAIN Ways
          /\ \A a \in DOMAIN Ways, k \in Nat : V[a][k] = IF a = n /\ k = l THEN ToSet(x) ELSE Ways[a][k]
      BY <1>2, <1>9, <3>6, WaysSet
    <3> QED
      BY <2>1, <2>3, <3>4, <3>7
  <2> QED
    BY <2>2, <2>3
<1>11. onLayer \/ l # 0
  BY <1>2, NodesAre
<1>12. full => onLayer
  BY DEF full
<1> HIDE DEF onLayer
<1>13. Others(V, next) = C
  BY <1>6, <1>10 DEF Others
<1>14. Whole(V, C)
  <2>1. \A a \in C : Ways[a][0] \subseteq V[a][0]
    BY <1>10 DEF Others
  <2> QED
    BY <1>8, <2>1, WholeGrows
<1>15. \A k \in 0..(next.layer - 1) : NotYet(V, next, k)
  BY <1>6, <1>8, <1>10 DEF NotYet
<1>16. ToSet(next.found) \subseteq C
  BY <1>4, <1>6, <1>8
<1>17. ASSUME l = 0
       PROVE  /\ V[t.id][0] = Ways[t.id][0] /\ t.id \in V[n][0]
              /\ \A m \in V[t.id][0] : m \in ToSet(next.found) \/ t.id \in V[m][0]
  <2>1. n \in C /\ n # t.id
    BY <1>4, <1>8 DEF Others
  <2>2. V[t.id][0] = Ways[t.id][0] /\ t.id \in V[n][0]
    BY <1>2, <1>10, <1>11, <1>17, <2>1
  <2>3. ASSUME NEW m \in Ways[t.id][0] PROVE m \in ToSet(next.found) \/ t.id \in V[m][0]
    <3>1. m \in DOMAIN nodes /\ (m = n \/ m \in ToSet(rest) \/ t.id \in Ways[m][0])
      BY <1>4, <1>8, <1>10, <1>17 DEF Others
    <3>2. CASE m = n
      BY <2>2, <3>2
    <3>3. CASE m # n
      BY <1>4, <1>6, <1>10, <3>1, <3>3
    <3> QED
      BY <3>2, <3>3
  <2> QED
    BY <2>2, <2>3
<1>18. next.at = "prune" => Head(next.found) = n
  BY <1>3, <1>6
<1>19. Linked(V, next)
  BY <1>6, <1>8, <1>13, <1>14, <1>15, <1>16, <1>17, <1>18 DEF Linked, OnLayers
<1>20. next.at # "idle"
  BY <1>6
<1> QED
  BY <1>7, <1>9, <1>19, <1>20 DEF Onward

(* A list that is short enough by the time it is to be pruned keeps the edge
   that made it too long. *)
LEMMA PruneLinked ==
    ASSUME Shape, Listed, NEW th \in Threads, Linked(Ways, insert[th]), Prune(th), nodes' = nodes
    PROVE  Onward(th)
<1> DEFINE t == insert[th]
           C == Others(Ways, t)
<1>1. /\ t.at = "prune" /\ Ways' = Ways /\ t.found # <<>>
  BY WaysSame DEF Prune, At, Listed, Placed
<1>2. /\ DOMAIN t = PlaceFields /\ t.layer \in Nat /\ t.found \in Seq(DOMAIN nodes)
  BY <1>1, InsideIs
<1>3. PICK n \in DOMAIN nodes, rest \in Seq(DOMAIN nodes) : n = Head(t.found) /\ rest = Tail(t.found)
  BY <1>1, <1>2, HeadTailIn
<1>4. ToSet(t.found) = {n} \cup ToSet(rest)
  BY <1>1, <1>2, <1>3, HeadAndTail
<1> DEFINE next == [t EXCEPT !.at = "reverse", !.found = rest]
<1>5. Alters(th, next)
  <2>1. Go(th, next)
    BY <1>2, <1>3 DEF Prune
  <2> HIDE DEF next
  <2> QED
    BY <2>1, Goes
<1>6. /\ next.at = "reverse" /\ next.found = rest /\ next.layer = t.layer
      /\ next.id = t.id /\ next.ep = t.ep
  BY <1>2 DEF PlaceFields
<1>7. insert'[th] = next
  BY <1>5 DEF Alters
<1> HIDE DEF next
<1>8. /\ Whole(Ways, C) /\ \A k \in 0..(t.layer - 1) : NotYet(Ways, t, k)
      /\ t.ep \in C /\ ToSet(t.found) \subseteq C
      /\ t.layer = 0 => /\ Ways[t.id][0] # {} /\ Ways[t.id][0] \subseteq C
                        /\ \A m \in Ways[t.id][0] : m \in ToSet(t.found) \/ t.id \in Ways[m][0]
                        /\ t.id \in Ways[n][0]
  BY <1>1, <1>3 DEF Linked, OnLayers
<1>9. Others(Ways, next) = C
  BY <1>6 DEF Others
<1>10. \A k \in 0..(next.layer - 1) : NotYet(Ways, next, k)
  BY <1>6, <1>8 DEF NotYet
<1>11. ToSet(next.found) \subseteq C
  BY <1>4, <1>6, <1>8
<1>12. t.layer = 0 => \A m \in Ways[t.id][0] : m \in ToSet(next.found) \/ t.id \in Ways[m][0]
  BY <1>4, <1>6, <1>8
<1>13. Linked(Ways, next)
  BY <1>6, <1>8, <1>9, <1>10, <1>11, <1>12 DEF Linked, OnLayers
<1> QED
  BY <1>1, <1>6, <1>7, <1>13 DEF Onward

(* Behind layer 0 the new node is part of the graph. *)
LEMMA NextLayerLinked ==
    ASSUME Shape, Listed, NEW th \in Threads, Linked(Ways, insert[th]), NextLayer(th)
    PROVE  Onward(th)
<1> DEFINE t == insert[th]
           C == Others(Ways, t)
           next == CASE t.layer > 0 -> [t EXCEPT !.at = "layer", !.layer = @ - 1]
                     [] t.layer = 0 /\ nodes[t.id].level > t.top -> [t EXCEPT !.at = "promote"]
                     [] OTHER -> Idle
<1>1. t.at = "reverse" /\ t.found = <<>> /\ Alters(th, next) /\ Ways' = Ways
  BY Goes, WaysSame DEF NextLayer, At, shared
<1>2. /\ Graph /\ DOMAIN t = PlaceFields /\ t.layer \in Nat /\ t.id \in DOMAIN nodes
  BY <1>1, InsideIs
<1>3. insert'[th] = next
  BY <1>1 DEF Alters
<1>4. /\ Whole(Ways, C) /\ \A k \in 0..(t.layer - 1) : NotYet(Ways, t, k)
      /\ t.ep \in C
      /\ t.layer = 0 => /\ Ways[t.id][0] # {} /\ Ways[t.id][0] \subseteq C
                        /\ \A m \in Ways[t.id][0] : m \in ToSet(t.found) \/ t.id \in Ways[m][0]
  BY <1>1 DEF Linked, OnLayers
<1>5. CASE t.layer > 0
  <2>1. next = [t EXCEPT !.at = "layer", !.layer = @ - 1]
    BY <1>5
  <2>2. /\ next.at = "layer" /\ next.layer = t.layer - 1 /\ next.id = t.id
        /\ next.ep = t.ep /\ next.found = t.found
    BY <1>2, <2>1 DEF PlaceFields
  <2> HIDE DEF next
  <2>3. Others(Ways, next) = C
    BY <2>2 DEF Others
  <2>4. \A k \in 0..next.layer : NotYet(Ways, next, k)
    BY <1>4, <2>2 DEF NotYet
  <2>5. Linked(Ways, next)
    BY <1>4, <2>2, <2>3, <2>4 DEF Linked, OnLayers
  <2> QED
    BY <1>1, <1>3, <2>2, <2>5 DEF Onward
<1>6. CASE t.layer = 0
  <2>1. ToSet(t.found) = {}
    BY <1>1 DEF ToSet
  <2>2. Whole(Ways, C \cup {t.id})
    <3>1. t.id \notin C /\ \A m \in Ways[t.id][0] : t.id \in Ways[m][0]
      BY <1>4, <1>6, <2>1 DEF Others
    <3> QED
      BY <1>4, <1>6, <3>1, WholeWithOneMore
  <2>3. C \cup {t.id} = DOMAIN Ways
    BY <1>2, WaysAre DEF Others
  <2>4. next.at \in {"promote", "idle"}
    <3>1. next \in {[t EXCEPT !.at = "promote"], Idle}
      BY <1>6
    <3>2. [t EXCEPT !.at = "promote"].at = "promote" /\ Idle.at = "idle"
      BY <1>2 DEF PlaceFields, Idle
    <3> QED
      BY <3>1, <3>2
  <2> HIDE DEF next
  <2>5. Linked(Ways, next)
    BY <2>2, <2>3, <2>4 DEF Linked, OnLayers
  <2> QED
    BY <1>1, <1>3, <2>2, <2>3, <2>5 DEF Onward
<1> QED
  BY <1>2, <1>5, <1>6

------------------------------------------------------------------------------
(* While one thread is inside insert, the others have nothing to keep. *)
LEMMA StepJoined ==
    ASSUME Shape, Listed, Serial, Joined, NEW th \in Threads, Step(th)
    PROVE  Joined'
<1> SUFFICES ASSUME ~ overlapped', ~ pruned'
             PROVE  /\ \A u \in Threads : Linked(Ways', insert'[u])
                    /\ Quiet' => Whole(Ways', DOMAIN nodes')
  BY DEF Joined
<1>1. /\ ~ overlapped /\ ~ pruned /\ insert[th].at # "idle" /\ DOMAIN insert' = Threads
      /\ \A u \in Threads \ {th} : insert'[u] = insert[u]
      /\ Prune(th) => nodes' = nodes
  <2> USE DEF Go, At, history, Shape
  <2>1. CASE ReadEntry(th) \/ DescendTo(th)
    BY <2>1 DEF ReadEntry, DescendTo, Prune
  <2>2. CASE FirstEntry(th) \/ PromoteEntry(th)
    BY <2>2 DEF FirstEntry, PromoteEntry, SetEntry, Prune
  <2>3. CASE SetMaxLevel(th)
    BY <2>3 DEF SetMaxLevel, Prune
  <2>4. CASE FindNeighbors(th)
    BY <2>4 DEF FindNeighbors, Prune
  <2>5. CASE SetForward(th)
    BY <2>5 DEF SetForward, Prune
  <2>6. CASE AddReverse(th)
    BY <2>6 DEF AddReverse, Prune
  <2>7. CASE Prune(th)
    BY <2>7 DEF Prune
  <2>8. CASE NextLayer(th)
    BY <2>8 DEF NextLayer, Prune
  <2> QED
    BY <2>1, <2>2, <2>3, <2>4, <2>5, <2>6, <2>7, <2>8 DEF Step
<1>2. Inside(th) /\ Alone /\ \A u \in Threads : Linked(Ways, insert[u])
  BY <1>1 DEF Serial, Joined
<1>3. Onward(th)
  BY <1>1, <1>2, EntryLinked, DescendLinked, FindLinked, SetForwardLinked, AddReverseLinked, PruneLinked,
     NextLayerLinked DEF Step
<1>4. \A u \in Threads \ {th} : insert'[u].at = "idle"
  BY <1>1, <1>2 DEF Alone, At
<1>5. \A u \in Threads : Linked(Ways', insert'[u])
  <2>1. ASSUME NEW u \in Threads \ {th} PROVE Linked(Ways', insert'[u])
    BY <1>4 DEF Linked, OnLayers
  <2> QED
    BY <1>3, <2>1 DEF Onward
<1>6. Quiet' => Whole(Ways', DOMAIN nodes')
  <2>1. DOMAIN Ways' = DOMAIN nodes'
    BY DEF Ways
  <2>2. Quiet' => insert'[th].at = "idle"
    BY DEF Quiet, At
  <2> QED
    BY <1>3, <2>1, <2>2 DEF Onward
<1> QED
  BY <1>5, <1>6

(* A new node that no list leads to. *)
LEMMA AddJoined ==
    ASSUME Shape, Listed, Joined, NEW th \in Threads, NEW id \in Ids, NEW v \in Vectors[id], NEW level \in LevelsOf[id],
           Add(th, id, v, level), id \notin DOMAIN nodes
    PROVE  Joined'
<1> SUFFICES ASSUME ~ overlapped', ~ pruned'
             PROVE  /\ \A u \in Threads : Linked(Ways', insert'[u])
                    /\ Quiet' => Whole(Ways', DOMAIN nodes')
  BY DEF Joined
<1> DEFINE next == [Idle EXCEPT !.at = "added", !.id = id]
<1>1. /\ nodes' = [n \in DOMAIN nodes \cup {id} |-> IF n = id THEN Node(v, level) ELSE nodes[n]]
      /\ Go(th, next)
      /\ ~ overlapped /\ Quiet /\ ~ pruned
  BY DEF Add, Quiet
<1>2. Alters(th, next) /\ Graph /\ level \in Nat
  BY <1>1, Goes, HNSWAssumption DEF Listed
<1>3. next.at = "added" /\ next.id = id /\ insert'[th] = next
  BY <1>2 DEF Idle, Alters
<1> HIDE DEF next
<1>4. PICK V : V = Ways'
  OBVIOUS
<1>5. DOMAIN V = DOMAIN nodes \cup {id} /\ DOMAIN Ways = DOMAIN nodes
  BY <1>1, <1>4 DEF Ways
<1>6. \A a \in DOMAIN nodes, l \in Nat : V[a][l] = Ways[a][l] /\ Ways[a][l] \subseteq DOMAIN nodes
  <2> SUFFICES ASSUME NEW a \in DOMAIN nodes, NEW l \in Nat
               PROVE  V[a][l] = Ways[a][l] /\ Ways[a][l] \subseteq DOMAIN nodes
    OBVIOUS
  <2>1. nodes'[a] = nodes[a] /\ a \in DOMAIN nodes'
    BY <1>1
  <2>2. V[a][l] = Ways[a][l]
    BY <1>4, <2>1 DEF Ways, Neighbors
  <2> QED
    BY <1>2, <2>2, WaysAre
<1>7. \A l \in Nat : V[id][l] = {}
  <2> SUFFICES ASSUME NEW l \in Nat PROVE V[id][l] = {}
    OBVIOUS
  <2>1. nodes'[id] = Node(v, level) /\ id \in DOMAIN nodes'
    BY <1>1
  <2>2. V[id][l] = ToSet(IF l <= Node(v, level).level THEN Node(v, level).neighbors[l] ELSE <<>>)
    BY <1>4, <2>1 DEF Ways, Neighbors
  <2>3. /\ Node(v, level).level = level
        /\ Node(v, level).neighbors = [k \in 0..level |-> <<>>]
    BY DEF Node
  <2>4. (IF l <= Node(v, level).level THEN Node(v, level).neighbors[l] ELSE <<>>) = <<>>
    BY <1>2, <2>3
  <2> QED
    BY <2>2, <2>4 DEF ToSet
<1>8. Whole(Ways, DOMAIN nodes)
  BY <1>1 DEF Joined
<1>9. Others(V, next) = DOMAIN nodes
  BY <1>3, <1>5 DEF Others
<1>10. Whole(V, DOMAIN nodes)
  BY <1>6, <1>8 DEF Whole
<1>11. \A l \in Nat : NotYet(V, next, l)
  BY <1>3, <1>5, <1>6, <1>7 DEF NotYet
<1>12. Linked(V, next)
  BY <1>3, <1>9, <1>10, <1>11 DEF Linked, OnLayers
<1>13. ASSUME NEW u \in Threads \ {th} PROVE Linked(V, insert'[u])
  <2>1. insert'[u].at = "idle"
    BY <1>1, <1>2 DEF Quiet, At, Alters
  <2> QED
    BY <2>1 DEF Linked, OnLayers
<1>14. ~ Quiet'
  BY <1>3 DEF Quiet, At
<1> QED
  BY <1>3, <1>4, <1>12, <1>13, <1>14

(* A tombstone changes no list. *)
LEMMA RemovalJoined == ASSUME Shape, Listed, Joined, NEW id \in Ids, RemoveVector(id) PROVE Joined'
<1>1. /\ id \in DOMAIN nodes /\ nodes' = [nodes EXCEPT ![id].deleted = TRUE]
      /\ UNCHANGED <<insert, overlapped, pruned>>
  BY DEF RemoveVector, Live
<1>2. /\ DOMAIN nodes' = DOMAIN nodes
      /\ \A n \in DOMAIN nodes : nodes'[n].level = nodes[n].level /\ nodes'[n].neighbors = nodes[n].neighbors
  BY <1>1 DEF Listed, Graph, NodeFields
<1>3. Ways' = Ways
  BY <1>2 DEF Ways, Neighbors
<1> QED
  BY <1>1, <1>2, <1>3 DEF Joined, Quiet, At

LEMMA JoinedStep == ASSUME Shape, Listed, Serial, Joined, [Next]_vars PROVE Joined'
<1>1. ASSUME NEW th \in Threads, NEW id \in Ids, NEW v \in Vectors[id], NEW level \in RandomLevel(id),
             Add(th, id, v, level)
      PROVE  Joined'
  <2>1. CASE id \in DOMAIN nodes
    <3>1. UNCHANGED vars
      BY <1>1, <2>1 DEF Add
    <3> QED
      BY <3>1, WaysSame DEF vars, Joined, Quiet, At
  <2>2. CASE id \notin DOMAIN nodes
    BY <1>1, <2>2, AddJoined DEF RandomLevel
  <2> QED
    BY <2>1, <2>2
<1>2. ASSUME UNCHANGED vars PROVE Joined'
  BY <1>2, WaysSame DEF vars, Joined, Quiet, At
<1> QED
  BY <1>1, <1>2, StepJoined, RemovalJoined DEF Next

LEMMA JoinedInit == Init => Joined
<1> SUFFICES ASSUME Init PROVE Joined
  OBVIOUS
<1>1. DOMAIN nodes = {} /\ \A th \in Threads : insert[th] = Idle
  BY DEF Init
<1>2. Idle.at = "idle"
  BY DEF Idle
<1>3. \A th \in Threads : Linked(Ways, insert[th])
  <2> SUFFICES ASSUME NEW th \in Threads PROVE Linked(Ways, insert[th])
    OBVIOUS
  <2>1. insert[th].at = "idle"
    BY <1>1, <1>2
  <2> QED
    BY <2>1 DEF Linked, OnLayers
<1>4. Whole(Ways, DOMAIN nodes)
  BY <1>1 DEF Whole
<1> QED
  BY <1>3, <1>4 DEF Joined

(* The invariant of the linking, with those it rests on. *)
LEMMA JoinedInvariant == Spec => [](Shape /\ Listed /\ Serial /\ Joined)
<1>1. Init => Shape /\ Listed /\ Serial /\ Joined
  BY ListedInit, SerialInit, JoinedInit
<1>2. Shape /\ Listed /\ Serial /\ Joined /\ [Next]_vars => (Shape /\ Listed /\ Serial /\ Joined)'
  BY ShapeStep, ListedStep, SerialStep, JoinedStep
<1> QED
  BY <1>1, <1>2, PTL DEF Spec

(* Until two inserts overlap or prune_neighbors drops an edge, the links that
   insert writes keep layer 0 connected, so a search whose beam is as wide as
   the index is not approximate at all: it returns the k nearest live nodes,
   tombstones in between or not. *)
THEOREM SmallIsExact == Spec => []ExactWhileSmall
<1>1. Shape /\ Listed /\ Serial /\ Joined => ExactWhileSmall
  <2> SUFFICES ASSUME Shape, Listed, Serial, Joined, Quiet, ~ overlapped, ~ pruned,
                      Cardinality(DOMAIN nodes) <= EfSearch,
                      NEW q \in Queries, NEW k \in {1, Cardinality(Ids)}
               PROVE  Search(q, k) = Take(ByDistance(q, Live), k)
    BY DEF ExactWhileSmall
  <2>1. q \in Int /\ k \in Nat /\ Graph /\ maxLevel \in Nat
    BY HNSWAssumption, FS_CardinalityType DEF Listed, Shape
  <2>2. Live \in SUBSET DOMAIN nodes
    BY DEF Live
  <2>3. ByDistance(q, Live) \in Seq(Live)
    BY <2>1, <2>2, ByDistanceSorted
  <2>4. CASE k = 0 \/ DOMAIN nodes = {}
    <3>1. Search(q, k) = <<>>
      BY <2>4 DEF Search, Serial, Between
    <3> DEFINE s == ByDistance(q, Live)
               r == Take(s, k)
    <3>2. /\ r \in Seq(Live) /\ Len(r) <= k /\ Len(r) <= Len(s)
      BY <2>1, <2>3, TakeIs
    <3>3. DOMAIN nodes = {} => Len(s) = 0
      BY <2>2, <2>3
    <3> HIDE DEF r, s
    <3>4. Len(r) = 0
      BY <2>4, <3>2, <3>3
    <3>5. r = <<>>
      BY <3>2, <3>4
    <3> QED
      BY <3>1, <3>5 DEF r, s
  <2>5. CASE k # 0 /\ DOMAIN nodes # {}
    <3>1. entry \in DOMAIN nodes
      BY <2>5 DEF Serial, Between, Tops
    <3>2. Whole(Ways, DOMAIN nodes)
      BY DEF Joined
    <3> QED
      BY <2>1, <2>5, <3>1, <3>2, SearchIsExact
  <2> QED
    BY <2>4, <2>5
<1> QED
  BY <1>1, JoinedInvariant, PTL
==============================================================================
