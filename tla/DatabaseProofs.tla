---------------------------- MODULE DatabaseProofs ----------------------------
(***************************************************************************)
(* Proofs about Database and the assistant beside it, for any sessions,    *)
(* statements, prompts and first logs: the catalog agrees with itself, the *)
(* log alone gives the tables, the rows and the indexes the process has,   *)
(* a row keeps its key, the indexes find it, and what the assistant writes *)
(* is understood.  They need that an append which fails has written        *)
(* nothing.                                                                *)
(***************************************************************************)
EXTENDS Assistant, FiniteSetTheorems, SequenceTheorems, TLAPS

------------------------------------------------------------------------------
(* Sequences and numbers: a non-empty set of naturals has a least element. *)
LEMMA NatMin ==
    ASSUME NEW S \in SUBSET Nat, S # {}
    PROVE  \E m \in S : \A n \in S : m <= n
<1> DEFINE R == OpToRel(<, Nat)
<1>1. IsWellFoundedOn(R, Nat)
  BY NatLessThanWellFounded
<1>2. \A x, y \in Nat : <<y, x>> \in R <=> y < x
  BY Zenon DEF OpToRel
<1> HIDE DEF R
<1>3. PICK x \in S : \A y \in S : ~ (<<y, x>> \in R)
  BY <1>1, WFMin
<1>4. \A y \in S : ~ (y < x)
  BY <1>2, <1>3, Zenon
<1> QED
  BY <1>4

(* A finite set of naturals has a bound, so it has a greatest element. *)
LEMMA FiniteBound ==
    ASSUME NEW S \in SUBSET Nat, IsFiniteSet(S)
    PROVE  \E b \in Nat : \A n \in S : n <= b
<1> DEFINE Bounded(T) == \E b \in Nat : \A n \in T : n <= b
           Bad == {k \in Nat : \E T \in SUBSET S : Cardinality(T) = k /\ ~Bounded(T)}
<1>1. \A T \in SUBSET S : IsFiniteSet(T) /\ Cardinality(T) \in Nat
  BY FS_Subset, FS_CardinalityType
<1>2. Bad # {} => FALSE
  <2> SUFFICES ASSUME Bad # {} PROVE FALSE
    OBVIOUS
  <2>1. PICK k \in Bad : \A j \in Bad : k <= j
    BY NatMin
  <2>2. PICK T \in SUBSET S : Cardinality(T) = k /\ ~Bounded(T)
    BY <2>1
  <2>3. PICK x \in T : x \in Nat
    <3>1. T # {}
      BY <2>2
    <3> QED
      BY <3>1
  <2>4. T \ {x} \in SUBSET S /\ Cardinality(T \ {x}) = k - 1 /\ k - 1 \in Nat
    <3>1. T \ {x} \in SUBSET S
      OBVIOUS
    <3>2. IsFiniteSet(T) /\ Cardinality(T \ {x}) \in Nat /\ k \in Nat
      BY <1>1, <3>1
    <3>3. Cardinality(T \ {x}) = Cardinality(T) - 1
      BY <3>2, <2>3, FS_RemoveElement
    <3> QED
      BY <3>1, <3>2, <3>3, <2>2
  <2>5. PICK b \in Nat : \A n \in T \ {x} : n <= b
    BY <2>4, <2>1
  <2>6. \A n \in T : n <= b + x
    BY <2>5
  <2> QED
    BY <2>2, <2>6
<1>3. Bounded(S)
  BY <1>1, <1>2
<1> QED
  BY <1>3

(* FiniteSetsExt's Max and Min are elements of the set. *)
LEMMA MaxIs ==
    ASSUME NEW S \in SUBSET Nat, IsFiniteSet(S), S # {}
    PROVE  Max(S) \in S /\ \A n \in S : n <= Max(S)
<1>1. PICK b \in Nat : \A n \in S : n <= b
  BY FiniteBound
<1> DEFINE D == {b - n : n \in S}
<1>2. D \in SUBSET Nat /\ D # {}
  <2>1. \A n \in S : b - n \in Nat
    BY <1>1
  <2> QED
    BY <2>1
<1>3. PICK d \in D : \A e \in D : d <= e
  BY <1>2, NatMin
<1>4. PICK m \in S : d = b - m
  BY <1>3
<1>5. \A n \in S : b - m <= b - n
  BY <1>3, <1>4
<1>6. \A n \in S : m >= n
  BY <1>5
<1>7. \E x \in S : \A y \in S : x >= y
  BY <1>6
<1>8. Max(S) \in S /\ \A y \in S : Max(S) >= y
  BY <1>7 DEF Max
<1> QED
  BY <1>8

LEMMA MinIs ==
    ASSUME NEW S \in SUBSET Nat, S # {}
    PROVE  Min(S) \in S
<1>1. \E x \in S : \A y \in S : x <= y
  BY NatMin
<1> QED
  BY <1>1 DEF Min

(* What IsSeq says of a sequence, and how to show it of one. *)
LEMMA SeqIs == ASSUME NEW s, IsSeq(s) PROVE Len(s) \in Nat /\ DOMAIN s = 1..Len(s)
BY DEF IsSeq

LEMMA SeqMade ==
    ASSUME NEW n \in Nat, NEW s, s = [i \in 1..n |-> s[i]]
    PROVE  IsSeq(s) /\ Len(s) = n
<1>1. \A i \in 1..n : s[i] \in ToSet(s)
  BY DEF ToSet
<1>2. s \in [1..n -> ToSet(s)]
  BY <1>1
<1> QED
  BY <1>2 DEF IsSeq

(* Append and Front of a sequence, and the insertion into a map. *)
LEMMA AppendIs ==
    ASSUME NEW s, IsSeq(s), NEW e
    PROVE  /\ IsSeq(Append(s, e)) /\ Len(Append(s, e)) = Len(s) + 1
           /\ \A i \in 1..Len(s) : Append(s, e)[i] = s[i]
           /\ Append(s, e)[Len(s) + 1] = e
           /\ ToSet(Append(s, e)) = ToSet(s) \cup {e}
           /\ Append(s, e) # <<>>
<1> DEFINE S == ToSet(s) \cup {e}
<1>1. s \in Seq(S) /\ e \in S
  BY DEF IsSeq
<1> HIDE DEF S
<1>2. /\ Len(s) \in Nat /\ DOMAIN s = 1..Len(s) /\ DOMAIN Append(s, e) = 1..(Len(s) + 1)
      /\ Len(Append(s, e)) = Len(s) + 1
      /\ Append(s, e)[Len(s) + 1] = e /\ \A i \in 1..Len(s) : Append(s, e)[i] = s[i]
  BY <1>1
<1>3. \A i \in 1..(Len(s) + 1) : i = Len(s) + 1 \/ i \in 1..Len(s)
  BY <1>2
<1>4. Len(s) + 1 \in 1..(Len(s) + 1) /\ \A i \in 1..Len(s) : i \in 1..(Len(s) + 1)
  BY <1>2
<1>5. ToSet(Append(s, e)) = ToSet(s) \cup {e}
  BY <1>2, <1>3, <1>4 DEF ToSet
<1>6. Append(s, e) \in Seq(S)
  BY <1>1
<1>7. Append(s, e) \in Seq(ToSet(Append(s, e)))
  BY <1>6, <1>5 DEF S
<1> QED
  BY <1>2, <1>5, <1>7 DEF IsSeq

LEMMA FrontIs ==
    ASSUME NEW s, IsSeq(s), s # <<>>
    PROVE  IsSeq(Front(s)) /\ ToSet(Front(s)) \subseteq ToSet(s) /\ Last(s) \in ToSet(s)
<1>1. Len(s) \in Nat /\ DOMAIN s = 1..Len(s) /\ Len(s) # 0
  BY DEF IsSeq
<1>2. Front(s) = [i \in 1..(Len(s) - 1) |-> s[i]]
  BY <1>1 DEF Front, IsSeq
<1>3. IsSeq(Front(s)) /\ Len(Front(s)) = Len(s) - 1
  BY <1>1, <1>2, SeqMade
<1> QED
  BY <1>1, <1>2, <1>3 DEF ToSet, Last

(* The elements of a sequence are its head and those of its tail. *)
LEMMA TailIs ==
    ASSUME NEW s, IsSeq(s), s # <<>>
    PROVE  IsSeq(Tail(s)) /\ ToSet(s) = {Head(s)} \cup ToSet(Tail(s))
<1> DEFINE n == Len(s)
           t == Tail(s)
           S == ToSet(s)
<1>1. s \in Seq(S)
  BY DEF IsSeq
<1> HIDE DEF S
<1>2. n \in Nat /\ DOMAIN s = 1..n /\ n # 0 /\ Head(s) = s[1]
  BY <1>1
<1>3. t \in Seq(S) /\ Len(t) = n - 1 /\ \A i \in 1..Len(t) : t[i] = s[i + 1]
  BY <1>1, HeadTailProperties
<1> HIDE DEF n, t
<1>4. n - 1 \in Nat /\ DOMAIN t = 1..(n - 1)
  BY <1>2, <1>3
<1>5. t = [i \in 1..(n - 1) |-> t[i]]
  BY <1>3, <1>4
<1>6. IsSeq(t)
  BY <1>4, <1>5, SeqMade
<1>7. \A i \in 1..n : i = 1 \/ (i - 1 \in 1..(n - 1) /\ t[i - 1] = s[i])
  BY <1>2, <1>3
<1>8. \A i \in 1..(n - 1) : i + 1 \in 1..n /\ t[i] = s[i + 1]
  BY <1>2, <1>3
<1>9. 1 \in 1..n
  BY <1>2
<1>10. ToSet(s) = {Head(s)} \cup ToSet(t)
  <2>1. ToSet(s) = {s[i] : i \in 1..n} /\ ToSet(t) = {t[i] : i \in 1..(n - 1)}
    BY <1>2, <1>4, Zenon DEF ToSet
  <2>2. {s[i] : i \in 1..n} \subseteq {s[1]} \cup {t[i] : i \in 1..(n - 1)}
    BY <1>7
  <2>3. {s[1]} \cup {t[i] : i \in 1..(n - 1)} \subseteq {s[i] : i \in 1..n}
    BY <1>8, <1>9
  <2> QED
    BY <1>2, <2>1, <2>2, <2>3
<1> QED
  BY <1>6, <1>10 DEF t

LEMMA PutIs ==
    ASSUME NEW f, NEW a, NEW b
    PROVE  /\ DOMAIN Put(f, a, b) = DOMAIN f \cup {a}
           /\ Put(f, a, b)[a] = b
           /\ \A x \in DOMAIN f \ {a} : Put(f, a, b)[x] = f[x]
BY DEF Put

------------------------------------------------------------------------------
(* Recursive functions. *)
(* A replay is what its records leave, one after the other: record i starts
   from what record i - 1 left. *)
Redone(l, g, n) == g[0] = Nothing /\ \A i \in 1..n : g[i] = Redo(g[i - 1], l[i])

(* Any two runs over the same records are the same, there is one over every
   log, and Replay, a recursive function, is its end. *)
LEMMA RedoneAgree ==
    ASSUME NEW l, NEW n \in Nat, NEW g, NEW h, Redone(l, g, n), Redone(l, h, n)
    PROVE  g[n] = h[n]
<1> DEFINE Bad == {k \in Nat : k <= n /\ g[k] # h[k]}
<1> SUFFICES ASSUME Bad # {} PROVE FALSE
  OBVIOUS
<1>1. PICK k \in Bad : \A j \in Bad : k <= j
  BY NatMin
<1>2. k # 0
  BY <1>1 DEF Redone
<1>3. k - 1 \in Nat /\ k - 1 <= n /\ k - 1 \notin Bad /\ k \in 1..n
  BY <1>1, <1>2
<1>4. g[k - 1] = h[k - 1]
  BY <1>3
<1>5. g[k] = Redo(g[k - 1], l[k]) /\ h[k] = Redo(h[k - 1], l[k])
  BY <1>3 DEF Redone
<1> QED
  BY <1>1, <1>4, <1>5

LEMMA RedoneExist ==
    ASSUME NEW l, NEW n \in Nat
    PROVE  \E g : Redone(l, g, n)
<1> DEFINE Bad == {k \in Nat : ~ \E g : Redone(l, g, k)}
<1> SUFFICES ASSUME Bad # {} PROVE FALSE
  OBVIOUS
<1>1. PICK m \in Bad : \A k \in Bad : m <= k
  BY NatMin
<1>2. Redone(l, [i \in {0} |-> Nothing], 0)
  BY DEF Redone
<1>3. m # 0
  BY <1>2, <1>1
<1>4. m - 1 \in Nat /\ m - 1 \notin Bad
  BY <1>1, <1>3
<1>5. PICK g : Redone(l, g, m - 1)
  BY <1>4
<1> DEFINE next == Redo(g[m - 1], l[m])
           h == [i \in 0..m |-> IF i = m THEN next ELSE g[i]]
<1>6. h[0] = Nothing
  BY <1>3, <1>4, <1>5 DEF Redone
<1>7. ASSUME NEW i \in 1..m PROVE h[i] = Redo(h[i - 1], l[i])
  <2>1. h[i - 1] = g[i - 1]
    BY <1>4
  <2>2. CASE i = m
    BY <2>1, <2>2
  <2>3. CASE i # m
    <3>1. i \in 1..(m - 1) /\ h[i] = g[i]
      BY <2>3, <1>4
    <3> QED
      BY <3>1, <2>1, <1>5 DEF Redone
  <2> QED
    BY <2>2, <2>3
<1> HIDE DEF h
<1>8. Redone(l, h, m)
  BY <1>6, <1>7 DEF Redone
<1> QED
  BY <1>8, <1>1

LEMMA RedoneRuns ==
    ASSUME NEW l, Len(l) \in Nat
    PROVE  \E g : Redone(l, g, Len(l)) /\ Replay(l) = g[Len(l)]
<1> DEFINE G(i) == CHOOSE g : Redone(l, g, i)
           f == [i \in Nat |-> G(i)[i]]
           Turn(a, i) == IF i = 0 THEN Nothing ELSE Redo(a[i - 1], l[i])
<1>1. ASSUME NEW i \in Nat PROVE Redone(l, G(i), i)
  BY RedoneExist
<1> HIDE DEF G
<1>2. ASSUME NEW i \in Nat PROVE f[i] = Turn(f, i)
  <2>1. CASE i = 0
    BY <2>1, <1>1 DEF Redone
  <2>2. CASE i # 0
    <3>1. i - 1 \in Nat /\ i \in 1..i
      BY <2>2
    <3>2. G(i - 1)[i - 1] = G(i)[i - 1]
      <4>1. Redone(l, G(i - 1), i - 1) /\ Redone(l, G(i), i - 1)
        BY <1>1, <3>1 DEF Redone
      <4> QED
        BY <4>1, <3>1, RedoneAgree
    <3>3. G(i)[i] = Redo(G(i)[i - 1], l[i])
      BY <1>1, <3>1 DEF Redone
    <3> QED
      BY <2>2, <3>1, <3>2, <3>3
  <2> QED
    BY <2>1, <2>2
<1> HIDE DEF f
<1>3. f = [i \in Nat |-> Turn(f, i)]
  <2>1. f = [i \in Nat |-> G(i)[i]]
    BY DEF f
  <2> QED
    BY <2>1, <1>2
<1> DEFINE after == CHOOSE a : a = [i \in Nat |-> Turn(a, i)]
<1>4. after = [i \in Nat |-> Turn(after, i)]
  BY <1>3, Zenon
<1>5. Replay(l) = after[Len(l)]
  BY DEF Replay
<1> HIDE DEF after
<1>6. ASSUME NEW i \in Nat PROVE after[i] = Turn(after, i)
  BY <1>4
<1>7. Redone(l, after, Len(l))
  BY <1>6 DEF Redone
<1> QED
  BY <1>5, <1>7

(* The same of a write set, ... *)
Written(tables, ops, g, n) == g[0] = tables /\ \A i \in 1..n : g[i] = ApplyTo(g[i - 1], ops[i])

LEMMA WrittenAgree ==
    ASSUME NEW tables, NEW ops, NEW n \in Nat, NEW g, NEW h, Written(tables, ops, g, n), Written(tables, ops, h, n)
    PROVE  g[n] = h[n]
<1> DEFINE Bad == {k \in Nat : k <= n /\ g[k] # h[k]}
<1> SUFFICES ASSUME Bad # {} PROVE FALSE
  OBVIOUS
<1>1. PICK k \in Bad : \A j \in Bad : k <= j
  BY NatMin
<1>2. k # 0
  BY <1>1 DEF Written
<1>3. k - 1 \in Nat /\ k - 1 <= n /\ k - 1 \notin Bad /\ k \in 1..n
  BY <1>1, <1>2
<1>4. g[k - 1] = h[k - 1]
  BY <1>3
<1>5. g[k] = ApplyTo(g[k - 1], ops[k]) /\ h[k] = ApplyTo(h[k - 1], ops[k])
  BY <1>3 DEF Written
<1> QED
  BY <1>1, <1>4, <1>5

LEMMA WrittenExist ==
    ASSUME NEW tables, NEW ops, NEW n \in Nat
    PROVE  \E g : Written(tables, ops, g, n)
<1> DEFINE Bad == {k \in Nat : ~ \E g : Written(tables, ops, g, k)}
<1> SUFFICES ASSUME Bad # {} PROVE FALSE
  OBVIOUS
<1>1. PICK m \in Bad : \A k \in Bad : m <= k
  BY NatMin
<1>2. Written(tables, ops, [i \in {0} |-> tables], 0)
  BY DEF Written
<1>3. m # 0
  BY <1>2, <1>1
<1>4. m - 1 \in Nat /\ m - 1 \notin Bad
  BY <1>1, <1>3
<1>5. PICK g : Written(tables, ops, g, m - 1)
  BY <1>4
<1> DEFINE next == ApplyTo(g[m - 1], ops[m])
           h == [i \in 0..m |-> IF i = m THEN next ELSE g[i]]
<1>6. h[0] = tables
  BY <1>3, <1>4, <1>5 DEF Written
<1>7. ASSUME NEW i \in 1..m PROVE h[i] = ApplyTo(h[i - 1], ops[i])
  <2>1. h[i - 1] = g[i - 1]
    BY <1>4
  <2>2. CASE i = m
    BY <2>1, <2>2
  <2>3. CASE i # m
    <3>1. i \in 1..(m - 1) /\ h[i] = g[i]
      BY <2>3, <1>4
    <3> QED
      BY <3>1, <2>1, <1>5 DEF Written
  <2> QED
    BY <2>2, <2>3
<1> HIDE DEF h
<1>8. Written(tables, ops, h, m)
  BY <1>6, <1>7 DEF Written
<1> QED
  BY <1>8, <1>1

LEMMA WrittenRuns ==
    ASSUME NEW tables, NEW ops, Len(ops) \in Nat
    PROVE  \E g : Written(tables, ops, g, Len(ops)) /\ ApplyWriteSet(tables, ops) = g[Len(ops)]
<1> DEFINE G(i) == CHOOSE g : Written(tables, ops, g, i)
           f == [i \in Nat |-> G(i)[i]]
           Turn(a, i) == IF i = 0 THEN tables ELSE ApplyTo(a[i - 1], ops[i])
<1>1. ASSUME NEW i \in Nat PROVE Written(tables, ops, G(i), i)
  BY WrittenExist
<1> HIDE DEF G
<1>2. ASSUME NEW i \in Nat PROVE f[i] = Turn(f, i)
  <2>1. CASE i = 0
    BY <2>1, <1>1 DEF Written
  <2>2. CASE i # 0
    <3>1. i - 1 \in Nat /\ i \in 1..i
      BY <2>2
    <3>2. G(i - 1)[i - 1] = G(i)[i - 1]
      <4>1. Written(tables, ops, G(i - 1), i - 1) /\ Written(tables, ops, G(i), i - 1)
        BY <1>1, <3>1 DEF Written
      <4> QED
        BY <4>1, <3>1, WrittenAgree
    <3>3. G(i)[i] = ApplyTo(G(i)[i - 1], ops[i])
      BY <1>1, <3>1 DEF Written
    <3> QED
      BY <2>2, <3>1, <3>2, <3>3
  <2> QED
    BY <2>1, <2>2
<1> HIDE DEF f
<1>3. f = [i \in Nat |-> Turn(f, i)]
  <2>1. f = [i \in Nat |-> G(i)[i]]
    BY DEF f
  <2> QED
    BY <2>1, <1>2
<1> DEFINE after == CHOOSE a : a = [i \in Nat |-> Turn(a, i)]
<1>4. after = [i \in Nat |-> Turn(after, i)]
  BY <1>3, Zenon
<1>5. ApplyWriteSet(tables, ops) = after[Len(ops)]
  BY DEF ApplyWriteSet
<1> HIDE DEF after
<1>6. ASSUME NEW i \in Nat PROVE after[i] = Turn(after, i)
  BY <1>4
<1>7. Written(tables, ops, after, Len(ops))
  BY <1>6 DEF Written
<1> QED
  BY <1>5, <1>7

(* ... and of the assignments of an UPDATE. *)
OneSet(row, set, schema, values, i) == [row EXCEPT ![At(schema, set[i][1])] = CHOOSE x \in values[i] : TRUE]
Assigned(row, set, schema, values, g, n) ==
  g[0] = row /\ \A i \in 1..n : g[i] = OneSet(g[i - 1], set, schema, values, i)

LEMMA AssignedAgree ==
    ASSUME NEW row, NEW set, NEW schema, NEW values, NEW n \in Nat, NEW g, NEW h,
           Assigned(row, set, schema, values, g, n), Assigned(row, set, schema, values, h, n)
    PROVE  g[n] = h[n]
<1> DEFINE Bad == {k \in Nat : k <= n /\ g[k] # h[k]}
<1> SUFFICES ASSUME Bad # {} PROVE FALSE
  OBVIOUS
<1>1. PICK k \in Bad : \A j \in Bad : k <= j
  BY NatMin
<1>2. k # 0
  BY <1>1 DEF Assigned
<1>3. k - 1 \in Nat /\ k - 1 <= n /\ k - 1 \notin Bad /\ k \in 1..n
  BY <1>1, <1>2
<1>4. g[k - 1] = h[k - 1]
  BY <1>3
<1>5. g[k] = OneSet(g[k - 1], set, schema, values, k) /\ h[k] = OneSet(h[k - 1], set, schema, values, k)
  BY <1>3 DEF Assigned
<1> QED
  BY <1>1, <1>4, <1>5

LEMMA AssignedExist ==
    ASSUME NEW row, NEW set, NEW schema, NEW values, NEW n \in Nat
    PROVE  \E g : Assigned(row, set, schema, values, g, n)
<1> DEFINE Bad == {k \in Nat : ~ \E g : Assigned(row, set, schema, values, g, k)}
<1> SUFFICES ASSUME Bad # {} PROVE FALSE
  OBVIOUS
<1>1. PICK m \in Bad : \A k \in Bad : m <= k
  BY NatMin
<1>2. Assigned(row, set, schema, values, [i \in {0} |-> row], 0)
  BY DEF Assigned
<1>3. m # 0
  BY <1>2, <1>1
<1>4. m - 1 \in Nat /\ m - 1 \notin Bad
  BY <1>1, <1>3
<1>5. PICK g : Assigned(row, set, schema, values, g, m - 1)
  BY <1>4
<1> DEFINE next == OneSet(g[m - 1], set, schema, values, m)
           h == [i \in 0..m |-> IF i = m THEN next ELSE g[i]]
<1>6. h[0] = row
  BY <1>3, <1>4, <1>5 DEF Assigned
<1>7. ASSUME NEW i \in 1..m PROVE h[i] = OneSet(h[i - 1], set, schema, values, i)
  <2>1. h[i - 1] = g[i - 1]
    BY <1>4
  <2>2. CASE i = m
    BY <2>1, <2>2
  <2>3. CASE i # m
    <3>1. i \in 1..(m - 1) /\ h[i] = g[i]
      BY <2>3, <1>4
    <3> QED
      BY <3>1, <2>1, <1>5 DEF Assigned
  <2> QED
    BY <2>2, <2>3
<1> HIDE DEF h
<1>8. Assigned(row, set, schema, values, h, m)
  BY <1>6, <1>7 DEF Assigned
<1> QED
  BY <1>8, <1>1

LEMMA AssignedRuns ==
    ASSUME NEW row, NEW set, NEW schema, NEW values, Len(set) \in Nat
    PROVE  \E g : Assigned(row, set, schema, values, g, Len(set)) /\ Assign(row, set, schema, values) = g[Len(set)]
<1> DEFINE G(i) == CHOOSE g : Assigned(row, set, schema, values, g, i)
           f == [i \in Nat |-> G(i)[i]]
           Turn(a, i) == IF i = 0 THEN row ELSE OneSet(a[i - 1], set, schema, values, i)
<1>1. ASSUME NEW i \in Nat PROVE Assigned(row, set, schema, values, G(i), i)
  BY AssignedExist
<1> HIDE DEF G
<1>2. ASSUME NEW i \in Nat PROVE f[i] = Turn(f, i)
  <2>1. CASE i = 0
    BY <2>1, <1>1 DEF Assigned
  <2>2. CASE i # 0
    <3>1. i - 1 \in Nat /\ i \in 1..i
      BY <2>2
    <3>2. G(i - 1)[i - 1] = G(i)[i - 1]
      <4>1. Assigned(row, set, schema, values, G(i - 1), i - 1) /\ Assigned(row, set, schema, values, G(i), i - 1)
        BY <1>1, <3>1 DEF Assigned
      <4> QED
        BY <4>1, <3>1, AssignedAgree
    <3>3. G(i)[i] = OneSet(G(i)[i - 1], set, schema, values, i)
      BY <1>1, <3>1 DEF Assigned
    <3> QED
      BY <2>2, <3>1, <3>2, <3>3
  <2> QED
    BY <2>1, <2>2
<1> HIDE DEF f
<1>3. f = [i \in Nat |-> Turn(f, i)]
  <2>1. f = [i \in Nat |-> G(i)[i]]
    BY DEF f
  <2> QED
    BY <2>1, <1>2
<1> DEFINE after == CHOOSE a : a = [i \in Nat |-> Turn(a, i)]
<1>4. after = [i \in Nat |-> Turn(after, i)]
  BY <1>3, Zenon
<1>5. Assign(row, set, schema, values) = after[Len(set)]
  BY DEF Assign, OneSet
<1> HIDE DEF after
<1>6. ASSUME NEW i \in Nat PROVE after[i] = Turn(after, i)
  BY <1>4
<1>7. Assigned(row, set, schema, values, after, Len(set))
  BY <1>6 DEF Assigned
<1> QED
  BY <1>5, <1>7

(* The tables one row operation after the other makes of a table. *)
Tabled(table, ops, g, n) == g[0] = table /\ \A i \in 1..n : g[i] = ApplyOp(g[i - 1], ops[i])

(* Any two runs over the same operations are the same. *)
LEMMA TabledAgree ==
    ASSUME NEW table, NEW ops, NEW n \in Nat, NEW g, NEW h, Tabled(table, ops, g, n), Tabled(table, ops, h, n)
    PROVE  g[n] = h[n]
<1> DEFINE Bad == {k \in Nat : k <= n /\ g[k] # h[k]}
<1> SUFFICES ASSUME Bad # {} PROVE FALSE
  OBVIOUS
<1>1. PICK k \in Bad : \A j \in Bad : k <= j
  BY NatMin
<1>2. k # 0
  BY <1>1 DEF Tabled
<1>3. k - 1 \in Nat /\ k - 1 <= n /\ k - 1 \notin Bad /\ k \in 1..n
  BY <1>1, <1>2
<1>4. g[k - 1] = h[k - 1]
  BY <1>3
<1>5. g[k] = ApplyOp(g[k - 1], ops[k]) /\ h[k] = ApplyOp(h[k - 1], ops[k])
  BY <1>3 DEF Tabled
<1> QED
  BY <1>1, <1>4, <1>5

------------------------------------------------------------------------------
(* What recovery makes of a log. *)
(* Recovery replays a longer log by replaying the shorter one and redoing the
   last record. *)
LEMMA ReplayAppend ==
    ASSUME NEW l, IsSeq(l), NEW r
    PROVE  Replay(Append(l, r)) = Redo(Replay(l), r)
<1> DEFINE m == Append(l, r)
           n == Len(l)
<1>1. n \in Nat /\ Len(m) = n + 1 /\ (\A i \in 1..n : m[i] = l[i]) /\ m[n + 1] = r
  BY SeqIs, AppendIs
<1>2. PICK g : Redone(l, g, n) /\ Replay(l) = g[n]
  BY <1>1, RedoneRuns
<1> HIDE DEF m, n
<1>3. PICK h : Redone(m, h, n + 1) /\ Replay(m) = h[n + 1]
  <2>1. Len(m) \in Nat
    BY <1>1
  <2>2. PICK h : Redone(m, h, Len(m)) /\ Replay(m) = h[Len(m)]
    BY <2>1, RedoneRuns
  <2> QED
    BY <2>2, <1>1
<1>4. Redone(l, h, n)
  BY <1>1, <1>3 DEF Redone
<1>5. g[n] = h[n]
  BY <1>1, <1>2, <1>4, RedoneAgree
<1>6. h[n + 1] = Redo(h[n], r)
  BY <1>1, <1>3 DEF Redone
<1> QED
  BY <1>2, <1>3, <1>5, <1>6 DEF m

(* A write set on one table leaves the others and does to it what its
   operations do. *)
LEMMA WriteSetIs ==
    ASSUME NEW tables, NEW ops, IsSeq(ops), NEW id \in DOMAIN tables,
           \A i \in 1..Len(ops) : ops[i].table = id
    PROVE  /\ DOMAIN ApplyWriteSet(tables, ops) = DOMAIN tables
           /\ \A x \in DOMAIN tables \ {id} : ApplyWriteSet(tables, ops)[x] = tables[x]
           /\ \E t : Tabled(tables[id], ops, t, Len(ops)) /\ ApplyWriteSet(tables, ops)[id] = t[Len(ops)]
<1> DEFINE n == Len(ops)
<1>0. n \in Nat
  BY SeqIs
<1>1. PICK g : Written(tables, ops, g, n) /\ ApplyWriteSet(tables, ops) = g[n]
  BY <1>0, WrittenRuns
<1> DEFINE Fine(k) == DOMAIN g[k] = DOMAIN tables /\ \A x \in DOMAIN tables \ {id} : g[k][x] = tables[x]
           Bad == {k \in Nat : k <= n /\ ~Fine(k)}
<1> HIDE DEF n
<1>2. ASSUME NEW k \in 1..n, Fine(k - 1) PROVE Fine(k) /\ g[k][id] = ApplyOp(g[k - 1][id], ops[k])
  <2>1. g[k] = ApplyTo(g[k - 1], ops[k]) /\ ops[k].table = id
    BY <1>1 DEF Written, n
  <2>2. g[k] = [g[k - 1] EXCEPT ![id] = ApplyOp(@, ops[k])]
    BY <2>1, <1>2 DEF ApplyTo
  <2> QED
    BY <2>2, <1>2
<1>3. Bad = {}
  <2> SUFFICES ASSUME Bad # {} PROVE FALSE
    OBVIOUS
  <2>1. PICK k \in Bad : \A j \in Bad : k <= j
    BY NatMin
  <2>2. Fine(0)
    BY <1>1 DEF Written
  <2>3. k - 1 \in Nat /\ k - 1 <= n /\ k \in 1..n /\ k - 1 \notin Bad
    BY <2>1, <2>2, <1>0
  <2>4. Fine(k - 1)
    BY <2>3
  <2> QED
    BY <2>1, <2>3, <2>4, <1>2
<1>4. Fine(n)
  BY <1>0, <1>3
<1> DEFINE t == [i \in 0..n |-> g[i][id]]
<1>5. t[0] = tables[id] /\ t[n] = g[n][id]
  BY <1>0, <1>1 DEF Written
<1>6. ASSUME NEW i \in 1..n PROVE t[i] = ApplyOp(t[i - 1], ops[i])
  <2>1. i - 1 \in Nat /\ i - 1 <= n /\ i - 1 \in 0..n /\ i \in 0..n
    BY <1>0
  <2>2. Fine(i - 1)
    BY <2>1, <1>3
  <2> QED
    BY <2>1, <2>2, <1>2
<1> HIDE DEF t
<1>7. Tabled(tables[id], ops, t, n)
  BY <1>5, <1>6 DEF Tabled
<1> QED
  BY <1>1, <1>4, <1>5, <1>7 DEF n

(* The same write set on equal tables leaves equal tables. *)
LEMMA WriteSetsAgree ==
    ASSUME NEW a, NEW b, NEW ops, IsSeq(ops), NEW id, id \in DOMAIN a, id \in DOMAIN b, a[id] = b[id],
           \A i \in 1..Len(ops) : ops[i].table = id
    PROVE  ApplyWriteSet(a, ops)[id] = ApplyWriteSet(b, ops)[id]
<1>1. PICK t : Tabled(a[id], ops, t, Len(ops)) /\ ApplyWriteSet(a, ops)[id] = t[Len(ops)]
  BY WriteSetIs
<1>2. PICK u : Tabled(b[id], ops, u, Len(ops)) /\ ApplyWriteSet(b, ops)[id] = u[Len(ops)]
  BY WriteSetIs
<1> QED
  BY <1>1, <1>2, SeqIs, TabledAgree

------------------------------------------------------------------------------
(* Rows keep their keys. *)
(* The operations of a write set are on one table, and what they insert is
   keyed by the id they insert it at. *)
OpFits(w, id, schema) == w.table = id /\ (w.op # "Delete" => KeyedBy(w.row, schema, w.id))

(* Such an operation leaves every version of every row under its key, *)
LEMMA ApplyOpKeeps ==
    ASSUME NEW table, NEW w, NEW schema, NEW id, Keyed(table, schema), OpFits(w, id, schema),
           w.op \in {"Insert", "Update", "Delete"}
    PROVE  Keyed(ApplyOp(table, w), schema)
<1> DEFINE old == Versions(table, w.id)
           base == IF old = <<>> THEN old ELSE Front(old)
           new == CASE w.op = "Insert" -> Append(old, w.row)
                    [] w.op = "Update" -> Append(base, w.row)
                    [] OTHER -> base
           All(s) == IsSeq(s) /\ \A row \in ToSet(s) : KeyedBy(row, schema, w.id)
<1>1. IsSeq(<<>>) /\ ToSet(<<>>) = {}
  BY DEF IsSeq, ToSet
<1>2. All(old)
  BY <1>1 DEF Keyed, Versions
<1>3. All(base)
  BY <1>1, <1>2, FrontIs
<1> HIDE DEF old, base
<1>4. All(new) /\ (w.op # "Delete" => new # <<>>)
  <2>1. CASE w.op = "Insert"
    BY <2>1, <1>2, AppendIs DEF OpFits
  <2>2. CASE w.op = "Update"
    BY <2>2, <1>3, AppendIs DEF OpFits
  <2>3. CASE w.op = "Delete"
    BY <2>3, <1>3
  <2> QED
    BY <2>1, <2>2, <2>3
<1>5. ApplyOp(table, w) = IF new = <<>> THEN Restrict(table, DOMAIN table \ {w.id}) ELSE Put(table, w.id, new)
  BY DEF ApplyOp, old, base
<1> HIDE DEF new
<1>6. CASE new = <<>>
  <2>1. ApplyOp(table, w) = [r \in DOMAIN table \ {w.id} |-> table[r]]
    BY <1>5, <1>6 DEF Restrict
  <2>2. IsFiniteSet(DOMAIN table \ {w.id})
    BY FS_Subset DEF Keyed
  <2> QED
    BY <2>1, <2>2 DEF Keyed
<1>7. CASE new # <<>>
  <2>1. ApplyOp(table, w) = Put(table, w.id, new)
    BY <1>5, <1>7
  <2>2. IsFiniteSet(DOMAIN table \cup {w.id})
    BY FS_AddElement DEF Keyed
  <2>3. DOMAIN ApplyOp(table, w) = DOMAIN table \cup {w.id} /\ ApplyOp(table, w)[w.id] = new
    BY <2>1 DEF Put
  <2>4. \A r \in DOMAIN table \ {w.id} : ApplyOp(table, w)[r] = table[r]
    BY <2>1 DEF Put
  <2> QED
    BY <2>2, <2>3, <2>4, <1>4, <1>7 DEF Keyed
<1> QED
  BY <1>6, <1>7

(* A statement writes operations of its own kind, an UPDATE on rows it found. *)
OfKind(ops, kind, rows) ==
  \A i \in 1..Len(ops) :
    /\ ops[i].op = CASE kind = "insert" -> "Insert" [] kind = "update" -> "Update" [] OTHER -> "Delete"
    /\ kind = "update" => ops[i].id \in rows

IsWriteSet(ops, id, schema) ==
  IsSeq(ops) /\ \A i \in 1..Len(ops) : OpFits(ops[i], id, schema) /\ ops[i].op \in {"Insert", "Update", "Delete"}

(* and so does the whole write set. *)
LEMMA WriteSetKeeps ==
    ASSUME NEW tables, NEW ops, NEW id \in DOMAIN tables, NEW schema,
           IsWriteSet(ops, id, schema), Keyed(tables[id], schema)
    PROVE  Keyed(ApplyWriteSet(tables, ops)[id], schema)
<1>1. PICK t : Tabled(tables[id], ops, t, Len(ops)) /\ ApplyWriteSet(tables, ops)[id] = t[Len(ops)]
  BY WriteSetIs DEF IsWriteSet, OpFits
<1>2. Len(ops) \in Nat
  BY SeqIs DEF IsWriteSet
<1> DEFINE Bad == {k \in Nat : k <= Len(ops) /\ ~Keyed(t[k], schema)}
<1>3. Bad = {}
  <2> SUFFICES ASSUME Bad # {} PROVE FALSE
    OBVIOUS
  <2>1. PICK k \in Bad : \A j \in Bad : k <= j
    BY NatMin
  <2>2. Keyed(t[0], schema)
    BY <1>1 DEF Tabled
  <2>3. k - 1 \in Nat /\ k - 1 <= Len(ops) /\ k \in 1..Len(ops) /\ k - 1 \notin Bad
    BY <2>1, <2>2, <1>2
  <2>4. Keyed(t[k - 1], schema) /\ t[k] = ApplyOp(t[k - 1], ops[k])
    BY <2>3, <1>1 DEF Tabled
  <2>5. Keyed(t[k], schema)
    BY <2>3, <2>4, ApplyOpKeeps DEF IsWriteSet
  <2> QED
    BY <2>1, <2>5
<1> QED
  BY <1>1, <1>2, <1>3

------------------------------------------------------------------------------
(* Schemas. *)
(* The primary key of a schema is one of its columns, if it has one. *)
LEMMA PkIs ==
    ASSUME NEW schema, IsSeq(schema)
    PROVE  PkOf(schema) = 0 \/ PkOf(schema) \in DOMAIN schema
<1> DEFINE at == {i \in DOMAIN schema : schema[i].pk}
<1>1. DOMAIN schema \in SUBSET Nat
  BY SeqIs
<1>2. at # {} => Min(at) \in at
  BY <1>1, MinIs
<1> QED
  BY <1>2 DEF PkOf

------------------------------------------------------------------------------
(* INSERT. *)
IntFields(fields) == IsSeq(fields) /\ \A field \in ToSet(fields) : IsText(field)

(* What the values of an INSERT parse to has integers where it says so, and so
   has the row they are ordered into. *)
LEMMA CheckedIs ==
    ASSUME NEW token, NEW type, IsInt(token.v), NEW v \in ParseLiteralChecked(token, type)
    PROVE  IsInt(v)
<1>1. IsInt(NullValue)
  BY DEF IsInt, NullValue, Val
<1>2. \A x : IsInt(FloatVal(x))
  BY DEF IsInt, FloatVal, Val
<1> QED
  BY <1>1, <1>2 DEF ParseLiteralChecked, Convert

LEMMA TokenIs == ASSUME NEW ts, IsText(ts), NEW i \in 1..Len(ts) PROVE IsInt(ts[i].v)
<1>1. ts[i] \in ToSet(ts)
  BY SeqIs DEF IsText, ToSet
<1> QED
  BY <1>1 DEF IsText

LEMMA LiteralIs ==
    ASSUME NEW ts, NEW type, IsText(ts), NEW v \in Literal(ts, type)
    PROVE  IsInt(v)
<1>1. Len(ts) = 1 /\ v \in ParseLiteralChecked(ts[1], type)
  BY DEF Literal
<1> QED
  BY <1>1, TokenIs, CheckedIs

LEMMA OrderedRowIs ==
    ASSUME NEW stmt, NEW schema, NEW fields, IsSeq(schema), IsSeq(stmt.columns), IntFields(fields),
           Len(fields) = Len(IF stmt.columns = <<>> THEN schema ELSE stmt.columns),
           NEW row \in OrderInsertRow(stmt, schema, fields)
    PROVE  DOMAIN row = DOMAIN schema /\ \A i \in DOMAIN row : IsInt(row[i])
<1> DEFINE Source(i) == IF stmt.columns = <<>> THEN {i}
                        ELSE {k \in DOMAIN stmt.columns : Name(stmt.columns[k]) = schema[i].name}
           Values(i) == IF Source(i) = {} THEN {NullValue} ELSE Literal(fields[Max(Source(i))], schema[i].type)
<1>1. /\ \A i \in DOMAIN schema : Values(i) # {}
      /\ row = [i \in DOMAIN schema |-> CHOOSE v \in Values(i) : TRUE]
  BY DEF OrderInsertRow
<1>2. ASSUME NEW i \in DOMAIN schema, Source(i) # {} PROVE fields[Max(Source(i))] \in ToSet(fields)
  <2>1. DOMAIN schema = 1..Len(schema) /\ DOMAIN stmt.columns = 1..Len(stmt.columns) /\ DOMAIN fields = 1..Len(fields)
        /\ Len(stmt.columns) \in Nat
    BY SeqIs DEF IntFields
  <2>2. Source(i) \subseteq DOMAIN fields /\ Source(i) \subseteq Nat /\ IsFiniteSet(Source(i))
    <3>1. CASE stmt.columns = <<>>
      <4>1. Source(i) = {i} /\ Len(fields) = Len(schema)
        BY <3>1
      <4>2. i \in DOMAIN fields /\ i \in Nat
        BY <4>1, <2>1
      <4>3. IsFiniteSet({i})
        BY FS_Singleton
      <4> QED
        BY <4>1, <4>2, <4>3
    <3>2. CASE stmt.columns # <<>>
      <4>1. Source(i) \subseteq DOMAIN stmt.columns /\ Len(fields) = Len(stmt.columns)
        BY <3>2
      <4>2. Source(i) \subseteq 1..Len(stmt.columns) /\ Source(i) \subseteq DOMAIN fields
        BY <4>1, <2>1
      <4> HIDE DEF Source
      <4>3. IsFiniteSet(1..Len(stmt.columns))
        <5>1. 1 \in Int /\ Len(stmt.columns) \in Int
          BY <2>1
        <5> QED
          BY <5>1, FS_Interval, Zenon
      <4>4. IsFiniteSet(Source(i))
        BY <4>2, <4>3, FS_Subset
      <4> QED
        BY <4>2, <4>4
    <3> QED
      BY <3>1, <3>2
  <2>3. Max(Source(i)) \in Source(i)
    BY <2>2, <1>2, MaxIs
  <2> QED
    BY <2>2, <2>3 DEF ToSet
<1>3. IsInt(NullValue)
  BY DEF IsInt, NullValue, Val
<1>4. ASSUME NEW i \in DOMAIN schema, NEW v \in Values(i) PROVE IsInt(v)
  BY <1>2, <1>3, <1>4, LiteralIs DEF IntFields
<1> HIDE DEF Values, Source
<1>5. ASSUME NEW i \in DOMAIN schema PROVE row[i] \in Values(i)
  BY <1>1
<1> QED
  BY <1>1, <1>4, <1>5

(* A row that has a row id has it as its primary key. *)
LEMMA RowIdIs ==
    ASSUME NEW row, NEW schema, IsSeq(schema), DOMAIN row = DOMAIN schema, \A i \in DOMAIN row : IsInt(row[i]),
           NEW r \in RowId(row, schema)
    PROVE  KeyedBy(row, schema, r) /\ PkOf(schema) # 0
<1>1. PkOf(schema) # 0 /\ row[PkOf(schema)].t = "Integer" /\ r = AsU64(row[PkOf(schema)].v)
  BY DEF RowId
<1>2. RowId(row, schema) = {r}
  BY <1>1 DEF RowId
<1>3. PkOf(schema) \in DOMAIN row
  BY <1>1, PkIs
<1>4. row[PkOf(schema)].v \in Int
  BY <1>1, <1>3 DEF IsInt
<1>5. r < TwoTo64
  <2>1. TwoTo64 \in Nat /\ TwoTo64 > 0
    BY DatabaseAssumption
  <2> QED
    BY <1>1, <1>4, <2>1 DEF AsU64
<1> QED
  BY <1>1, <1>2, <1>3, <1>5 DEF KeyedBy

(* An INSERT statement as Receive leaves it. *)
IsInsert(stmt, schema) ==
  /\ IsSeq(stmt.columns) /\ IsSeq(stmt.rows)
  /\ \A fields \in ToSet(stmt.rows) :
       IntFields(fields) /\ Len(fields) = Len(IF stmt.columns = <<>> THEN schema ELSE stmt.columns)

(* The write set of an INSERT, and that it has rows only in a table with a
   key. *)
LEMMA InsertOpsAre ==
    ASSUME NEW stmt, NEW schema, NEW id, IsSeq(schema), IsInsert(stmt, schema), NEW ops \in InsertOps(stmt, schema, id)
    PROVE  /\ IsWriteSet(ops, id, schema) /\ PkOf(schema) # 0
           /\ \A rows : OfKind(ops, "insert", rows)
<1> DEFINE Ops(values) == UNION {{WriteOp("Insert", id, r, row) : r \in RowId(row, schema)} :
                                   row \in OrderInsertRow(stmt, schema, values)}
           n == Len(stmt.rows)
<1>1. n \in Nat /\ DOMAIN stmt.rows = 1..n
  BY SeqIs DEF IsInsert
<1>2. /\ PkOf(schema) # 0 /\ \A k \in 1..n : Ops(stmt.rows[k]) # {}
      /\ ops = [k \in 1..n |-> CHOOSE w \in Ops(stmt.rows[k]) : TRUE]
  BY <1>1, Zenon DEF InsertOps
<1>3. ASSUME NEW k \in 1..n, NEW w \in Ops(stmt.rows[k])
      PROVE  OpFits(w, id, schema) /\ w.op = "Insert"
  <2>1. PICK row \in OrderInsertRow(stmt, schema, stmt.rows[k]) : \E r \in RowId(row, schema) : w = WriteOp("Insert", id, r, row)
    BY <1>3
  <2>2. PICK r \in RowId(row, schema) : w = WriteOp("Insert", id, r, row)
    BY <2>1
  <2>3. stmt.rows[k] \in ToSet(stmt.rows)
    BY <1>1 DEF ToSet
  <2>4. DOMAIN row = DOMAIN schema /\ \A i \in DOMAIN row : IsInt(row[i])
    BY <2>3, OrderedRowIs DEF IsInsert
  <2>5. KeyedBy(row, schema, r)
    BY <2>4, RowIdIs
  <2> QED
    BY <2>2, <2>5 DEF OpFits, WriteOp
<1> HIDE DEF Ops, n
<1>4. \A k \in 1..n : ops[k] \in Ops(stmt.rows[k])
  BY <1>2
<1>5. IsSeq(ops) /\ Len(ops) = n
  <2>1. ops = [k \in 1..n |-> ops[k]]
    BY <1>2
  <2> QED
    BY <2>1, <1>1, SeqMade
<1> QED
  BY <1>2, <1>3, <1>4, <1>5 DEF IsWriteSet, OfKind

------------------------------------------------------------------------------
(* UPDATE and DELETE. *)
(* Of a column an UPDATE keeps the last assignment, and the column as it was if
   there is none. *)
LastAssigns(set, schema, i, k) ==
  /\ k \in 0..Len(set) /\ (k # 0 => At(schema, set[k][1]) = i)
  /\ \A j \in (k + 1)..Len(set) : At(schema, set[j][1]) # i
Assigns(row, values, i, k) == IF k = 0 THEN row[i] ELSE CHOOSE x \in values[k] : TRUE

LEMMA AssignIs ==
    ASSUME NEW row, NEW set, NEW schema, NEW values, NEW i, i \in DOMAIN row, IsSeq(set), NEW k,
           LastAssigns(set, schema, i, k)
    PROVE  /\ DOMAIN Assign(row, set, schema, values) = DOMAIN row
           /\ Assign(row, set, schema, values)[i] = Assigns(row, values, i, k)
<1> USE DEF LastAssigns
<1> DEFINE n == Len(set)
           is == Assigns(row, values, i, k)
<1>0. n \in Nat
  BY SeqIs
<1>1. PICK g : Assigned(row, set, schema, values, g, n) /\ Assign(row, set, schema, values) = g[n]
  BY <1>0, AssignedRuns
<1> DEFINE Fine(m) == DOMAIN g[m] = DOMAIN row /\ (m >= k => g[m][i] = is)
           Bad == {m \in Nat : m <= n /\ ~Fine(m)}
<1>k. k \in Nat /\ k <= n
  BY <1>0
<1> HIDE DEF n, is, Fine
<1>2. Bad = {}
  <2> SUFFICES ASSUME Bad # {} PROVE FALSE
    OBVIOUS
  <2>1. PICK m \in Bad : \A j \in Bad : m <= j
    BY NatMin
  <2>2. Fine(0)
    <3>1. g[0] = row
      BY <1>1 DEF Assigned
    <3>2. 0 >= k => is = row[i]
      BY <1>k DEF is, Assigns
    <3> QED
      BY <3>1, <3>2 DEF Fine
  <2>3. m # 0
    BY <2>1, <2>2
  <2>4. m - 1 \in Nat /\ m - 1 <= n /\ m \in 1..n /\ m - 1 \notin Bad
    BY <2>1, <2>3, <1>0
  <2>5. Fine(m - 1)
    BY <2>4
  <2>6. g[m] = [g[m - 1] EXCEPT ![At(schema, set[m][1])] = CHOOSE x \in values[m] : TRUE]
    BY <1>1, <2>4 DEF Assigned, OneSet
  <2>7. DOMAIN g[m] = DOMAIN row
    BY <2>5, <2>6 DEF Fine
  <2>8. ASSUME m >= k PROVE g[m][i] = is
    <3>1. CASE m = k
      <4>1. At(schema, set[m][1]) = i /\ i \in DOMAIN g[m - 1]
        BY <3>1, <2>3, <2>5 DEF Fine
      <4>2. g[m][i] = CHOOSE x \in values[m] : TRUE
        BY <4>1, <2>6
      <4> QED
        BY <4>2, <3>1, <2>3 DEF is, Assigns
    <3>2. CASE m # k
      <4>1. m \in (k + 1)..n /\ m - 1 >= k
        BY <3>2, <2>4, <2>8, <1>0, <1>k
      <4>2. At(schema, set[m][1]) # i
        BY <4>1 DEF n
      <4>3. g[m][i] = g[m - 1][i]
        BY <4>2, <2>5, <2>6 DEF Fine
      <4> QED
        BY <4>1, <4>3, <2>5 DEF Fine
    <3> QED
      BY <3>1, <3>2
  <2> QED
    BY <2>1, <2>7, <2>8 DEF Fine
<1>3. Fine(n) /\ n >= k
  BY <1>0, <1>2, <1>k
<1> QED
  BY <1>1, <1>3 DEF Fine, is, n

(* There is such an assignment for every column, or none at all. *)
LEMMA LastOf ==
    ASSUME NEW n \in Nat, NEW S \in SUBSET (1..n)
    PROVE  \E k \in 0..n : (k # 0 => k \in S /\ k = Max(S)) /\ (k = 0 => S = {}) /\ \A j \in (k + 1)..n : j \notin S
<1>1. CASE S = {}
  BY <1>1
<1>2. CASE S # {}
  <2>1. IsFiniteSet(1..n)
    <3>1. 1 \in Int /\ n \in Int
      OBVIOUS
    <3> QED
      BY <3>1, FS_Interval, Zenon
  <2>2. IsFiniteSet(S)
    BY <2>1, FS_Subset
  <2>3. S \in SUBSET Nat
    OBVIOUS
  <2>4. Max(S) \in S /\ \A m \in S : m <= Max(S)
    BY <1>2, <2>2, <2>3, MaxIs
  <2> DEFINE k == Max(S)
  <2> HIDE DEF k
  <2>5. k \in 1..n /\ \A m \in S : m <= k
    BY <2>4 DEF k
  <2>6. k \in 0..n /\ k # 0 /\ k \in S /\ \A j \in (k + 1)..n : j \notin S
    BY <2>4, <2>5 DEF k
  <2> QED
    BY <2>6 DEF k
<1> QED
  BY <1>1, <1>2

(* The column a name stands for. *)
LEMMA PositionIs ==
    ASSUME NEW schema, IsSeq(schema), NEW name
    PROVE  /\ 0 \notin DOMAIN schema
           /\ Position(schema, name) # 0 => Position(schema, name) \in DOMAIN schema /\ schema[Position(schema, name)].name = name
           /\ Position(schema, name) = 0 => \A i \in DOMAIN schema : schema[i].name # name
<1> DEFINE at == {i \in DOMAIN schema : schema[i].name = name}
<1>1. DOMAIN schema = 1..Len(schema) /\ Len(schema) \in Nat
  BY SeqIs
<1>2. at # {} => Min(at) \in at
  <2>1. at \in SUBSET Nat
    BY <1>1
  <2> QED
    BY <2>1, MinIs
<1>3. Position(schema, name) = IF at = {} THEN 0 ELSE Min(at)
  BY DEF Position
<1>4. 0 \notin DOMAIN schema
  BY <1>1
<1> HIDE DEF Min
<1> QED
  BY <1>2, <1>3, <1>4

(* What a SET expression gives: integers where it says so. *)
LEMMA ArithIs ==
    ASSUME NEW x, NEW y, NEW op, IsInt(x), IsInt(y), NEW v \in Arith(x, op, y)
    PROVE  IsInt(v)
<1>1. \A h : IsInt(FloatVal(h)) /\ IsInt(StringVal(h))
  BY DEF IsInt, FloatVal, StringVal, Val
<1>2. IsInt(NullValue)
  BY DEF IsInt, NullValue, Val
<1>3. \A i \in Int : IsInt(IntVal(i))
  BY DEF IsInt, IntVal, Val
<1>4. CASE x.t = "Integer" /\ y.t = "Integer" /\ ~IsNull(x) /\ ~IsNull(y)
  <2>1. x.v \in Int /\ y.v \in Int
    BY <1>4 DEF IsInt
  <2>2. y.v # 0 => Quotient(x.v, y.v) \in Int
    <3> DEFINE a == IF x.v < 0 THEN -x.v ELSE x.v
               b == IF y.v < 0 THEN -y.v ELSE y.v
    <3> SUFFICES ASSUME y.v # 0 PROVE Quotient(x.v, y.v) \in Int
      OBVIOUS
    <3>1. a \in Int /\ b \in Int /\ b > 0
      BY <2>1
    <3> HIDE DEF a, b
    <3>2. a \div b \in Int
      BY <3>1
    <3>3. Quotient(x.v, y.v) = IF (x.v < 0) = (y.v < 0) THEN a \div b ELSE -(a \div b)
      BY DEF Quotient, a, b
    <3> QED
      BY <3>2, <3>3
  <2>3. v = CASE op = "+" -> IntVal(x.v + y.v) [] op = "-" -> IntVal(x.v - y.v) [] op = "*" -> IntVal(x.v * y.v)
              [] OTHER -> IF y.v = 0 THEN NullValue ELSE IntVal(Quotient(x.v, y.v))
    BY <1>4 DEF Arith, IsNull
  <2>4. x.v + y.v \in Int /\ x.v - y.v \in Int /\ x.v * y.v \in Int
    BY <2>1
  <2> HIDE DEF Quotient
  <2> QED
    BY <2>2, <2>3, <2>4, <1>2, <1>3
<1>5. CASE ~(x.t = "Integer" /\ y.t = "Integer" /\ ~IsNull(x) /\ ~IsNull(y))
  BY <1>1, <1>2, <1>5 DEF Arith, IsNull
<1> QED
  BY <1>4, <1>5

IsRow(row, schema) == DOMAIN row = DOMAIN schema /\ \A i \in DOMAIN row : IsInt(row[i])

LEMMA OperandIs ==
    ASSUME NEW token, NEW schema, IsSeq(schema), NEW row, IsRow(row, schema), IsInt(token.v), NEW type,
           NEW o, \/ o \in ResolveOperand(token, schema)
                  \/ token.k = "column" /\ Position(schema, token.n) # 0 /\ o = Operand(Position(schema, token.n), NullValue)
                  \/ o \in {Operand(0, v) : v \in ParseLiteralChecked(token, type)}
    PROVE  IsInt(OperandValue(o, row))
<1>1. CASE Position(schema, token.n) # 0 /\ o = Operand(Position(schema, token.n), NullValue)
  <2>1. Position(schema, token.n) \in DOMAIN row
    BY <1>1, PositionIs DEF IsRow
  <2>2. o.column = Position(schema, token.n)
    BY <1>1 DEF Operand
  <2> QED
    BY <1>1, <2>1, <2>2 DEF OperandValue, IsRow
<1>2. ASSUME NEW v, IsInt(v), o = Operand(0, v) PROVE IsInt(OperandValue(o, row))
  <2>1. o.column = 0 /\ o.value = v
    BY <1>2 DEF Operand
  <2> QED
    BY <1>2, <2>1 DEF OperandValue
<1>3. \A v \in ParseLiteralValue(token) : IsInt(v)
  BY DEF ParseLiteralValue
<1>4. \A v \in ParseLiteralChecked(token, type) : IsInt(v)
  BY CheckedIs
<1> QED
  BY <1>1, <1>2, <1>3, <1>4 DEF ResolveOperand

LEMMA CompiledIs ==
    ASSUME NEW ts, NEW schema, NEW type, NEW a \in CompileAssignment(ts, schema, type)
    PROVE  \/ /\ Len(ts) = 3 /\ a.op # "copy"
              /\ a.left \in ResolveOperand(ts[1], schema) /\ a.right \in ResolveOperand(ts[3], schema)
           \/ /\ Len(ts) = 1 /\ a.op = "copy"
              /\ \/ ts[1].k = "column" /\ Position(schema, ts[1].n) # 0 /\ a.left = Operand(Position(schema, ts[1].n), NullValue)
                 \/ a.left \in {Operand(0, v) : v \in ParseLiteralChecked(ts[1], type)}
<1> DEFINE o == IF ts[1].k = "column" /\ Position(schema, ts[1].n) # 0
                THEN {Operand(Position(schema, ts[1].n), NullValue)}
                ELSE {Operand(0, v) : v \in ParseLiteralChecked(ts[1], type)}
           three == Len(ts) = 3 /\ ts[2].k = "symbol" /\ ts[2].n[2] \in {"+", "-", "*", "/"}
           X == {[left |-> l, op |-> ts[2].n[2], right |-> r] :
                    l \in ResolveOperand(ts[1], schema), r \in ResolveOperand(ts[3], schema)}
           Y == {[left |-> x, op |-> "copy", right |-> x] : x \in o}
<1>1. (three /\ a \in X) \/ (Len(ts) = 1 /\ a \in Y)
  <2>1. CASE three
    BY <2>1 DEF CompileAssignment
  <2>2. CASE ~three /\ Len(ts) = 1
    BY <2>2 DEF CompileAssignment
  <2>3. CASE ~three /\ Len(ts) # 1
    BY <2>3 DEF CompileAssignment
  <2> QED
    BY <2>1, <2>2, <2>3
<1>2. three => Len(ts) = 3 /\ ts[2].n[2] # "copy"
  OBVIOUS
<1>3. a \in X => a.left \in ResolveOperand(ts[1], schema) /\ a.right \in ResolveOperand(ts[3], schema) /\ a.op = ts[2].n[2]
  OBVIOUS
<1>5. \A y \in o : \/ ts[1].k = "column" /\ Position(schema, ts[1].n) # 0 /\ y = Operand(Position(schema, ts[1].n), NullValue)
                   \/ y \in {Operand(0, v) : v \in ParseLiteralChecked(ts[1], type)}
  BY Zenon
<1> HIDE DEF o
<1>4. a \in Y => a.left \in o /\ a.op = "copy"
  <2>1. ASSUME a \in Y PROVE \E x \in o : a = [left |-> x, op |-> "copy", right |-> x]
    BY <2>1, Zenon
  <2>2. \A x : a = [left |-> x, op |-> "copy", right |-> x] => a.left = x /\ a.op = "copy"
    OBVIOUS
  <2> HIDE DEF Y
  <2> QED
    BY <2>1, <2>2
<1> HIDE DEF three, X, Y
<1>6. CASE three /\ a \in X
  BY <1>2, <1>3, <1>6
<1>7. CASE Len(ts) = 1 /\ a \in Y
  BY <1>4, <1>5, <1>7
<1> QED
  BY <1>1, <1>6, <1>7

LEMMA EvaluatedIs ==
    ASSUME NEW ts, IsText(ts), NEW schema, IsSeq(schema), NEW type, NEW row, IsRow(row, schema),
           NEW a \in CompileAssignment(ts, schema, type), NEW v \in EvalAssignment(a, row)
    PROVE  IsInt(v)
<1>1. CASE /\ Len(ts) = 3 /\ a.op # "copy"
           /\ a.left \in ResolveOperand(ts[1], schema) /\ a.right \in ResolveOperand(ts[3], schema)
  <2>0. Len(ts) = 3
    BY <1>1, Zenon
  <2>1. 1 \in 1..Len(ts) /\ 3 \in 1..Len(ts)
    BY <2>0
  <2>2. IsInt(ts[1].v) /\ IsInt(ts[3].v)
    BY <2>1, TokenIs
  <2>3. IsInt(OperandValue(a.left, row)) /\ IsInt(OperandValue(a.right, row))
    BY <1>1, <2>2, OperandIs
  <2> QED
    BY <1>1, <2>3, ArithIs DEF EvalAssignment
<1>2. CASE /\ Len(ts) = 1 /\ a.op = "copy"
           /\ \/ ts[1].k = "column" /\ Position(schema, ts[1].n) # 0 /\ a.left = Operand(Position(schema, ts[1].n), NullValue)
              \/ a.left \in {Operand(0, x) : x \in ParseLiteralChecked(ts[1], type)}
  <2>0. Len(ts) = 1
    BY <1>2, Zenon
  <2>1. 1 \in 1..Len(ts)
    BY <2>0
  <2>2. IsInt(ts[1].v)
    BY <2>1, TokenIs
  <2>3. IsInt(OperandValue(a.left, row))
    BY <1>2, <2>2, OperandIs
  <2> QED
    BY <1>2, <2>3 DEF EvalAssignment
<1> QED
  BY <1>1, <1>2, CompiledIs

(* The new row of an UPDATE: each column is what its last assignment gives. *)
SetText(set) == IsSeq(set) /\ \A i \in DOMAIN set : IsText(set[i][2])

Given(stmt, schema, row, new, i) ==
  LET assigning == {k \in DOMAIN stmt.set : At(schema, stmt.set[k][1]) = i}
  IN IF assigning = {} THEN new[i] = row[i]
     ELSE \E a \in CompileAssignment(stmt.set[Max(assigning)][2], schema, schema[i].type) : new[i] \in EvalAssignment(a, row)

LEMMA NewRowIs ==
    ASSUME NEW stmt, NEW schema, IsSeq(schema), SetText(stmt.set), NEW row, IsRow(row, schema),
           \A i \in DOMAIN stmt.set : Assignments(stmt, schema)[i] # {}, NEW new \in NewRow(stmt, schema, row)
    PROVE  /\ IsRow(new, schema)
           /\ PkOf(schema) \in DOMAIN row => new[PkOf(schema)] = row[PkOf(schema)]
           /\ \A i \in DOMAIN row : Given(stmt, schema, row, new, i)
<1> DEFINE set == stmt.set
           n == Len(set)
           compiled == Assignments(stmt, schema)
           values == [i \in DOMAIN set |-> EvalAssignment(CHOOSE a \in compiled[i] : TRUE, row)]
           By(i) == {k \in DOMAIN set : At(schema, set[k][1]) = i}
<1>1. new = Assign(row, set, schema, values) /\ {} \notin ToSet(values)
  BY Zenon DEF NewRow
<1>2. IsSeq(set) /\ n \in Nat /\ DOMAIN set = 1..n
  BY SeqIs DEF SetText
<1>3. ASSUME NEW k \in DOMAIN set
      PROVE  /\ At(schema, set[k][1]) \notin {0, PkOf(schema)}
             /\ \E a \in CompileAssignment(set[k][2], schema, schema[At(schema, set[k][1])].type) :
                  (CHOOSE x \in values[k] : TRUE) \in EvalAssignment(a, row)
             /\ IsInt(CHOOSE x \in values[k] : TRUE)
  <2>1. compiled[k] # {}
    OBVIOUS
  <2>2. compiled[k] = IF At(schema, set[k][1]) \in {0, PkOf(schema)} THEN {}
                      ELSE CompileAssignment(set[k][2], schema, schema[At(schema, set[k][1])].type)
    BY DEF Assignments
  <2> DEFINE a == CHOOSE x \in compiled[k] : TRUE
             v == CHOOSE x \in values[k] : TRUE
  <2>3. values[k] = EvalAssignment(a, row) /\ values[k] \in ToSet(values)
    BY DEF ToSet
  <2>4. values[k] # {}
    BY <1>1, <2>3
  <2>5. v \in values[k] /\ a \in compiled[k]
    BY <2>1, <2>4
  <2>6. IsText(set[k][2])
    BY DEF SetText
  <2> HIDE DEF a, v, values, compiled
  <2>7. a \in CompileAssignment(set[k][2], schema, schema[At(schema, set[k][1])].type) /\ v \in EvalAssignment(a, row)
    BY <2>1, <2>2, <2>3, <2>5
  <2>8. IsInt(v)
    BY <2>6, <2>7, EvaluatedIs
  <2> QED
    BY <2>1, <2>2, <2>7, <2>8 DEF v
<1> HIDE DEF values, compiled
<1>4. ASSUME NEW i \in DOMAIN row
      PROVE  /\ DOMAIN new = DOMAIN row
             /\ IF By(i) = {} THEN new[i] = row[i]
                ELSE Max(By(i)) \in By(i) /\ new[i] = CHOOSE x \in values[Max(By(i))] : TRUE
  <2>1. By(i) \in SUBSET (1..n)
    BY <1>2
  <2> DEFINE S == By(i)
  <2>2. \A k \in 1..n : k \in S <=> At(schema, set[k][1]) = i
    BY <1>2
  <2> HIDE DEF S
  <2>3. PICK k \in 0..n : (k # 0 => k \in S /\ k = Max(S)) /\ (k = 0 => S = {}) /\ \A j \in (k + 1)..n : j \notin S
    BY <1>2, <2>1, LastOf DEF S
  <2> HIDE DEF Max
  <2>4. k # 0 => At(schema, set[k][1]) = i
    BY <2>2, <2>3, <1>2
  <2>5. \A j \in (k + 1)..n : At(schema, set[j][1]) # i
    BY <2>2, <2>3, <1>2
  <2>6. DOMAIN new = DOMAIN row /\ new[i] = IF k = 0 THEN row[i] ELSE CHOOSE x \in values[k] : TRUE
    <3>1. LastAssigns(set, schema, i, k)
      BY <2>3, <2>4, <2>5 DEF LastAssigns
    <3> HIDE DEF set
    <3>2. IsSeq(set) /\ new = Assign(row, set, schema, values)
      BY <1>1, <1>2
    <3>3. DOMAIN new = DOMAIN row /\ new[i] = Assigns(row, values, i, k)
      BY <3>1, <3>2, AssignIs
    <3> QED
      BY <3>3 DEF Assigns
  <2> QED
    BY <2>3, <2>6 DEF S
<1>5. DOMAIN new = DOMAIN row
  <2>1. CASE DOMAIN row = {}
    <3>1. PICK g : Assigned(row, set, schema, values, g, n) /\ new = g[n]
      BY <1>1, <1>2, AssignedRuns
    <3> DEFINE Bad == {m \in Nat : m <= n /\ DOMAIN g[m] # DOMAIN row}
    <3>2. Bad = {}
      <4> SUFFICES ASSUME Bad # {} PROVE FALSE
        OBVIOUS
      <4>1. PICK m \in Bad : \A j \in Bad : m <= j
        BY NatMin
      <4>2. m # 0
        BY <3>1, <4>1 DEF Assigned
      <4>3. m - 1 \in Nat /\ m - 1 <= n /\ m \in 1..n /\ m - 1 \notin Bad
        BY <4>1, <4>2, <1>2
      <4>4. DOMAIN g[m] = DOMAIN g[m - 1]
        BY <3>1, <4>3 DEF Assigned, OneSet
      <4> QED
        BY <4>1, <4>3, <4>4
    <3> QED
      BY <3>1, <3>2, <1>2
  <2>2. CASE DOMAIN row # {}
    BY <1>4, <2>2
  <2> QED
    BY <2>1, <2>2
<1>6. ASSUME NEW i \in DOMAIN row PROVE IsInt(new[i])
  <2>1. CASE By(i) = {}
    BY <1>4, <2>1 DEF IsRow
  <2>2. CASE By(i) # {}
    <3>1. Max(By(i)) \in By(i) /\ new[i] = CHOOSE x \in values[Max(By(i))] : TRUE
      BY <1>4, <2>2
    <3> DEFINE k == Max(By(i))
    <3>2. k \in DOMAIN set
      BY <3>1
    <3> HIDE DEF k
    <3>3. IsInt(CHOOSE x \in values[k] : TRUE)
      BY <1>3, <3>2
    <3> QED
      BY <3>1, <3>3 DEF k
  <2> QED
    BY <2>1, <2>2
<1>7. IsRow(new, schema)
  BY <1>5, <1>6 DEF IsRow
<1>8. PkOf(schema) \in DOMAIN row => new[PkOf(schema)] = row[PkOf(schema)]
  <2>1. By(PkOf(schema)) = {}
    BY <1>3
  <2> QED
    BY <1>4, <2>1
<1>9. ASSUME NEW i \in DOMAIN row, By(i) # {}
      PROVE  /\ Max(By(i)) \in By(i)
             /\ \E a \in CompileAssignment(set[Max(By(i))][2], schema, schema[i].type) : new[i] \in EvalAssignment(a, row)
  <2>1. Max(By(i)) \in By(i) /\ new[i] = CHOOSE x \in values[Max(By(i))] : TRUE
    BY <1>4, <1>9
  <2> DEFINE k == Max(By(i))
  <2>2. k \in DOMAIN set /\ At(schema, set[k][1]) = i
    BY <2>1
  <2> HIDE DEF k
  <2>3. \E a \in CompileAssignment(set[k][2], schema, schema[i].type) : (CHOOSE x \in values[k] : TRUE) \in EvalAssignment(a, row)
    BY <1>3, <2>2
  <2> QED
    BY <2>1, <2>3 DEF k
<1> HIDE DEF Max
<1>10. \A i \in DOMAIN row : Given(stmt, schema, row, new, i)
  BY <1>4, <1>9 DEF Given
<1> QED
  BY <1>7, <1>8, <1>10

(* The rows a statement may change are rows of the table. *)
LEMMA MatchingIs ==
    ASSUME NEW stmt, NEW schema, NEW id, NEW contents, IsFiniteSet(DOMAIN contents)
    PROVE  LET S == Matching(stmt, schema, id, contents) IN
           IsSeq(SetToSeq(S)) /\ ToSet(SetToSeq(S)) \subseteq DOMAIN contents
<1> DEFINE S == Matching(stmt, schema, id, contents)
<1>1. S \subseteq DOMAIN contents
  <2>1. Candidates(stmt, schema, id, contents) \subseteq DOMAIN contents
    BY Zenon DEF Candidates
  <2> QED
    BY <2>1 DEF Matching
<1> HIDE DEF S
<1>2. IsFiniteSet(S)
  BY <1>1, FS_Subset
<1>3. Bijection(1 .. Cardinality(S), S) # {}
  BY <1>2, FS_CardinalityType DEF ExistsBijection
<1>4. \E f \in [1 .. Cardinality(S) -> S] : IsInjective(f)
  BY <1>3 DEF Bijection, Injection
<1>5. SetToSeq(S) \in [1 .. Cardinality(S) -> S]
  BY <1>4 DEF SetToSeq
<1>6. Cardinality(S) \in Nat
  BY <1>2, FS_CardinalityType
<1>7. IsSeq(SetToSeq(S))
  <2>1. SetToSeq(S) = [i \in 1..Cardinality(S) |-> SetToSeq(S)[i]]
    BY <1>5
  <2> QED
    BY <2>1, <1>6, SeqMade
<1>8. ToSet(SetToSeq(S)) \subseteq S
  BY <1>5 DEF ToSet
<1> QED
  BY <1>1, <1>7, <1>8 DEF S

(* The newest version of a row is keyed like the others. *)
LEMMA ContentsAre ==
    ASSUME NEW tables, NEW id, NEW schema, id \in DOMAIN tables => Keyed(tables[id], schema)
    PROVE  /\ IsFiniteSet(DOMAIN Contents(tables, id))
           /\ \A r \in DOMAIN Contents(tables, id) : KeyedBy(Contents(tables, id)[r], schema, r)
           /\ id \notin DOMAIN tables => DOMAIN Contents(tables, id) = {}
<1>1. CASE id \in DOMAIN tables
  <2>1. \A r \in DOMAIN tables[id] : Last(tables[id][r]) \in ToSet(tables[id][r])
    BY <1>1, FrontIs DEF Keyed
  <2> QED
    BY <1>1, <2>1 DEF Contents, Keyed
<1>2. CASE id \notin DOMAIN tables
  BY <1>2, FS_EmptySet DEF Contents, Empty
<1> QED
  BY <1>1, <1>2

(* The write set of an UPDATE: no assignment is to the primary key, or the
   statement would have been refused. *)
LEMMA UpdateOpsAre ==
    ASSUME NEW stmt, NEW schema, IsSeq(schema), NEW id, NEW contents, SetText(stmt.set), IsFiniteSet(DOMAIN contents),
           \A r \in DOMAIN contents : KeyedBy(contents[r], schema, r),
           NEW ops \in UpdateOps(stmt, schema, id, contents)
    PROVE  /\ IsWriteSet(ops, id, schema) /\ OfKind(ops, "update", DOMAIN contents)
           /\ \A i \in DOMAIN stmt.set : Assignments(stmt, schema)[i] # {}
<1> DEFINE rows == SetToSeq(Matching(stmt, schema, id, contents))
           New(k) == NewRow(stmt, schema, contents[rows[k]])
           n == Len(rows)
<1>1. /\ \A i \in DOMAIN stmt.set : Assignments(stmt, schema)[i] # {}
      /\ \A r \in ToSet(rows) : NewRow(stmt, schema, contents[r]) # {}
      /\ ops = [k \in DOMAIN rows |-> WriteOp("Update", id, rows[k], CHOOSE x \in New(k) : TRUE)]
  BY Zenon DEF UpdateOps
<1>2. IsSeq(rows) /\ ToSet(rows) \subseteq DOMAIN contents
  BY MatchingIs
<1>3. n \in Nat /\ DOMAIN rows = 1..n
  BY <1>2, SeqIs
<1> HIDE DEF rows, n
<1>5. ASSUME NEW k \in 1..n PROVE OpFits(ops[k], id, schema) /\ ops[k].op = "Update" /\ ops[k].id \in DOMAIN contents
  <2>1. rows[k] \in ToSet(rows) /\ rows[k] \in DOMAIN contents
    BY <1>2, <1>3 DEF ToSet
  <2> DEFINE row == contents[rows[k]]
             new == CHOOSE x \in New(k) : TRUE
  <2>2. KeyedBy(row, schema, rows[k]) /\ New(k) # {}
    BY <2>1, <1>1
  <2>3. new \in New(k)
    BY <2>2
  <2> HIDE DEF new, row
  <2>4. IsRow(row, schema) /\ PkOf(schema) # 0 /\ row[PkOf(schema)].t = "Integer"
    BY <2>2 DEF KeyedBy, IsRow, RowId
  <2>5. IsRow(new, schema) /\ new[PkOf(schema)] = row[PkOf(schema)]
    <3>1. PkOf(schema) \in DOMAIN row
      BY <2>4, PkIs DEF IsRow
    <3>2. new \in NewRow(stmt, schema, row)
      BY <2>3 DEF row
    <3> QED
      BY <1>1, <2>4, <3>1, <3>2, NewRowIs
  <2>6. KeyedBy(new, schema, rows[k])
    BY <2>2, <2>5 DEF KeyedBy, RowId, IsRow
  <2>7. ops[k] = WriteOp("Update", id, rows[k], new)
    BY <1>1, <1>3 DEF new
  <2> QED
    BY <2>1, <2>6, <2>7 DEF OpFits, WriteOp
<1>6. IsSeq(ops) /\ Len(ops) = n
  <2>1. ops = [k \in 1..n |-> ops[k]]
    BY <1>1, <1>3
  <2> QED
    BY <2>1, <1>3, SeqMade
<1> QED
  BY <1>1, <1>5, <1>6 DEF IsWriteSet, OfKind

(* The write set of a DELETE. *)
LEMMA DeleteOpsAre ==
    ASSUME NEW stmt, NEW schema, NEW id, NEW contents, IsFiniteSet(DOMAIN contents),
           NEW ops \in DeleteOps(stmt, schema, id, contents)
    PROVE  IsWriteSet(ops, id, schema) /\ \A found : OfKind(ops, "delete", found)
<1> DEFINE rows == SetToSeq(Matching(stmt, schema, id, contents))
<1>1. ops = [k \in DOMAIN rows |-> WriteOp("Delete", id, rows[k], <<>>)]
  BY Zenon DEF DeleteOps
<1>2. IsSeq(rows)
  BY MatchingIs
<1> HIDE DEF rows
<1>3. Len(rows) \in Nat /\ DOMAIN rows = 1..Len(rows)
  BY <1>2, SeqIs
<1>4. IsSeq(ops) /\ Len(ops) = Len(rows)
  <2>1. ops = [k \in 1..Len(rows) |-> ops[k]]
    BY <1>1, <1>3
  <2> QED
    BY <2>1, <1>3, SeqMade
<1>5. ASSUME NEW k \in 1..Len(rows) PROVE OpFits(ops[k], id, schema) /\ ops[k].op = "Delete"
  <2>1. ops[k] = WriteOp("Delete", id, rows[k], <<>>)
    BY <1>1, <1>3
  <2> QED
    BY <2>1 DEF OpFits, WriteOp
<1> QED
  BY <1>4, <1>5 DEF IsWriteSet, OfKind

------------------------------------------------------------------------------
(* Records. *)
(* What replaying one more record of each kind does to the replayed state: a
   CREATE TABLE has an id nobody has, as it is above all of them. *)
Replayed(c, n, t, p) == [catalog |-> c, names |-> n, store |-> t, specs |-> p]

LEMMA EmptyIsKeyed == ASSUME NEW schema PROVE Keyed(Empty, schema)
BY FS_EmptySet DEF Keyed, Empty

LEMMA FreshId ==
    ASSUME NEW s, Consistent(s), NEW id, id = Max({0} \cup DOMAIN s.catalog) + 1
    PROVE  id \notin DOMAIN s.catalog /\ id \in Nat
<1> DEFINE D == DOMAIN s.catalog
           top == Max({0} \cup D)
<1>1. IsFiniteSet(D) /\ D \subseteq Nat /\ id = top + 1
  BY DEF Consistent
<1> HIDE DEF D
<1>2. IsFiniteSet({0} \cup D)
  BY <1>1, FS_Union, FS_Singleton, Zenon
<1>3. {0} \cup D \in SUBSET Nat
  BY <1>1
<1>4. top \in {0} \cup D /\ \A k \in {0} \cup D : k <= top
  BY <1>2, <1>3, MaxIs
<1> HIDE DEF top
<1>5. top \in Nat /\ \A k \in D : k \in Nat /\ k <= top
  BY <1>1, <1>3, <1>4
<1>6. id \notin D /\ id \in Nat
  BY <1>1, <1>5
<1> QED
  BY <1>6 DEF D

LEMMA RedoCreates ==
    ASSUME NEW s, Consistent(s), NEW schema, IsSchema(schema.columns), schema.name \notin DOMAIN s.names,
           NEW id, id = Max({0} \cup DOMAIN s.catalog) + 1
    PROVE  LET t == Redo(s, [kind |-> "CreateTable", id |-> id, schema |-> schema]) IN
           /\ id \notin DOMAIN s.catalog
           /\ t = Replayed(Put(s.catalog, id, schema), Put(s.names, schema.name, id), Put(s.store, id, Empty), s.specs)
           /\ Consistent(t)
<1> DEFINE r == [kind |-> "CreateTable", id |-> id, schema |-> schema]
           c == Put(s.catalog, id, schema)
           n == Put(s.names, schema.name, id)
           t == Put(s.store, id, Empty)
<1>1. id \notin DOMAIN s.catalog /\ id \in Nat
  BY FreshId
<1>2. Redo(s, r) = Replayed(c, n, t, s.specs)
  <2>1. s = Replayed(s.catalog, s.names, s.store, s.specs)
    BY DEF Consistent, Replayed
  <2>2. r.kind = "CreateTable" /\ r.id = id /\ r.schema = schema
    OBVIOUS
  <2>3. Redo(s, r) = RegisterTable([s EXCEPT !.store = CreateInStore(s.store, id)], id, schema)
    BY <2>2 DEF Redo
  <2>4. CreateInStore(s.store, id) = t
    BY <1>1 DEF CreateInStore, Consistent
  <2>5. [s EXCEPT !.store = t] = Replayed(s.catalog, s.names, t, s.specs)
    BY <2>1 DEF Replayed
  <2> QED
    BY <2>3, <2>4, <2>5 DEF RegisterTable, Replayed
<1>3. /\ DOMAIN c = DOMAIN s.catalog \cup {id} /\ c[id] = schema /\ \A x \in DOMAIN s.catalog : c[x] = s.catalog[x]
      /\ DOMAIN n = DOMAIN s.names \cup {schema.name} /\ n[schema.name] = id /\ \A x \in DOMAIN s.names : n[x] = s.names[x]
      /\ DOMAIN t = DOMAIN s.store \cup {id} /\ t[id] = Empty /\ \A x \in DOMAIN s.store : t[x] = s.store[x]
  <2>1. id \notin DOMAIN s.store
    BY <1>1 DEF Consistent
  <2> QED
    BY <1>1, <2>1 DEF Put
<1> HIDE DEF c, n, t
<1>4. Agree(c, n)
  <2>1. \A m \in DOMAIN s.names : s.names[m] \in DOMAIN s.catalog
    BY DEF Consistent, Agree
  <2>2. \A m \in DOMAIN n : c[n[m]].name = m
    BY <1>3, <2>1 DEF Consistent, Agree
  <2>3. {n[m] : m \in DOMAIN n} \subseteq DOMAIN c
    BY <1>3, <2>1
  <2>4. ASSUME NEW x \in DOMAIN c PROVE \E m \in DOMAIN n : n[m] = x
    <3>1. CASE x = id
      BY <3>1, <1>3
    <3>2. CASE x # id
      <4>1. x \in {s.names[m] : m \in DOMAIN s.names}
        BY <3>2, <1>3 DEF Consistent, Agree
      <4> QED
        BY <4>1, <1>3
    <3> QED
      BY <3>1, <3>2
  <2>5. {n[m] : m \in DOMAIN n} = DOMAIN c
    BY <2>3, <2>4
  <2> QED
    BY <2>2, <2>5 DEF Agree
<1>5. IsFiniteSet(DOMAIN c) /\ DOMAIN c \subseteq Nat /\ DOMAIN t = DOMAIN c
  BY <1>1, <1>3, FS_AddElement DEF Consistent
<1>6. \A x \in DOMAIN c : IsSchema(c[x].columns) /\ Keyed(t[x], c[x].columns)
  BY <1>3, EmptyIsKeyed DEF Consistent
<1>7. IsSeq(s.specs) /\ \A x \in ToSet(s.specs) : x[1] \in DOMAIN c /\ Position(c[x[1]].columns, Name(x[2])) # 0
  BY <1>3 DEF Consistent, Rebuildable
<1>8. Consistent(Replayed(c, n, t, s.specs))
  BY <1>4, <1>5, <1>6, <1>7 DEF Consistent, Replayed, Rebuildable
<1> QED
  BY <1>1, <1>2, <1>8 DEF c, n, t

(* A CREATE INDEX on a column that is there adds an index that can be rebuilt. *)
LEMMA RedoIndexes ==
    ASSUME NEW s, Consistent(s), NEW id, NEW column, Rebuildable(s, <<id, column>>)
    PROVE  LET t == Redo(s, [kind |-> "CreateIndex", id |-> id, column |-> column]) IN
           /\ t = Replayed(s.catalog, s.names, s.store, Append(s.specs, <<id, column>>))
           /\ ToSet(t.specs) = ToSet(s.specs) \cup {<<id, column>>}
           /\ Consistent(t)
<1> DEFINE r == [kind |-> "CreateIndex", id |-> id, column |-> column]
           p == Append(s.specs, <<id, column>>)
<1>1. Redo(s, r) = Replayed(s.catalog, s.names, s.store, p)
  <2>1. s = Replayed(s.catalog, s.names, s.store, s.specs)
    BY DEF Consistent, Replayed
  <2>2. r.kind = "CreateIndex" /\ r.id = id /\ r.column = column
    OBVIOUS
  <2>3. Redo(s, r) = [s EXCEPT !.specs = p]
    BY <2>2 DEF Redo
  <2> QED
    BY <2>1, <2>3 DEF Replayed
<1>2. IsSeq(p) /\ ToSet(p) = ToSet(s.specs) \cup {<<id, column>>}
  BY AppendIs DEF Consistent
<1> HIDE DEF p
<1>3. Consistent(Replayed(s.catalog, s.names, s.store, p))
  BY <1>2 DEF Consistent, Replayed, Rebuildable
<1>4. Replayed(s.catalog, s.names, s.store, p).specs = p
  BY DEF Replayed
<1>5. Redo(s, r).specs = p
  BY <1>1, <1>4
<1> QED
  BY <1>1, <1>2, <1>3, <1>5 DEF p

(* A write set on a table that is there changes its rows. *)
LEMMA RedoCommits ==
    ASSUME NEW s, Consistent(s), NEW ops, NEW id \in DOMAIN s.catalog, IsWriteSet(ops, id, s.catalog[id].columns)
    PROVE  LET t == Redo(s, [kind |-> "Commit", ops |-> ops]) IN
           /\ t = Replayed(s.catalog, s.names, ApplyWriteSet(s.store, ops), s.specs)
           /\ Consistent(t)
<1> DEFINE r == [kind |-> "Commit", ops |-> ops]
           t == ApplyWriteSet(s.store, ops)
<1>1. Redo(s, r) = Replayed(s.catalog, s.names, t, s.specs)
  <2>1. s = Replayed(s.catalog, s.names, s.store, s.specs)
    BY DEF Consistent, Replayed
  <2>2. r.kind = "Commit" /\ r.ops = ops
    OBVIOUS
  <2>3. Redo(s, r) = [s EXCEPT !.store = t]
    BY <2>2 DEF Redo
  <2> QED
    BY <2>1, <2>3 DEF Replayed
<1>2. id \in DOMAIN s.store /\ Keyed(s.store[id], s.catalog[id].columns)
  BY DEF Consistent
<1>3. DOMAIN t = DOMAIN s.store /\ \A x \in DOMAIN s.store \ {id} : t[x] = s.store[x]
  BY <1>2, WriteSetIs DEF IsWriteSet, OpFits
<1>4. Keyed(t[id], s.catalog[id].columns)
  BY <1>2, WriteSetKeeps
<1> HIDE DEF t
<1>5. Consistent(Replayed(s.catalog, s.names, t, s.specs))
  BY <1>3, <1>4 DEF Consistent, Replayed, Rebuildable
<1> QED
  BY <1>1, <1>5 DEF t

------------------------------------------------------------------------------
(* The invariant. *)
(* Replaying the log gives a database every index of which can be rebuilt,
   each row under its key. *)
LogIsSound == IsSeq(log) /\ Consistent(Replay(log))

(* The process has what the log gives; a table of the catalog that the store
   has not is empty and its CREATE TABLE is under way. *)
StoreIsReplayed ==
  LET s == Replay(log) IN
  /\ open => /\ catalog = s.catalog /\ names = s.names /\ DOMAIN store \subseteq DOMAIN catalog
             /\ \A id \in DOMAIN catalog : s.store[id] = IF id \in DOMAIN store THEN store[id] ELSE Empty
             /\ \A id \in DOMAIN catalog \ DOMAIN store :
                  \E c \in Sessions : session[c].at = "store" /\ session[c].id = id
  /\ ~open => catalog = Empty /\ names = Empty /\ store = Empty

(* What a session has bound: the table is there, values and columns match. *)
BoundIn(stmt, c, n) ==
  /\ stmt.kind = "create" => IsSeq(stmt.columns)
  /\ stmt.kind # "create" => stmt.table \in DOMAIN n
  /\ stmt.kind = "insert" => IsInsert(stmt, c[n[stmt.table]].columns)
  /\ stmt.kind = "update" => SetText(stmt.set)
  /\ stmt.kind \in {"update", "delete"} => IsText(stmt.where)

OrderedBy(s) == <<s.id, s.stmt.columns[1]>>
Building(s) == s.at \in {"build", "register"}
(* The sessions: closed ones are idle, what is bound stays bound, an index
   being built has been logged. *)
SessionFits(s, o, c, n, p) ==
  /\ s = [at |-> s.at, stmt |-> s.stmt, id |-> s.id, rows |-> s.rows, seen |-> s.seen]
  /\ ~o => s = Idle
  /\ s.at = "bound" => BoundIn(s.stmt, c, n)
  /\ s.at = "chat" => s.stmt \in Prompts
  /\ s.at = "store" => s.id \in DOMAIN c
  /\ Building(s) => OrderedBy(s) \in ToSet(p)
SessionIs(s) == SessionFits(s, open, catalog, names, Replay(log).specs)
SessionsAreSound == session = [c \in Sessions |-> session[c]] /\ \A c \in Sessions : SessionIs(session[c])

(* The indexes in use are those of the log, except for those a session builds. *)
IndexesFollowLog ==
  open => LET used == DOMAIN indexes \cup DOMAIN vectors IN
          /\ used \subseteq ToSet(Replay(log).specs)
          /\ \A x \in ToSet(Replay(log).specs) \ used : \E c \in Sessions : Building(session[c]) /\ OrderedBy(session[c]) = x

DbInv == LogIsSound /\ StoreIsReplayed /\ SessionsAreSound /\ IndexesFollowLog

------------------------------------------------------------------------------
(* What a session has bound. *)
(* A statement as the parser hands it over and as the parameters leave it. *)
Shaped(p) ==
  p = [kind |-> p.kind, table |-> p.table, columns |-> p.columns, rows |-> p.rows, set |-> p.set, where |-> p.where,
       prepared |-> p.prepared, params |-> p.params]
Converted(p) ==
  /\ Shaped(p)
  /\ p.kind = "create" => IsSeq(p.columns)
  /\ p.kind = "insert" => IsSeq(p.columns) /\ IsSeq(p.rows) /\ \A fields \in ToSet(p.rows) : IntFields(fields)
  /\ p.kind = "update" => SetText(p.set)
  /\ p.kind \in {"update", "delete"} => IsText(p.where)

(* A map over a sequence is a sequence as long. *)
LEMMA MadeIs == ASSUME NEW s, IsSeq(s), NEW t, t = [i \in DOMAIN s |-> t[i]] PROVE IsSeq(t) /\ Len(t) = Len(s)
BY SeqIs, SeqMade

LEMMA EmptyIsSeq == IsSeq(<<>>) /\ ToSet(<<>>) = {}
BY DEF IsSeq, ToSet

(* The parser keeps the lists of a tree lists. *)
LEMMA ConvertedIs ==
    ASSUME NEW tree, IsTree(tree), NEW p \in ConvertStatement(tree)
    PROVE  Converted(p)
<1>1. CASE tree.kind = "Insert"
  <2> DEFINE rows == IF tree.source.kind = "Values" THEN tree.source.rows ELSE <<>>
  <2>1. p = [Statement("insert", tree.table) EXCEPT !.columns = tree.columns, !.rows = rows]
    BY <1>1 DEF ConvertStatement, ConvertInsert
  <2>2. IsSeq(tree.columns) /\ IsSeq(rows) /\ \A fields \in ToSet(rows) : IntFields(fields)
    BY <1>1, EmptyIsSeq DEF IsTree, IntFields, IsText
  <2> HIDE DEF rows
  <2>3. Shaped(p) /\ p.kind = "insert" /\ p.columns = tree.columns /\ p.rows = rows
    BY <2>1 DEF Statement, Shaped
  <2> QED
    BY <2>2, <2>3 DEF Converted
<1>2. CASE tree.kind = "Update"
  <2>1. p = [Statement("update", TableFactorName(tree.from[1].relation)) EXCEPT !.set = tree.set, !.where = tree.where]
    BY <1>2 DEF ConvertStatement, ConvertUpdate
  <2>2. SetText(tree.set) /\ IsText(tree.where)
    <3>1. IsSeq(tree.set) /\ (\A a \in ToSet(tree.set) : IsText(a[2])) /\ IsText(tree.where)
      BY <1>2 DEF IsTree
    <3>2. \A i \in DOMAIN tree.set : tree.set[i] \in ToSet(tree.set)
      BY DEF ToSet
    <3> QED
      BY <3>1, <3>2 DEF SetText
  <2>3. Shaped(p) /\ p.kind = "update" /\ p.set = tree.set /\ p.where = tree.where
    BY <2>1 DEF Statement, Shaped
  <2> QED
    BY <2>2, <2>3 DEF Converted
<1>3. CASE tree.kind = "Delete"
  <2>1. p = [Statement("delete", TableFactorName(tree.from[1].relation)) EXCEPT !.where = tree.where]
    BY <1>3 DEF ConvertStatement, ConvertDelete
  <2>2. Shaped(p) /\ p.kind = "delete" /\ p.where = tree.where
    BY <2>1 DEF Statement, Shaped
  <2>3. IsText(tree.where)
    BY <1>3 DEF IsTree
  <2> QED
    BY <2>2, <2>3 DEF Converted
<1>4. CASE tree.kind = "CreateTable"
  <2> DEFINE columns == [i \in DOMAIN tree.columns |-> ConvertColumn(tree.columns[i])]
  <2>1. p = [Statement("create", tree.name) EXCEPT !.columns = columns]
    BY <1>4 DEF ConvertStatement, ConvertCreateTable
  <2>2. IsSeq(tree.columns)
    BY <1>4 DEF IsTree
  <2>3. columns = [i \in DOMAIN tree.columns |-> columns[i]]
    OBVIOUS
  <2> HIDE DEF columns
  <2>4. IsSeq(columns)
    BY <2>2, <2>3, MadeIs
  <2>5. Shaped(p) /\ p.kind = "create" /\ p.columns = columns
    BY <2>1 DEF Statement, Shaped
  <2> QED
    BY <2>4, <2>5 DEF Converted
<1>5. CASE tree.kind = "CreateIndex"
  <2>1. p = [Statement("index", tree.table) EXCEPT !.columns = <<tree.columns[1]>>]
    BY <1>5 DEF ConvertStatement, ConvertCreateIndex
  <2>2. Shaped(p) /\ p.kind = "index"
    BY <2>1 DEF Statement, Shaped
  <2> QED
    BY <2>2 DEF Converted
<1> QED
  BY <1>1, <1>2, <1>3, <1>4, <1>5 DEF ConvertStatement

(* Parameters take the place of placeholders token by token. *)
LEMMA SubstituteIs ==
    ASSUME NEW ts, NEW params, NEW next, IsText(ts), \A value \in ToSet(params) : IsInt(value)
    PROVE  IsText(Substitute(ts, params, next))
<1> DEFINE s == Substitute(ts, params, next)
           Place(i) == IF ts[i].v.v # 0 THEN ts[i].v.v ELSE next + Len(PlaceholdersOf(SubSeq(ts, 1, i), TRUE))
           Asked(i) == ts[i].k = "placeholder" /\ Place(i) \in DOMAIN params
<1>1. s = [i \in DOMAIN ts |-> IF Asked(i) THEN LiteralRepr(params[Place(i)]) ELSE ts[i]]
  BY Zenon DEF Substitute
<1> HIDE DEF s
<1>2. ASSUME NEW i \in DOMAIN ts PROVE IsInt(s[i].v)
  <2>1. CASE Asked(i)
    <3> DEFINE value == params[Place(i)]
    <3>1. value \in ToSet(params)
      BY <2>1, Zenon DEF ToSet
    <3>2. s[i] = LiteralRepr(value)
      BY <1>1, <2>1
    <3> HIDE DEF value
    <3>3. IsInt(NullValue)
      BY DEF IsInt, NullValue, Val
    <3>4. LiteralRepr(value).v \in {NullValue, value}
      BY DEF LiteralRepr, NullWord, Lit, Tok
    <3> QED
      BY <3>1, <3>2, <3>3, <3>4
  <2>2. CASE ~Asked(i)
    <3>1. s[i] = ts[i]
      BY <1>1, <2>2
    <3>2. ts[i] \in ToSet(ts)
      BY DEF ToSet
    <3> QED
      BY <3>1, <3>2 DEF IsText
  <2> QED
    BY <2>1, <2>2
<1>3. DOMAIN s = DOMAIN ts /\ s = [i \in DOMAIN ts |-> s[i]]
  BY <1>1
<1>4. IsSeq(s)
  BY <1>3, MadeIs DEF IsText
<1>5. \A token \in ToSet(s) : IsInt(token.v)
  BY <1>2, <1>3 DEF ToSet
<1> QED
  BY <1>4, <1>5 DEF s, IsText

(* Binding parameters changes neither the kind, the table and the columns of a
   statement nor the number of its rows and values. *)
LEMMA BindIs ==
    ASSUME NEW p, Converted(p), \A value \in ToSet(p.params) : IsInt(value)
    PROVE  LET b == Bind(p) IN
           /\ b.kind = p.kind /\ b.table = p.table /\ b.columns = p.columns
           /\ p.kind = "update" => SetText(b.set)
           /\ p.kind \in {"update", "delete"} => IsText(b.where)
           /\ p.kind = "insert" => /\ IsSeq(b.rows) /\ Len(b.rows) = Len(p.rows)
                                   /\ \A k \in DOMAIN b.rows : k \in DOMAIN p.rows /\ Len(b.rows[k]) = Len(p.rows[k])
                                                               /\ IntFields(b.rows[k])
<1> DEFINE b == Bind(p)
           fields == Fields(p)
           Before(k) == Len(PlaceholdersOf(FlattenSeq(SubSeq(fields, 1, k - 1)), TRUE))
           New(field, k) == Substitute(field, p.params, Before(k))
           values == Len(FlattenSeq(p.rows))
           Offset(i) == Len(FlattenSeq(SubSeq(p.rows, 1, i - 1)))
           Row(i) == [j \in DOMAIN p.rows[i] |-> New(p.rows[i][j], Offset(i) + j)]
           rows == [i \in DOMAIN p.rows |-> Row(i)]
           set == [i \in DOMAIN p.set |-> <<p.set[i][1], New(p.set[i][2], values + i)>>]
           where == New(p.where, Len(fields))
<1>1. b = [p EXCEPT !.rows = rows, !.set = set, !.where = where]
  BY Zenon DEF Bind
<1>2. set = [i \in DOMAIN p.set |-> set[i]] /\ DOMAIN set = DOMAIN p.set
  OBVIOUS
<1>3. rows = [i \in DOMAIN p.rows |-> rows[i]] /\ DOMAIN rows = DOMAIN p.rows /\ \A i \in DOMAIN p.rows : rows[i] = Row(i)
  OBVIOUS
<1>4. ASSUME NEW fs, IntFields(fs), NEW row, DOMAIN row = DOMAIN fs,
             row = [j \in DOMAIN fs |-> row[j]],
             \A j \in DOMAIN fs : \E n : row[j] = Substitute(fs[j], p.params, n)
      PROVE  IntFields(row) /\ Len(row) = Len(fs)
  <2>1. IsSeq(row) /\ Len(row) = Len(fs)
    BY <1>4, MadeIs DEF IntFields
  <2>2. ASSUME NEW j \in DOMAIN fs PROVE IsText(row[j])
    <3>1. PICK n : row[j] = Substitute(fs[j], p.params, n)
      BY <1>4
    <3>2. fs[j] \in ToSet(fs)
      BY DEF ToSet
    <3> QED
      BY <3>1, <3>2, <1>4, SubstituteIs DEF IntFields
  <2>3. \A field \in ToSet(row) : IsText(field)
    BY <2>2, <1>4 DEF ToSet
  <2> QED
    BY <2>1, <2>3 DEF IntFields
<1>5. ASSUME NEW i \in DOMAIN p.rows, IntFields(p.rows[i]) PROVE IntFields(Row(i)) /\ Len(Row(i)) = Len(p.rows[i])
  <2> DEFINE row == Row(i)
  <2>1. \A j \in DOMAIN p.rows[i] : row[j] = New(p.rows[i][j], Offset(i) + j)
    BY Zenon
  <2>2. DOMAIN row = DOMAIN p.rows[i] /\ row = [j \in DOMAIN p.rows[i] |-> row[j]]
    OBVIOUS
  <2>3. \A j \in DOMAIN p.rows[i] : \E n : row[j] = Substitute(p.rows[i][j], p.params, n)
    BY <2>1, Zenon
  <2> HIDE DEF row
  <2>4. IntFields(row) /\ Len(row) = Len(p.rows[i])
    BY <2>2, <2>3, <1>4, <1>5
  <2> QED
    BY <2>4 DEF row
<1>10. IsText(p.where) => IsText(where)
  BY SubstituteIs
<1>11. \A i \in DOMAIN p.set : IsText(p.set[i][2]) => IsText(New(p.set[i][2], values + i))
  BY SubstituteIs
<1>12. \A i \in DOMAIN p.set : set[i] = <<p.set[i][1], New(p.set[i][2], values + i)>>
  BY Zenon
<1> HIDE DEF rows, set, where, b, Row
<1>6. b.kind = p.kind /\ b.table = p.table /\ b.columns = p.columns /\ b.rows = rows /\ b.set = set /\ b.where = where
  BY <1>1 DEF Converted, Shaped
<1>7. p.kind = "update" => SetText(set)
  <2> SUFFICES ASSUME p.kind = "update" PROVE SetText(set)
    OBVIOUS
  <2>1. SetText(p.set)
    BY DEF Converted
  <2>2. IsSeq(set)
    BY <1>2, <2>1, MadeIs DEF SetText
  <2>3. ASSUME NEW i \in DOMAIN set PROVE IsText(set[i][2])
    <3> DEFINE new == New(p.set[i][2], values + i)
    <3>1. set[i] = <<p.set[i][1], new>> /\ IsText(new)
      BY <1>2, <1>11, <1>12, <2>1 DEF SetText
    <3> HIDE DEF new
    <3> QED
      BY <3>1
  <2> QED
    BY <2>2, <2>3 DEF SetText
<1>13. p.kind \in {"update", "delete"} => IsText(where)
  BY <1>10 DEF Converted
<1>8. ASSUME p.kind = "insert" PROVE IsSeq(rows) /\ Len(rows) = Len(p.rows)
  BY <1>3, <1>8, MadeIs DEF Converted
<1>9. ASSUME p.kind = "insert", NEW k \in DOMAIN rows PROVE k \in DOMAIN p.rows /\ Len(rows[k]) = Len(p.rows[k]) /\ IntFields(rows[k])
  <2>1. k \in DOMAIN p.rows
    BY <1>3, <1>9
  <2>2. p.rows[k] \in ToSet(p.rows)
    BY <2>1 DEF ToSet
  <2>3. IntFields(p.rows[k])
    BY <2>2, <1>9 DEF Converted
  <2> QED
    BY <2>1, <2>3, <1>3, <1>5
<1> QED
  BY <1>6, <1>7, <1>8, <1>9, <1>13 DEF b

(* Receive leaves a session idle or with a statement that fits the catalog. *)
Sound(s) ==
  /\ s = [at |-> s.at, stmt |-> s.stmt, id |-> s.id, rows |-> s.rows, seen |-> s.seen]
  /\ s.at \in {"idle", "bound"}
  /\ s.at = "bound" => BoundIn(s.stmt, catalog, names)

LEMMA IdleIs == Sound(Idle) /\ Idle.at = "idle"
BY DEF Sound, Idle

(* parse, bind and count parameters, for every statement. *)
LEMMA AcceptedIs ==
    ASSUME NEW sent, IsTree(sent.tree), \A value \in ToSet(sent.params) : IsInt(value)
    PROVE  Sound(Accepted(sent))
<1> DEFINE parsed == {[p EXCEPT !.prepared = sent.prepared, !.params = sent.params] : p \in ConvertStatement(sent.tree)}
           fit == {p \in parsed : Binds(p) /\ ParametersFit(p)}
           chosen == CHOOSE p \in fit : TRUE
<1>1. Accepted(sent) = IF fit = {} THEN Idle ELSE [Idle EXCEPT !.at = "bound", !.stmt = Bind(chosen)]
  BY Zenon DEF Accepted
<1>2. CASE fit = {}
  BY <1>1, <1>2, IdleIs
<1>3. CASE fit # {}
  <2>1. chosen \in fit
    BY <1>3
  <2>2. PICK p \in ConvertStatement(sent.tree) : chosen = [p EXCEPT !.prepared = sent.prepared, !.params = sent.params]
    BY <2>1
  <2>3. Binds(chosen)
    BY <2>1
  <2>4. Accepted(sent) = [Idle EXCEPT !.at = "bound", !.stmt = Bind(chosen)]
    BY <1>1, <1>3
  <2> HIDE DEF fit, chosen
  <2>5. Converted(p)
    BY ConvertedIs
  <2>6. Converted(chosen) /\ chosen.params = sent.params
    BY <2>2, <2>5 DEF Converted, Shaped
  <2> DEFINE b == Bind(chosen)
  <2>7. /\ b.kind = chosen.kind /\ b.table = chosen.table /\ b.columns = chosen.columns
        /\ chosen.kind = "update" => SetText(b.set)
        /\ chosen.kind \in {"update", "delete"} => IsText(b.where)
        /\ chosen.kind = "insert" =>
             /\ IsSeq(b.rows) /\ Len(b.rows) = Len(chosen.rows)
             /\ \A k \in DOMAIN b.rows : k \in DOMAIN chosen.rows /\ Len(b.rows[k]) = Len(chosen.rows[k]) /\ IntFields(b.rows[k])
    BY <2>6, BindIs
  <2> HIDE DEF b
  <2>8. chosen.kind # "create" => chosen.table \in DOMAIN names
    BY <2>3 DEF Binds
  <2>9. ASSUME chosen.kind = "insert" PROVE IsInsert(b, TableNamed(chosen.table))
    <3> DEFINE width == Len(IF chosen.columns = <<>> THEN TableNamed(chosen.table) ELSE chosen.columns)
    <3>1. \A row \in ToSet(chosen.rows) : Len(row) = width
      BY <2>3, <2>9 DEF Binds
    <3> HIDE DEF width
    <3>2. \A fields \in ToSet(b.rows) : IntFields(fields) /\ Len(fields) = width
      BY <3>1, <2>7, <2>9 DEF ToSet
    <3>3. IsSeq(b.columns) /\ IsSeq(b.rows) /\ b.columns = chosen.columns
      BY <2>6, <2>7, <2>9 DEF Converted
    <3> QED
      BY <3>2, <3>3 DEF IsInsert, width
  <2>10. BoundIn(b, catalog, names)
    BY <2>6, <2>7, <2>8, <2>9 DEF BoundIn, Converted, TableNamed
  <2>11. Accepted(sent) = [at |-> "bound", stmt |-> b, id |-> 0, rows |-> <<>>, seen |-> <<>>]
    BY <2>4 DEF Idle, b
  <2> QED
    BY <2>10, <2>11 DEF Sound
<1> QED
  BY <1>2, <1>3

------------------------------------------------------------------------------
(* The steps. *)
(* The database starts closed, on a log of an earlier life. *)
LEMMA DbInit == ASSUME Init PROVE DbInv
<1>1. IsSeq(log) /\ Consistent(Replay(log))
  BY LogAssumption DEF Init
<1>2. ~open /\ catalog = Empty /\ names = Empty /\ store = Empty /\ session = [c \in Sessions |-> Idle]
  BY DEF Init
<1>3. ASSUME NEW c \in Sessions PROVE SessionIs(session[c])
  BY <1>2 DEF SessionIs, SessionFits, Idle, Building
<1>4. session = [c \in Sessions |-> session[c]]
  BY <1>2
<1> QED
  BY <1>1, <1>2, <1>3, <1>4 DEF DbInv, LogIsSound, StoreIsReplayed, SessionsAreSound, IndexesFollowLog

(* Steps that move a session and leave the log, the catalog, the store and the
   set of indexes. *)
LEMMA QuietStep ==
    ASSUME DbInv, NEW c \in Sessions, NEW s, session' = [session EXCEPT ![c] = s], SessionIs(s),
           UNCHANGED <<log, open, catalog, names, store>>,
           DOMAIN indexes' = DOMAIN indexes, DOMAIN vectors' = DOMAIN vectors,
           session[c].at # "store",
           Building(session[c]) => Building(s) /\ OrderedBy(s) = OrderedBy(session[c])
    PROVE  DbInv'
<1>1. /\ session' = [d \in Sessions |-> session'[d]] /\ session'[c] = s
      /\ \A d \in Sessions \ {c} : session'[d] = session[d]
  BY DEF DbInv, SessionsAreSound
<1>3. SessionsAreSound'
  <2>1. \A d \in Sessions : SessionIs(session[d])
    BY DEF DbInv, SessionsAreSound
  <2>2. ASSUME NEW d \in Sessions PROVE SessionIs(session[d])'
    <3>1. SessionIs(session'[d])
      BY <1>1, <2>1
    <3> QED
      BY <3>1 DEF SessionIs
  <2> QED
    BY <1>1, <2>2 DEF SessionsAreSound
<1>4. LogIsSound'
  BY DEF DbInv, LogIsSound
<1>5. StoreIsReplayed'
  <2>1. ASSUME open, NEW id \in DOMAIN catalog \ DOMAIN store
        PROVE  \E d \in Sessions : session'[d].at = "store" /\ session'[d].id = id
    <3>1. PICK d \in Sessions : session[d].at = "store" /\ session[d].id = id
      BY <2>1 DEF DbInv, StoreIsReplayed
    <3> QED
      BY <3>1, <1>1
  <2> QED
    BY <2>1 DEF DbInv, StoreIsReplayed
<1>6. IndexesFollowLog'
  <2>1. ASSUME open, NEW x \in ToSet(Replay(log).specs) \ (DOMAIN indexes \cup DOMAIN vectors)
        PROVE  \E d \in Sessions : Building(session'[d]) /\ OrderedBy(session'[d]) = x
    <3>1. PICK d \in Sessions : Building(session[d]) /\ OrderedBy(session[d]) = x
      BY <2>1 DEF DbInv, IndexesFollowLog
    <3>2. CASE d = c
      BY <3>1, <3>2, <1>1
    <3>3. CASE d # c
      BY <3>1, <3>3, <1>1
    <3> QED
      BY <3>2, <3>3
  <2>2. IndexesFollowLog' <=>
          (open => /\ DOMAIN indexes \cup DOMAIN vectors \subseteq ToSet(Replay(log).specs)
                   /\ \A x \in ToSet(Replay(log).specs) \ (DOMAIN indexes \cup DOMAIN vectors) :
                        \E d \in Sessions : Building(session'[d]) /\ OrderedBy(session'[d]) = x)
    BY DEF IndexesFollowLog, Building, OrderedBy
  <2> QED
    BY <2>1, <2>2 DEF DbInv, IndexesFollowLog
<1> QED
  BY <1>3, <1>4, <1>5, <1>6 DEF DbInv

(* A session that is idle or bound builds no index. *)
LEMMA SoundIs == ASSUME NEW s, Sound(s), open PROVE SessionIs(s) /\ ~Building(s)
BY DEF Sound, SessionIs, SessionFits, Building

(* The session takes a statement. *)
LEMMA ReceiveStep == ASSUME DbInv, NEW c \in Sessions, NEW sent \in Statements, Receive(c, sent) PROVE DbInv'
<1>1. Sound(Accepted(sent))
  BY AcceptedIs, StatementsAssumption
<1>2. SessionIs(Accepted(sent))
  BY <1>1, SoundIs DEF Receive
<1>3. session' = [session EXCEPT ![c] = Accepted(sent)] /\ session[c].at = "idle"
      /\ UNCHANGED <<log, open, catalog, names, store>>
      /\ DOMAIN indexes' = DOMAIN indexes /\ DOMAIN vectors' = DOMAIN vectors
  BY DEF Receive
<1>4. ~Building(session[c]) /\ session[c].at # "store"
  BY <1>3 DEF Building
<1> QED
  BY <1>2, <1>3, <1>4, QuietStep

(* Only an open database has a session at work. *)
LEMMA IsOpen == ASSUME DbInv, NEW c \in Sessions, session[c].at # "idle" PROVE open /\ SessionIs(session[c])
BY DEF DbInv, SessionsAreSound, SessionIs, SessionFits, Idle

(* A session with one or two of its fields changed. *)
AsSession(z) == z = [at |-> z.at, stmt |-> z.stmt, id |-> z.id, rows |-> z.rows, seen |-> z.seen]
LEMMA RowsMove ==
    ASSUME NEW z, AsSession(z), NEW x
    PROVE  [z EXCEPT !.rows = x] = [at |-> z.at, stmt |-> z.stmt, id |-> z.id, rows |-> x, seen |-> z.seen]
BY DEF AsSession
LEMMA SeenMoves ==
    ASSUME NEW z, AsSession(z), NEW x, NEW y
    PROVE  [z EXCEPT !.at = x, !.seen = y] = [at |-> x, stmt |-> z.stmt, id |-> z.id, rows |-> z.rows, seen |-> y]
<1> DEFINE w == [z EXCEPT !.at = x]
<1>1. w = [at |-> x, stmt |-> z.stmt, id |-> z.id, rows |-> z.rows, seen |-> z.seen]
  BY DEF AsSession
<1>2. [z EXCEPT !.at = x, !.seen = y] = [w EXCEPT !.seen = y]
  BY Zenon
<1> HIDE DEF w
<1>3. [w EXCEPT !.seen = y] = [at |-> x, stmt |-> z.stmt, id |-> z.id, rows |-> z.rows, seen |-> y]
  BY <1>1
<1> QED
  BY <1>2, <1>3
LEMMA IdMoves ==
    ASSUME NEW z, AsSession(z), NEW x, NEW y
    PROVE  [z EXCEPT !.at = x, !.id = y] = [at |-> x, stmt |-> z.stmt, id |-> y, rows |-> z.rows, seen |-> z.seen]
<1> DEFINE w == [z EXCEPT !.at = x]
<1>1. w = [at |-> x, stmt |-> z.stmt, id |-> z.id, rows |-> z.rows, seen |-> z.seen]
  BY DEF AsSession
<1>2. [z EXCEPT !.at = x, !.id = y] = [w EXCEPT !.id = y]
  BY Zenon
<1> HIDE DEF w
<1>3. [w EXCEPT !.id = y] = [at |-> x, stmt |-> z.stmt, id |-> y, rows |-> z.rows, seen |-> z.seen]
  BY <1>1
<1> QED
  BY <1>2, <1>3

(* The steps that only move the session: the scan of a CREATE INDEX, the
   entries of a write, the return. *)
LEMMA ScanStep == ASSUME DbInv, NEW c \in Sessions, ScanForIndex(c) PROVE DbInv'
<1> DEFINE s == [session[c] EXCEPT !.at = "register", !.seen = Contents(store, session[c].id)]
<1>1. session[c].at = "build" /\ session' = [session EXCEPT ![c] = s]
      /\ UNCHANGED <<log, open, catalog, names, store, indexes, vectors>>
  BY DEF ScanForIndex, Become, counters
<1>2. open /\ SessionIs(session[c])
  BY <1>1, IsOpen
<1>3. s.at = "register" /\ s.stmt = session[c].stmt /\ s.id = session[c].id
      /\ s = [at |-> s.at, stmt |-> s.stmt, id |-> s.id, rows |-> s.rows, seen |-> s.seen]
  <2>1. AsSession(session[c])
    BY <1>2 DEF SessionIs, SessionFits, AsSession
  <2>2. s = [at |-> "register", stmt |-> session[c].stmt, id |-> session[c].id, rows |-> session[c].rows,
             seen |-> Contents(store, session[c].id)]
    BY <2>1, SeenMoves
  <2> HIDE DEF s
  <2> QED
    BY <2>2
<1> HIDE DEF s
<1>4. Building(session[c]) /\ Building(s) /\ OrderedBy(s) = OrderedBy(session[c])
  BY <1>1, <1>3 DEF Building, OrderedBy
<1>5. SessionIs(s)
  BY <1>2, <1>3, <1>4 DEF SessionIs, SessionFits
<1> QED
  BY <1>1, <1>4, <1>5, QuietStep

LEMMA EnterStep == ASSUME DbInv, NEW c \in Sessions, EnterRow(c) PROVE DbInv'
<1> DEFINE s == [session[c] EXCEPT !.rows = Tail(@)]
<1>1. session[c].at = "enter" /\ session' = [session EXCEPT ![c] = s]
      /\ UNCHANGED <<log, open, catalog, names, store>>
      /\ DOMAIN indexes' = DOMAIN indexes /\ DOMAIN vectors' = DOMAIN vectors
  BY DEF EnterRow, Become, counters
<1>2. open /\ SessionIs(session[c])
  BY <1>1, IsOpen
<1>3. s.at = "enter" /\ s = [at |-> s.at, stmt |-> s.stmt, id |-> s.id, rows |-> s.rows, seen |-> s.seen]
  <2>1. AsSession(session[c])
    BY <1>2 DEF SessionIs, SessionFits, AsSession
  <2>2. s = [at |-> session[c].at, stmt |-> session[c].stmt, id |-> session[c].id, rows |-> Tail(session[c].rows),
             seen |-> session[c].seen]
    BY <2>1, RowsMove
  <2> HIDE DEF s
  <2> QED
    BY <1>1, <2>2
<1> HIDE DEF s
<1>4. ~Building(session[c]) /\ ~Building(s)
  BY <1>1, <1>3 DEF Building
<1>5. SessionIs(s)
  BY <1>2, <1>3, <1>4 DEF SessionIs, SessionFits
<1> QED
  BY <1>1, <1>4, <1>5, QuietStep

LEMMA ReturnStep == ASSUME DbInv, NEW c \in Sessions, Return(c) PROVE DbInv'
<1>1. session[c].at = "enter" /\ session' = [session EXCEPT ![c] = Idle]
      /\ UNCHANGED <<log, open, catalog, names, store, indexes, vectors>>
  BY DEF Return, Become, counters
<1>2. open
  BY <1>1, IsOpen
<1>3. SessionIs(Idle) /\ ~Building(session[c])
  BY <1>1, <1>2, IdleIs, SoundIs DEF Building
<1> QED
  BY <1>1, <1>3, QuietStep

(* The assistant takes a prompt, or panics over a table the store has not. *)
LEMMA ChatStep == ASSUME DbInv, NEW c \in Sessions, NEW prompt \in Prompts, Chat(c, prompt) PROVE DbInv'
<1> DEFINE s == [Idle EXCEPT !.at = "chat", !.stmt = prompt, !.rows = Summary]
<1>1. /\ open /\ session[c].at = "idle"
      /\ session' = [session EXCEPT ![c] = s] \/ session' = session
      /\ UNCHANGED <<log, open, catalog, names, store, indexes, vectors>>
  BY DEF Chat, Become
<1>2. s = [at |-> "chat", stmt |-> prompt, id |-> 0, rows |-> Summary, seen |-> <<>>]
  <2> DEFINE u == [Idle EXCEPT !.at = "chat"]
             w == [u EXCEPT !.stmt = prompt]
  <2>1. u = [at |-> "chat", stmt |-> <<>>, id |-> 0, rows |-> <<>>, seen |-> <<>>]
    BY DEF Idle
  <2>2. s = [w EXCEPT !.rows = Summary]
    BY Zenon
  <2> HIDE DEF u
  <2>3. w = [at |-> "chat", stmt |-> prompt, id |-> 0, rows |-> <<>>, seen |-> <<>>]
    BY <2>1
  <2> HIDE DEF w
  <2>4. [w EXCEPT !.rows = Summary] = [at |-> "chat", stmt |-> prompt, id |-> 0, rows |-> Summary, seen |-> <<>>]
    BY <2>3
  <2> QED
    BY <2>2, <2>4
<1> HIDE DEF s
<1>3. SessionIs(s) /\ ~Building(session[c])
  BY <1>1, <1>2 DEF SessionIs, SessionFits, Building
<1>4. session' = session => session' = [session EXCEPT ![c] = session[c]]
  BY DEF DbInv, SessionsAreSound
<1>5. SessionIs(session[c])
  BY DEF DbInv, SessionsAreSound
<1>6. CASE session' = [session EXCEPT ![c] = s]
  BY <1>1, <1>3, <1>6, QuietStep
<1>7. CASE session' = session
  BY <1>1, <1>3, <1>4, <1>5, <1>7, QuietStep
<1> QED
  BY <1>1, <1>6, <1>7

(* What the assistant sends on is a statement a session could have sent. *)
LEMMA TranslationIs ==
    ASSUME NEW prompt \in Prompts, NEW tables, Translate(prompt, tables).kind # "Query"
    PROVE  IsTree(Translate(prompt, tables))
<1> DEFINE tree == Translate(prompt, tables)
           t == TargetOf(prompt, tables)
<1>1. CASE prompt.sql # <<>>
  <2>1. tree = prompt.sql[1]
    BY <1>1, Zenon DEF Translate
  <2> QED
    BY <1>1, <2>1, PromptsAssumption
<1>2. CASE prompt.sql = <<>> /\ tables = <<>>
  <2>1. tree = ItemsTree
    BY <1>2, Zenon DEF Translate
  <2>2. IsSeq(ItemsTree.columns) /\ ItemsTree.kind = "CreateTable"
    <3> DEFINE columns == ItemsTree.columns
    <3>1. columns = [i \in 1..3 |-> columns[i]]
      BY DEF ItemsTree
    <3> HIDE DEF columns
    <3>2. IsSeq(columns)
      BY <3>1, SeqMade
    <3> QED
      BY <3>2 DEF columns, ItemsTree
  <2> QED
    BY <2>1, <2>2 DEF IsTree
<1>3. CASE prompt.sql = <<>> /\ tables # <<>>
  <2> DEFINE all == AllOf(t)
             The(columns) == Col(CHOOSE n \in columns : TRUE)
             target == Lit(VectorVal(IF prompt.vector = 0 THEN 1 ELSE prompt.vector))
             near == Limited(Ordered(all, <<The(VectorColumn(t)), Sym("<=>"), Sym("["), target, Sym("]")>>, <<>>), 3)
             counted == [all EXCEPT !.select.projection = <<[f |-> "COUNT", arg |-> NoName]>>]
             old == [all EXCEPT !.select.selection = Cond(Col(Age), ">", Lit(IntVal(30)))]
             high == Limited(Ordered(all, <<The(NumericColumn(t))>>, <<"DESC">>), 5)
             ten == Limited(all, 10)
  <2>1. tree \in {near, counted, old, high, ten}
    BY <1>3, Zenon DEF Translate
  <2>2. all.kind = "Query" /\ "kind" \in DOMAIN all
    BY DEF AllOf
  <2> HIDE DEF all
  <2>3. \A x, n : x.kind = "Query" /\ "kind" \in DOMAIN x => Limited(x, n).kind = "Query"
    BY DEF Limited
  <2>4. \A x, e, d : x.kind = "Query" /\ "kind" \in DOMAIN x =>
          Ordered(x, e, d).kind = "Query" /\ "kind" \in DOMAIN Ordered(x, e, d)
    BY DEF Ordered
  <2>5. near.kind = "Query" /\ high.kind = "Query" /\ ten.kind = "Query"
    BY <2>2, <2>3, <2>4, Zenon
  <2>6. counted.kind = "Query"
    BY <2>2
  <2>7. old.kind = "Query"
    BY <2>2
  <2> HIDE DEF near, counted, old, high, ten
  <2>8. tree.kind = "Query"
    BY <2>1, <2>5, <2>6, <2>7, Zenon
  <2> QED
    BY <2>8
<1> QED
  BY <1>1, <1>2, <1>3

(* The assistant answers, or sends the statement on: the session is idle again
   or has a statement that fits the catalog. *)
LEMMA SpeakIs ==
    ASSUME DbInv, NEW c \in Sessions, Speak(c)
    PROVE  \E s : Sound(s) /\ session' = [session EXCEPT ![c] = s]
<1> DEFINE prompt == session[c].stmt
           tree == Translate(prompt, session[c].rows)
           sent == [tree |-> tree, prepared |-> FALSE, params |-> <<>>]
<1>1. /\ session[c].at = "chat"
      /\ UNCHANGED <<log, open, catalog, names, store, indexes, vectors>>
  BY DEF Speak
<1>2. session' = [session EXCEPT ![c] = Idle] \/ (tree.kind # "Query" /\ session' = [session EXCEPT ![c] = Accepted(sent)])
  <2> DEFINE word == [outcome |-> IF prompt.sql = <<>> THEN "asks" ELSE "repeats", tree |-> tree,
                      tables |-> [i \in DOMAIN session[c].rows |-> session[c].rows[i].name]]
             lists == "tables" \in prompt.words
             query == tree.kind = "Query"
             P == Become(c, Idle) /\ said' = [word EXCEPT !.outcome = "lists", !.tree = <<>>]
             Q == Become(c, Idle) /\ said' = word
             R == Become(c, Accepted(sent)) /\ said' = word
  <2>1. (CASE lists -> P [] ~lists /\ query -> Q [] OTHER -> R)
    BY Zenon DEF Speak
  <2>2. P => session' = [session EXCEPT ![c] = Idle]
    BY Zenon DEF Become
  <2>3. Q => session' = [session EXCEPT ![c] = Idle]
    BY Zenon DEF Become
  <2>4. R => session' = [session EXCEPT ![c] = Accepted(sent)]
    BY Zenon DEF Become
  <2> HIDE DEF P, Q, R, lists
  <2>5. P \/ Q \/ (~query /\ R)
    <3>1. CASE lists
      BY <2>1, <3>1
    <3>2. CASE ~lists /\ query
      BY <2>1, <3>2
    <3>3. CASE ~lists /\ ~query
      BY <2>1, <3>3
    <3> QED
      BY <3>1, <3>2, <3>3
  <2> QED
    BY <2>2, <2>3, <2>4, <2>5
<1>3. open /\ SessionIs(session[c]) /\ ~Building(session[c])
  BY <1>1, IsOpen DEF Building
<1>4. prompt \in Prompts
  BY <1>1, <1>3 DEF SessionIs, SessionFits
<1>5. tree.kind # "Query" => IsTree(tree)
  BY <1>4, TranslationIs
<1> HIDE DEF tree, prompt
<1>6. sent.tree = tree /\ \A value \in ToSet(sent.params) : IsInt(value)
  BY EmptyIsSeq
<1> HIDE DEF sent
<1>7. CASE session' = [session EXCEPT ![c] = Idle]
  BY <1>7, IdleIs
<1>8. CASE tree.kind # "Query" /\ session' = [session EXCEPT ![c] = Accepted(sent)]
  BY <1>5, <1>6, <1>8, AcceptedIs
<1> QED
  BY <1>2, <1>7, <1>8

LEMMA SpeakStep == ASSUME DbInv, NEW c \in Sessions, Speak(c) PROVE DbInv'
<1>1. session[c].at = "chat" /\ UNCHANGED <<log, open, catalog, names, store, indexes, vectors>>
  BY DEF Speak
<1>2. open /\ ~Building(session[c])
  BY <1>1, IsOpen DEF Building
<1>3. PICK s : Sound(s) /\ session' = [session EXCEPT ![c] = s]
  BY SpeakIs
<1>4. SessionIs(s)
  BY <1>2, <1>3, SoundIs
<1> QED
  BY <1>1, <1>2, <1>3, <1>4, QuietStep

(* A crash leaves the log, *)
LEMMA CrashStep == ASSUME DbInv, Crash PROVE DbInv'
<1>1. /\ open' = FALSE /\ catalog' = Empty /\ names' = Empty /\ store' = Empty
      /\ session' = [c \in Sessions |-> Idle] /\ log' = log
  BY DEF Crash
<1>2. ASSUME NEW c \in Sessions PROVE SessionIs(session[c])'
  BY <1>1 DEF SessionIs, SessionFits, Idle, Building
<1>3. SessionsAreSound'
  BY <1>1, <1>2 DEF SessionsAreSound
<1>4. LogIsSound'
  BY <1>1 DEF DbInv, LogIsSound
<1> QED
  BY <1>1, <1>3, <1>4 DEF DbInv, StoreIsReplayed, IndexesFollowLog

(* from which recovery makes the whole database. *)
LEMMA RecoverStep == ASSUME DbInv, Recover PROVE DbInv'
<1> DEFINE s == Replay(log)
           Of(vector) == {x \in ToSet(s.specs) : IsVector(s.catalog[x[1]].columns, x[2]) = vector}
<1>1. /\ open' = TRUE /\ catalog' = s.catalog /\ names' = s.names /\ store' = s.store
      /\ session' = [c \in Sessions |-> Idle] /\ log' = log
  BY DEF Recover
<1>2. DOMAIN indexes' = Of(FALSE) /\ DOMAIN vectors' = Of(TRUE)
  BY Zenon DEF Recover
<1>3. Of(FALSE) \cup Of(TRUE) = ToSet(s.specs)
  BY DEF IsVector
<1>4. DOMAIN s.store = DOMAIN s.catalog
  BY DEF DbInv, LogIsSound, Consistent
<1>5. Replay(log') = s
  BY <1>1
<1> HIDE DEF s, Of
<1>6. ASSUME NEW c \in Sessions PROVE SessionIs(session[c])'
  BY <1>1 DEF SessionIs, SessionFits, Idle, Building
<1>7. SessionsAreSound'
  BY <1>1, <1>6 DEF SessionsAreSound
<1>8. LogIsSound'
  BY <1>1 DEF DbInv, LogIsSound
<1>9. StoreIsReplayed'
  BY <1>1, <1>4, <1>5 DEF StoreIsReplayed
<1>10. IndexesFollowLog'
  BY <1>2, <1>3, <1>5 DEF IndexesFollowLog
<1> QED
  BY <1>7, <1>8, <1>9, <1>10 DEF DbInv

(* A step of one session leaves the others. *)
LEMMA MoveIs ==
    ASSUME DbInv, NEW c \in Sessions, NEW s, session' = [session EXCEPT ![c] = s]
    PROVE  /\ session' = [d \in Sessions |-> session'[d]] /\ session'[c] = s
           /\ \A d \in Sessions \ {c} : session'[d] = session[d] /\ SessionIs(session[d])
BY DEF DbInv, SessionsAreSound

(* What was bound stays bound while the catalog and the log grow. *)
LEMMA FitsLater ==
    ASSUME NEW z, NEW o, NEW c, NEW n, NEW p, NEW d, NEW m, NEW q, SessionFits(z, o, c, n, p),
           \A x \in DOMAIN n : n[x] \in DOMAIN c /\ x \in DOMAIN m /\ m[x] = n[x],
           \A x \in DOMAIN c : x \in DOMAIN d /\ d[x] = c[x],
           ToSet(p) \subseteq ToSet(q)
    PROVE  SessionFits(z, o, d, m, q)
<1>1. ASSUME z.at = "bound" PROVE BoundIn(z.stmt, d, m)
  <2>1. BoundIn(z.stmt, c, n)
    BY <1>1 DEF SessionFits
  <2>2. z.stmt.kind # "create" => z.stmt.table \in DOMAIN m /\ d[m[z.stmt.table]] = c[n[z.stmt.table]]
    BY <2>1 DEF BoundIn
  <2>3. z.stmt.kind = "insert" => z.stmt.kind # "create"
    OBVIOUS
  <2> QED
    BY <2>1, <2>2, <2>3 DEF BoundIn
<1> QED
  BY <1>1 DEF SessionFits

(* register_table enters both maps. *)
LEMMA TablesRegistered ==
    ASSUME NEW c, NEW n, NEW id, NEW schema
    PROVE  LET r == RegisterTable([catalog |-> c, names |-> n], id, schema)
           IN  r.catalog = Put(c, id, schema) /\ r.names = Put(n, schema.name, id)
<1> DEFINE a == Put(c, id, schema)
           b == Put(n, schema.name, id)
           z == [catalog |-> c, names |-> n]
           w == [z EXCEPT !.catalog = a]
<1>1. RegisterTable(z, id, schema) = [w EXCEPT !.names = b]
  <2>1. z.catalog = c /\ z.names = n
    OBVIOUS
  <2> QED
    BY <2>1, Zenon DEF RegisterTable
<1> HIDE DEF a, b
<1>2. w = [catalog |-> a, names |-> n]
  OBVIOUS
<1> HIDE DEF w
<1>3. [w EXCEPT !.names = b] = [catalog |-> a, names |-> b]
  BY <1>2
<1> QED
  BY <1>1, <1>3 DEF a, b

(* Sessions fit the catalog and the log that have grown. *)
LEMMA SessionsLater ==
    ASSUME DbInv, open, NEW c \in Sessions, NEW s, session' = [session EXCEPT ![c] = s], open' = open,
           \A x \in DOMAIN names : names[x] \in DOMAIN catalog /\ x \in DOMAIN names' /\ names'[x] = names[x],
           \A x \in DOMAIN catalog : x \in DOMAIN catalog' /\ catalog'[x] = catalog[x],
           ToSet(Replay(log).specs) \subseteq ToSet(Replay(log').specs),
           SessionFits(s, open, catalog', names', Replay(log').specs)
    PROVE  SessionsAreSound'
<1> DEFINE p == Replay(log).specs
           q == Replay(log').specs
<1>1. /\ session' = [d \in Sessions |-> session'[d]] /\ session'[c] = s
      /\ \A d \in Sessions \ {c} : session'[d] = session[d] /\ SessionFits(session[d], open, catalog, names, p)
  BY MoveIs DEF SessionIs
<1>0. ToSet(p) \subseteq ToSet(q)
  OBVIOUS
<1> HIDE DEF p, q
<1>2. ASSUME NEW d \in Sessions PROVE SessionFits(session'[d], open', catalog', names', q)
  <2>1. CASE d = c
    BY <1>1, <2>1 DEF q
  <2>2. CASE d # c
    <3>1. SessionFits(session[d], open, catalog, names, p) /\ session'[d] = session[d]
      BY <1>1, <2>2
    <3>2. SessionFits(session[d], open, catalog', names', q)
      BY <3>1, <1>0, FitsLater
    <3> QED
      BY <3>1, <3>2
  <2> QED
    BY <2>1, <2>2
<1>3. \A d \in Sessions : SessionIs(session[d])'
  BY <1>2 DEF SessionIs, q
<1> QED
  BY <1>1, <1>3 DEF SessionsAreSound

(* The catalog and its names as long as the database is open. *)
LEMMA OpenIs ==
    ASSUME DbInv, open
    PROVE  LET s == Replay(log) IN
           /\ IsSeq(log) /\ Consistent(s) /\ catalog = s.catalog /\ names = s.names /\ DOMAIN store \subseteq DOMAIN catalog
           /\ DOMAIN s.store = DOMAIN catalog
           /\ \A n \in DOMAIN names : names[n] \in DOMAIN catalog
           /\ \A x \in DOMAIN catalog : s.store[x] = IF x \in DOMAIN store THEN store[x] ELSE Empty
           /\ \A x \in DOMAIN catalog \ DOMAIN store : \E d \in Sessions : session[d].at = "store" /\ session[d].id = x
<1>1. LET s == Replay(log) IN
      /\ IsSeq(log) /\ Consistent(s) /\ catalog = s.catalog /\ names = s.names /\ DOMAIN store \subseteq DOMAIN catalog
      /\ \A x \in DOMAIN catalog : s.store[x] = IF x \in DOMAIN store THEN store[x] ELSE Empty
      /\ \A x \in DOMAIN catalog \ DOMAIN store : \E d \in Sessions : session[d].at = "store" /\ session[d].id = x
  BY DEF DbInv, LogIsSound, StoreIsReplayed
<1> QED
  BY <1>1 DEF Consistent, Agree

(* A session that builds no index does not matter to the indexes. *)
LEMMA IndexesLater ==
    ASSUME DbInv, open, NEW c \in Sessions, NEW s, session' = [session EXCEPT ![c] = s], ~Building(session[c]),
           UNCHANGED <<indexes, vectors>>, ToSet(Replay(log').specs) = ToSet(Replay(log).specs)
    PROVE  IndexesFollowLog'
<1> DEFINE p == ToSet(Replay(log).specs)
           used == DOMAIN indexes \cup DOMAIN vectors
<1>1. used \subseteq p /\ \A x \in p \ used : \E d \in Sessions : Building(session[d]) /\ OrderedBy(session[d]) = x
  BY DEF DbInv, IndexesFollowLog
<1>2. \A d \in Sessions \ {c} : session'[d] = session[d]
  BY MoveIs
<1> HIDE DEF p, used
<1>3. ASSUME NEW x \in p \ used PROVE \E d \in Sessions : Building(session'[d]) /\ OrderedBy(session'[d]) = x
  <2>1. PICK d \in Sessions : Building(session[d]) /\ OrderedBy(session[d]) = x
    BY <1>1
  <2>2. d # c
    BY <2>1
  <2> QED
    BY <2>1, <2>2, <1>2
<1>4. ToSet(Replay(log').specs) = p /\ DOMAIN indexes' \cup DOMAIN vectors' = used
  BY DEF p, used
<1> QED
  BY <1>1, <1>3, <1>4 DEF IndexesFollowLog, Building, OrderedBy

(* A refused or failed statement: the session is idle again and nothing else
   has happened. *)
LEMMA RefusedStep ==
    ASSUME DbInv, NEW c \in Sessions, session[c].at = "bound", session' = [session EXCEPT ![c] = Idle],
           UNCHANGED <<log, open, catalog, names, store, indexes, vectors>>
    PROVE  DbInv'
<1>1. open /\ ~Building(session[c])
  BY IsOpen DEF Building
<1>2. SessionIs(Idle)
  BY <1>1, IdleIs, SoundIs
<1> QED
  BY <1>1, <1>2, QuietStep

(* A new table has the columns of its statement. *)
LEMMA NameIs == ASSUME NEW c PROVE Name(c)[2] = c
<1>1. \A e : <<e, c>>[2] = c
  OBVIOUS
<1> QED
  BY <1>1, Zenon DEF Name

LEMMA NewSchemaIs ==
    ASSUME NEW stmt, IsSeq(stmt.columns)
    PROVE  IsSchema(NewSchema(stmt).columns) /\ NewSchema(stmt).name = stmt.table
<1> DEFINE columns == NewSchema(stmt).columns
<1>3. \A i \in DOMAIN stmt.columns : columns[i].name = Name(stmt.columns[i].name)
  BY DEF NewSchema, Column
<1>1. columns = [i \in DOMAIN stmt.columns |-> columns[i]] /\ NewSchema(stmt).name = stmt.table
  BY DEF NewSchema
<1> HIDE DEF columns
<1>2. IsSeq(columns)
  BY <1>1, MadeIs
<1>5. \A i \in DOMAIN columns : columns[i].name = Name(columns[i].name[2])
  BY <1>1, <1>3, NameIs
<1>4. \A column \in ToSet(columns) : column.name = Name(column.name[2])
  BY <1>5, Zenon DEF ToSet
<1> QED
  BY <1>1, <1>2, <1>4 DEF columns, IsSchema

(* CREATE TABLE, under the write lock of the catalog: logged and registered,
   or nothing at all. *)
LEMMA CreateTableStep == ASSUME DbInv, "sync" \notin Faults, NEW c \in Sessions, CreateTable(c) PROVE DbInv'
<1> DEFINE stmt == session[c].stmt
           schema == NewSchema(stmt)
           id == NextTableId
           record == [kind |-> "CreateTable", id |-> id, schema |-> schema]
           s == Replay(log)
           new == [Idle EXCEPT !.at = "store", !.id = id]
           Done == /\ stmt.table \notin DOMAIN names /\ log' = Append(log, record)
                   /\ catalog' = Put(catalog, id, schema) /\ names' = Put(names, schema.name, id)
                   /\ session' = [session EXCEPT ![c] = new]
<1>1. session[c].at = "bound" /\ stmt.kind = "create" /\ UNCHANGED <<open, store, indexes, vectors>>
  BY DEF CreateTable, Bound, counters
<1>2. Done \/ (session' = [session EXCEPT ![c] = Idle] /\ UNCHANGED <<log, catalog, names>>)
  <2>1. record.id = id /\ record.schema = schema
    OBVIOUS
  <2>2. LET r == RegisterTable([catalog |-> catalog, names |-> names], id, schema)
        IN  r.catalog = Put(catalog, id, schema) /\ r.names = Put(names, schema.name, id)
    BY TablesRegistered
  <2> HIDE DEF id, schema
  <2>3. "fail" \in Faults \/ "fail" \notin Faults
    OBVIOUS
  <2> QED
    BY <2>1, <2>2 DEF CreateTable, Become, Append1, AppendFails, schema, id
<1>3. CASE session' = [session EXCEPT ![c] = Idle] /\ UNCHANGED <<log, catalog, names>>
  BY <1>1, <1>3, RefusedStep
<1>4. CASE Done
  <2>1. open /\ IsSeq(stmt.columns)
    BY <1>1, IsOpen DEF SessionIs, SessionFits, BoundIn
  <2>2. IsSchema(schema.columns) /\ schema.name = stmt.table
    BY <2>1, NewSchemaIs
  <2>3. /\ IsSeq(log) /\ Consistent(s) /\ catalog = s.catalog /\ names = s.names /\ DOMAIN store \subseteq DOMAIN catalog
        /\ DOMAIN s.store = DOMAIN catalog
        /\ \A n \in DOMAIN names : names[n] \in DOMAIN catalog
        /\ \A x \in DOMAIN catalog : s.store[x] = IF x \in DOMAIN store THEN store[x] ELSE Empty
        /\ \A x \in DOMAIN catalog \ DOMAIN store : \E d \in Sessions : session[d].at = "store" /\ session[d].id = x
    BY <2>1, OpenIs
  <2>4. id = Max({0} \cup DOMAIN s.catalog) + 1
    BY <2>3 DEF NextTableId
  <2>5. new = [at |-> "store", stmt |-> <<>>, id |-> id, rows |-> <<>>, seen |-> <<>>]
    <3>1. AsSession(Idle) /\ Idle.stmt = <<>> /\ Idle.rows = <<>> /\ Idle.seen = <<>>
      BY DEF AsSession, Idle
    <3> QED
      BY <3>1, IdMoves
  <2> DEFINE t == Replay(log')
  <2>6. t = Redo(s, record)
    BY <1>4, <2>3, ReplayAppend
  <2> HIDE DEF s, schema, id, new, t
  <2>7. schema.name \notin DOMAIN s.names
    BY <1>4, <2>2, <2>3
  <2>8. /\ id \notin DOMAIN s.catalog
        /\ t = Replayed(Put(s.catalog, id, schema), Put(s.names, schema.name, id), Put(s.store, id, Empty), s.specs)
        /\ Consistent(t)
    BY <2>2, <2>3, <2>4, <2>6, <2>7, RedoCreates
  <2>9. t.catalog = catalog' /\ t.names = names' /\ t.store = Put(s.store, id, Empty) /\ t.specs = s.specs
    BY <1>4, <2>3, <2>8 DEF Replayed
  <2>10. LogIsSound'
    <3>1. IsSeq(log')
      BY <1>4, <2>3, AppendIs
    <3> QED
      BY <3>1, <2>8 DEF LogIsSound, t
  <2>11. /\ DOMAIN catalog' = DOMAIN catalog \cup {id} /\ catalog'[id] = schema
         /\ \A x \in DOMAIN catalog : catalog'[x] = catalog[x]
         /\ DOMAIN names' = DOMAIN names \cup {schema.name} /\ \A n \in DOMAIN names : names'[n] = names[n]
         /\ DOMAIN t.store = DOMAIN catalog' /\ t.store[id] = Empty /\ \A x \in DOMAIN catalog : t.store[x] = s.store[x]
    BY <1>4, <2>3, <2>7, <2>8, <2>9 DEF Put
  <2>12. /\ session' = [d \in Sessions |-> session'[d]] /\ session'[c] = new
         /\ \A d \in Sessions \ {c} : session'[d] = session[d] /\ SessionIs(session[d])
    BY <1>4, MoveIs
  <2>13. StoreIsReplayed'
    <3>1. id \notin DOMAIN store
      BY <2>3, <2>8
    <3>2. ASSUME NEW x \in DOMAIN catalog' PROVE t.store[x] = IF x \in DOMAIN store THEN store[x] ELSE Empty
      <4>1. CASE x = id
        BY <4>1, <3>1, <2>11
      <4>2. CASE x # id
        BY <4>2, <2>3, <2>11
      <4> QED
        BY <4>1, <4>2
    <3>3. ASSUME NEW x \in DOMAIN catalog' \ DOMAIN store
          PROVE  \E d \in Sessions : session'[d].at = "store" /\ session'[d].id = x
      <4>1. CASE x = id
        BY <4>1, <2>5, <2>12
      <4>2. CASE x # id
        <5>1. PICK d \in Sessions : session[d].at = "store" /\ session[d].id = x
          BY <4>2, <2>3, <2>11
        <5> QED
          BY <5>1, <1>1, <2>12
      <4> QED
        BY <4>1, <4>2
    <3> QED
      BY <1>1, <2>1, <2>3, <2>9, <2>11, <3>2, <3>3 DEF StoreIsReplayed, t
  <2>14. SessionsAreSound'
    <3>1. /\ \A x \in DOMAIN names : names[x] \in DOMAIN catalog /\ x \in DOMAIN names' /\ names'[x] = names[x]
          /\ \A x \in DOMAIN catalog : x \in DOMAIN catalog' /\ catalog'[x] = catalog[x]
      BY <2>3, <2>11
    <3>2. id \in DOMAIN catalog'
      BY <2>11
    <3>3. SessionFits(new, open, catalog', names', t.specs)
      BY <2>1, <2>5, <3>2 DEF SessionFits, Building
    <3> QED
      BY <1>1, <1>4, <2>1, <2>9, <3>1, <3>3, SessionsLater DEF s, t
  <2>15. IndexesFollowLog'
    BY <1>1, <1>4, <2>1, <2>9, IndexesLater DEF Building, s, t
  <2> QED
    BY <2>10, <2>13, <2>14, <2>15 DEF DbInv
<1> QED
  BY <1>2, <1>3, <1>4

(* The table of the store, which a writing statement may have made before. *)
LEMMA StoreTableStep == ASSUME DbInv, NEW c \in Sessions, StoreTable(c) PROVE DbInv'
<1> DEFINE s == Replay(log)
           id == session[c].id
<1>1. /\ session[c].at = "store" /\ session' = [session EXCEPT ![c] = Idle] /\ store' = CreateInStore(store, id)
      /\ UNCHANGED <<log, open, catalog, names, indexes, vectors>>
  BY DEF StoreTable, Become, counters
<1>2. open /\ id \in DOMAIN catalog
  BY <1>1, IsOpen DEF SessionIs, SessionFits
<1>3. /\ \A n \in DOMAIN names : names[n] \in DOMAIN catalog
      /\ \A x \in DOMAIN catalog : s.store[x] = IF x \in DOMAIN store THEN store[x] ELSE Empty
      /\ \A x \in DOMAIN catalog \ DOMAIN store : \E d \in Sessions : session[d].at = "store" /\ session[d].id = x
      /\ DOMAIN store \subseteq DOMAIN catalog /\ catalog = s.catalog /\ names = s.names
  BY <1>2, OpenIs
<1>4. Replay(log') = s
  BY <1>1
<1>5. /\ DOMAIN store' = DOMAIN store \cup {id}
      /\ \A x \in DOMAIN catalog : (IF x \in DOMAIN store' THEN store'[x] ELSE Empty) = (IF x \in DOMAIN store THEN store[x] ELSE Empty)
  BY <1>1, <1>2 DEF CreateInStore, Put
<1>6. SessionsAreSound'
  <2>1. SessionFits(Idle, open, catalog, names, s.specs)
    BY <1>2, IdleIs, SoundIs DEF SessionIs
  <2> HIDE DEF s
  <2> QED
    BY <1>1, <1>2, <1>3, <1>4, <2>1, SessionsLater DEF s
<1>7. IndexesFollowLog'
  BY <1>1, <1>2, <1>4, IndexesLater DEF Building
<1>8. LogIsSound'
  BY <1>1 DEF DbInv, LogIsSound
<1>9. StoreIsReplayed'
  <2>1. \A d \in Sessions \ {c} : session'[d] = session[d]
    BY <1>1, MoveIs
  <2>2. ASSUME NEW x \in DOMAIN catalog \ DOMAIN store' PROVE \E d \in Sessions : session'[d].at = "store" /\ session'[d].id = x
    <3>1. PICK d \in Sessions : session[d].at = "store" /\ session[d].id = x
      BY <1>3, <1>5
    <3>2. d # c
      BY <1>5, <3>1
    <3> QED
      BY <3>1, <3>2, <2>1
  <2> HIDE DEF s, id
  <2> QED
    BY <1>1, <1>2, <1>3, <1>4, <1>5, <2>2 DEF StoreIsReplayed
<1> QED
  BY <1>6, <1>7, <1>8, <1>9 DEF DbInv

(* The store of a step that leaves it and the catalog, by a session that has no
   table to create. *)
LEMMA StoreLater ==
    ASSUME DbInv, open, NEW c \in Sessions, NEW s, session' = [session EXCEPT ![c] = s], session[c].at # "store",
           UNCHANGED <<open, catalog, names, store>>,
           Replay(log').catalog = Replay(log).catalog, Replay(log').names = Replay(log).names, Replay(log').store = Replay(log).store
    PROVE  StoreIsReplayed'
<1>1. \A d \in Sessions \ {c} : session'[d] = session[d]
  BY MoveIs
<1>2. ASSUME NEW x \in DOMAIN catalog \ DOMAIN store PROVE \E d \in Sessions : session'[d].at = "store" /\ session'[d].id = x
  <2>1. PICK d \in Sessions : session[d].at = "store" /\ session[d].id = x
    BY OpenIs
  <2> QED
    BY <2>1, <1>1
<1> QED
  BY <1>2, OpenIs DEF StoreIsReplayed

(* CREATE INDEX logs the index if its column is there. *)
LEMMA LogIndexStep == ASSUME DbInv, "sync" \notin Faults, NEW c \in Sessions, LogIndex(c) PROVE DbInv'
<1> DEFINE z == session[c]
           id == names[z.stmt.table]
           column == z.stmt.columns[1]
           record == [kind |-> "CreateIndex", id |-> id, column |-> column]
           s == Replay(log)
           new == [z EXCEPT !.at = "build", !.id = id]
           Done == /\ At(TableNamed(z.stmt.table), column) # 0 /\ log' = Append(log, record)
                   /\ session' = [session EXCEPT ![c] = new]
<1>1. z.at = "bound" /\ z.stmt.kind = "index" /\ UNCHANGED <<open, catalog, names, store, indexes, vectors>>
  BY DEF LogIndex, Bound, counters
<1>2. Done \/ (session' = [session EXCEPT ![c] = Idle] /\ UNCHANGED log)
  <2>1. record.id = id /\ record.column = column
    OBVIOUS
  <2> QED
    BY <2>1 DEF LogIndex, Become, Append1, AppendFails
<1>3. CASE session' = [session EXCEPT ![c] = Idle] /\ UNCHANGED log
  BY <1>1, <1>3, RefusedStep
<1>4. CASE Done
  <2>1. open /\ SessionIs(z)
    BY <1>1, IsOpen
  <2>2. z.stmt.table \in DOMAIN names /\ AsSession(z)
    BY <1>1, <2>1 DEF SessionIs, SessionFits, BoundIn, AsSession
  <2>3. /\ IsSeq(log) /\ Consistent(s) /\ catalog = s.catalog /\ names = s.names
        /\ \A n \in DOMAIN names : names[n] \in DOMAIN catalog
    BY <2>1, OpenIs
  <2>4. new = [at |-> "build", stmt |-> z.stmt, id |-> id, rows |-> z.rows, seen |-> z.seen]
    BY <2>2, IdMoves
  <2>5. Rebuildable(s, <<id, column>>)
    BY <1>4, <2>2, <2>3 DEF Rebuildable, At, TableNamed
  <2> DEFINE t == Replay(log')
  <2>6. t = Redo(s, record)
    BY <1>4, <2>3, ReplayAppend
  <2>7. OrderedBy(new) = <<id, column>> /\ Building(new)
    BY <2>4 DEF OrderedBy, Building
  <2> HIDE DEF s, id, column, t
  <2>8. /\ t = Replayed(s.catalog, s.names, s.store, Append(s.specs, <<id, column>>))
        /\ ToSet(t.specs) = ToSet(s.specs) \cup {<<id, column>>} /\ Consistent(t)
    BY <2>3, <2>5, <2>6, RedoIndexes
  <2>9. t.catalog = s.catalog /\ t.names = s.names /\ t.store = s.store
    BY <2>8 DEF Replayed
  <2> HIDE DEF new
  <2>10. SessionsAreSound'
    <3>1. SessionFits(new, open, catalog', names', t.specs)
      BY <2>1, <2>4, <2>7, <2>8 DEF SessionFits
    <3> QED
      BY <1>1, <1>4, <2>1, <2>3, <2>8, <3>1, SessionsLater DEF s, t
  <2>11. LogIsSound'
    <3>1. IsSeq(log')
      BY <1>4, <2>3, AppendIs
    <3> QED
      BY <3>1, <2>8 DEF LogIsSound, t
  <2>12. StoreIsReplayed'
    BY <1>1, <1>4, <2>1, <2>9, StoreLater DEF s, t
  <2>13. IndexesFollowLog'
    <3> DEFINE used == DOMAIN indexes \cup DOMAIN vectors
               p == ToSet(s.specs)
    <3>1. used \subseteq p /\ \A x \in p \ used : \E d \in Sessions : Building(session[d]) /\ OrderedBy(session[d]) = x
      BY <2>1 DEF DbInv, IndexesFollowLog, s
    <3>2. session'[c] = new /\ \A d \in Sessions \ {c} : session'[d] = session[d]
      BY <1>4, MoveIs
    <3>3. ~Building(session[c])
      BY <1>1 DEF Building
    <3> HIDE DEF used, p
    <3>4. ToSet(t.specs) = p \cup {<<id, column>>}
      BY <2>8 DEF p
    <3>5. ASSUME NEW x \in ToSet(t.specs) \ used PROVE \E d \in Sessions : Building(session'[d]) /\ OrderedBy(session'[d]) = x
      <4>1. CASE x = <<id, column>>
        BY <4>1, <3>2, <2>7
      <4>2. CASE x # <<id, column>>
        <5>1. PICK d \in Sessions : Building(session[d]) /\ OrderedBy(session[d]) = x
          BY <3>1, <3>4, <3>5, <4>2
        <5>2. d # c
          BY <3>3, <5>1
        <5> QED
          BY <5>1, <5>2, <3>2
      <4> QED
        BY <4>1, <4>2
    <3>6. used \subseteq ToSet(t.specs) /\ DOMAIN indexes' \cup DOMAIN vectors' = used
      BY <1>1, <3>1, <3>4 DEF used
    <3> QED
      BY <3>5, <3>6 DEF IndexesFollowLog, Building, OrderedBy, t
  <2> QED
    BY <2>10, <2>11, <2>12, <2>13 DEF DbInv
<1> QED
  BY <1>2, <1>3, <1>4

(* The index that was logged comes into use. *)
LEMMA RegisterIndexStep == ASSUME DbInv, NEW c \in Sessions, RegisterIndex(c) PROVE DbInv'
<1> DEFINE z == session[c]
           x == OrderedBy(z)
           p == ToSet(Replay(log).specs)
           used == DOMAIN indexes \cup DOMAIN vectors
<1>1. /\ z.at = "register" /\ session' = [session EXCEPT ![c] = Idle]
      /\ UNCHANGED <<log, open, catalog, names, store>>
  BY DEF RegisterIndex, Become, counters
<1>2. DOMAIN indexes' \cup DOMAIN vectors' = used \cup {x}
  <2>1. \E v : (vectors' = Put(vectors, x, v) /\ indexes' = indexes) \/ (indexes' = Put(indexes, x, v) /\ vectors' = vectors)
    BY Zenon DEF RegisterIndex, OrderedBy
  <2>2. PICK v : (vectors' = Put(vectors, x, v) /\ indexes' = indexes) \/ (indexes' = Put(indexes, x, v) /\ vectors' = vectors)
    BY <2>1
  <2> HIDE DEF x
  <2>3. DOMAIN Put(vectors, x, v) = DOMAIN vectors \cup {x} /\ DOMAIN Put(indexes, x, v) = DOMAIN indexes \cup {x}
    BY PutIs
  <2>4. CASE vectors' = Put(vectors, x, v) /\ indexes' = indexes
    BY <2>3, <2>4
  <2>5. CASE indexes' = Put(indexes, x, v) /\ vectors' = vectors
    BY <2>3, <2>5
  <2> QED
    BY <2>2, <2>4, <2>5
<1>3. open /\ SessionIs(z) /\ Building(z)
  BY <1>1, IsOpen DEF Building
<1>4. x \in p
  BY <1>3 DEF SessionIs, SessionFits
<1>5. Replay(log') = Replay(log)
  BY <1>1
<1>6. SessionsAreSound'
  <2>1. SessionFits(Idle, open, catalog, names, Replay(log).specs)
    BY <1>3, IdleIs, SoundIs DEF SessionIs
  <2>2. \A n \in DOMAIN names : names[n] \in DOMAIN catalog
    BY <1>3, OpenIs
  <2> QED
    BY <1>1, <1>3, <1>5, <2>1, <2>2, SessionsLater
<1>7. LogIsSound'
  BY <1>1 DEF DbInv, LogIsSound
<1>8. StoreIsReplayed'
  BY <1>1, <1>3, <1>5, StoreLater
<1>9. IndexesFollowLog'
  <2>1. used \subseteq p /\ \A y \in p \ used : \E d \in Sessions : Building(session[d]) /\ OrderedBy(session[d]) = y
    BY <1>3 DEF DbInv, IndexesFollowLog
  <2>2. \A d \in Sessions \ {c} : session'[d] = session[d]
    BY <1>1, MoveIs
  <2>3. ASSUME NEW y \in p \ (used \cup {x}) PROVE \E d \in Sessions : Building(session'[d]) /\ OrderedBy(session'[d]) = y
    <3>1. PICK d \in Sessions : Building(session[d]) /\ OrderedBy(session[d]) = y
      BY <2>1
    <3> QED
      BY <3>1, <2>2
  <2>4. ToSet(Replay(log').specs) = p
    BY <1>5
  <2> HIDE DEF used, p, x
  <2> QED
    BY <1>2, <1>4, <2>1, <2>3, <2>4 DEF IndexesFollowLog, Building, OrderedBy
<1> QED
  BY <1>6, <1>7, <1>8, <1>9 DEF DbInv

(* The write sets of the three statements. *)
LEMMA WriteSetsAre ==
    ASSUME NEW stmt, NEW schema, NEW id, NEW contents, IsSeq(schema), stmt.kind \in {"insert", "update", "delete"},
           stmt.kind = "insert" => IsInsert(stmt, schema), stmt.kind = "update" => SetText(stmt.set),
           IsFiniteSet(DOMAIN contents), \A r \in DOMAIN contents : KeyedBy(contents[r], schema, r),
           NEW ops \in WriteSets(stmt, schema, id, contents)
    PROVE  IsWriteSet(ops, id, schema) /\ PassesFirst(stmt, schema) /\ OfKind(ops, stmt.kind, DOMAIN contents)
<1>1. CASE stmt.kind = "insert"
  <2>1. ops \in InsertOps(stmt, schema, id)
    BY <1>1, Zenon DEF WriteSets
  <2>2. PkOf(schema) # 0 => PassesFirst(stmt, schema)
    BY <1>1 DEF PassesFirst
  <2> QED
    BY <1>1, <2>1, <2>2, InsertOpsAre
<1>2. CASE stmt.kind = "update"
  <2>1. ops \in UpdateOps(stmt, schema, id, contents)
    BY <1>2 DEF WriteSets
  <2>2. IsWriteSet(ops, id, schema) /\ OfKind(ops, "update", DOMAIN contents)
        /\ \A i \in DOMAIN stmt.set : Assignments(stmt, schema)[i] # {}
    BY <1>2, <2>1, UpdateOpsAre
  <2> QED
    BY <1>2, <2>2 DEF PassesFirst
<1>3. CASE stmt.kind = "delete"
  <2>1. ops \in DeleteOps(stmt, schema, id, contents)
    BY <1>3 DEF WriteSets
  <2>2. PassesFirst(stmt, schema)
    BY <1>3 DEF PassesFirst
  <2> QED
    BY <1>3, <2>1, <2>2, DeleteOpsAre
<1> QED
  BY <1>1, <1>2, <1>3

(* A table the store has not is an empty one. *)
View(tables, x) == IF x \in DOMAIN tables THEN tables[x] ELSE Empty

(* What a write leaves: the new store holds what the replayed log holds. *)
LEMMA WriteLater ==
    ASSUME DbInv, open, NEW c \in Sessions, session[c].at = "bound", NEW new, session' = [session EXCEPT ![c] = new],
           SessionFits(new, open, catalog, names, Replay(log).specs), ~Building(new),
           UNCHANGED <<open, catalog, names, indexes, vectors>>,
           IsSeq(log'), NEW tables, Replay(log') = Replayed(catalog, names, tables, Replay(log).specs),
           Consistent(Replay(log')), DOMAIN store \subseteq DOMAIN store', DOMAIN store' \subseteq DOMAIN catalog,
           \A x \in DOMAIN catalog : tables[x] = View(store', x)
    PROVE  DbInv'
<1>1. /\ Replay(log').catalog = catalog /\ Replay(log').names = names /\ Replay(log').store = tables
      /\ Replay(log').specs = Replay(log).specs
  BY DEF Replayed
<1>2. SessionsAreSound'
  <2>1. \A n \in DOMAIN names : names[n] \in DOMAIN catalog
    BY OpenIs
  <2> QED
    BY <1>1, <2>1, SessionsLater
<1>3. IndexesFollowLog'
  BY <1>1, IndexesLater DEF Building
<1>4. StoreIsReplayed'
  <2>1. \A d \in Sessions \ {c} : session'[d] = session[d]
    BY MoveIs
  <2>2. ASSUME NEW x \in DOMAIN catalog \ DOMAIN store' PROVE \E d \in Sessions : session'[d].at = "store" /\ session'[d].id = x
    <3>1. PICK d \in Sessions : session[d].at = "store" /\ session[d].id = x
      BY OpenIs
    <3> QED
      BY <3>1, <2>1
  <2> QED
    BY <1>1, <2>2 DEF StoreIsReplayed, View
<1> QED
  BY <1>2, <1>3, <1>4 DEF DbInv, LogIsSound

(* An empty write set writes nothing. *)
LEMMA NothingWritten == ASSUME NEW tables PROVE ApplyWriteSet(tables, <<>>) = tables
<1>1. Len(<<>>) = 0
  OBVIOUS
<1>2. PICK g : Written(tables, <<>>, g, 0) /\ ApplyWriteSet(tables, <<>>) = g[0]
  <2>1. Len(<<>>) \in Nat
    BY <1>1
  <2> QED
    BY <1>1, <2>1, WrittenRuns
<1> QED
  BY <1>2 DEF Written

(* A writing statement: the log and the store take the same write set, or
   neither does. *)
LEMMA WriteStep == ASSUME DbInv, "sync" \notin Faults, NEW c \in Sessions, Write(c) PROVE DbInv'
<1> DEFINE z == session[c]
           id == names[z.stmt.table]
           schema == catalog[id].columns
           created == IF PassesFirst(z.stmt, schema) THEN CreateInStore(store, id) ELSE store
           sets == WriteSets(z.stmt, schema, id, Contents(created, id))
           s == Replay(log)
           Enter(r) == [z EXCEPT !.at = "enter", !.id = id, !.rows = r]
           Fails == session' = [session EXCEPT ![c] = Idle] /\ store' = created
           Succeeds(ops) == store' = ApplyWriteSet(created, ops) /\ \E r : session' = [session EXCEPT ![c] = Enter(r)]
<1>1. z.at = "bound" /\ z.stmt.kind \in {"insert", "update", "delete"} /\ UNCHANGED <<open, catalog, names, indexes, vectors>>
  BY DEF Write, counters
<1>2. \/ Fails /\ log' = log
      \/ Succeeds(<<>>) /\ log' = log
      \/ \E ops \in sets : ops # <<>> /\ Succeeds(ops) /\ log' = Append(log, [kind |-> "Commit", ops |-> ops])
  BY Zenon DEF Write, Become, Append1, AppendFails
<1>3. open /\ SessionIs(z)
  BY <1>1, IsOpen
<1>4. /\ IsSeq(log) /\ Consistent(s) /\ catalog = s.catalog /\ names = s.names /\ DOMAIN store \subseteq DOMAIN catalog
      /\ DOMAIN s.store = DOMAIN catalog
      /\ \A x \in DOMAIN catalog : s.store[x] = View(store, x)
      /\ \A n \in DOMAIN names : names[n] \in DOMAIN catalog
  BY <1>3, OpenIs DEF View
<1>5. AsSession(z) /\ BoundIn(z.stmt, catalog, names)
  BY <1>1, <1>3 DEF SessionIs, SessionFits, AsSession
<1>6. id \in DOMAIN catalog /\ IsSeq(schema) /\ Keyed(s.store[id], schema)
  <2>1. id \in DOMAIN catalog
    BY <1>1, <1>4, <1>5 DEF BoundIn
  <2> QED
    BY <1>4, <2>1 DEF Consistent, IsSchema
<1> HIDE DEF s
<1>7. /\ DOMAIN store \subseteq DOMAIN created /\ DOMAIN created \subseteq DOMAIN catalog
      /\ \A x \in DOMAIN catalog : View(created, x) = View(store, x)
      /\ PassesFirst(z.stmt, schema) => id \in DOMAIN created
  BY <1>4, <1>6 DEF CreateInStore, Put, View
<1>8. id \in DOMAIN created => Keyed(created[id], schema)
  BY <1>4, <1>6, <1>7 DEF View
<1>9. ASSUME NEW ops \in sets PROVE IsWriteSet(ops, id, schema) /\ id \in DOMAIN created
  <2> DEFINE contents == Contents(created, id)
  <2>1. IsFiniteSet(DOMAIN contents) /\ \A r \in DOMAIN contents : KeyedBy(contents[r], schema, r)
    BY <1>8, ContentsAre
  <2>2. (z.stmt.kind = "insert" => IsInsert(z.stmt, schema)) /\ (z.stmt.kind = "update" => SetText(z.stmt.set))
    BY <1>5 DEF BoundIn
  <2> HIDE DEF contents, schema, created
  <2>3. ops \in WriteSets(z.stmt, schema, id, contents)
    BY DEF contents
  <2>4. IsWriteSet(ops, id, schema) /\ PassesFirst(z.stmt, schema)
    BY <1>1, <1>6, <2>1, <2>2, <2>3, WriteSetsAre
  <2> QED
    BY <1>7, <2>4
<1>10. ASSUME NEW r PROVE SessionFits(Enter(r), open, catalog, names, s.specs) /\ ~Building(Enter(r))
  <2> DEFINE w == [z EXCEPT !.at = "enter", !.id = id]
  <2>1. w = [at |-> "enter", stmt |-> z.stmt, id |-> id, rows |-> z.rows, seen |-> z.seen]
    BY <1>5, IdMoves
  <2>2. Enter(r) = [w EXCEPT !.rows = r]
    BY Zenon
  <2> HIDE DEF w
  <2>3. AsSession(w)
    BY <2>1 DEF AsSession
  <2>4. Enter(r) = [at |-> "enter", stmt |-> z.stmt, id |-> id, rows |-> r, seen |-> z.seen]
    BY <2>1, <2>2, <2>3, RowsMove
  <2> HIDE DEF Enter
  <2> QED
    BY <1>3, <2>4 DEF SessionFits, Building
<1>11. SessionFits(Idle, open, catalog, names, s.specs) /\ ~Building(Idle)
  BY <1>3, IdleIs, SoundIs DEF SessionIs, s
<1>12. s = Replayed(catalog, names, s.store, s.specs)
  BY <1>4 DEF Consistent, Replayed
<1> HIDE DEF created, sets, Enter, id, schema
<1>13. ASSUME NEW new, SessionFits(new, open, catalog, names, s.specs), ~Building(new), session' = [session EXCEPT ![c] = new],
              store' = created, log' = log
       PROVE  DbInv'
  <2>1. \A x \in DOMAIN catalog : s.store[x] = View(store', x)
    BY <1>4, <1>7, <1>13
  <2>2. Replay(log') = s
    BY <1>13 DEF s
  <2> QED
    BY <1>1, <1>3, <1>4, <1>7, <1>12, <1>13, <2>1, <2>2, WriteLater DEF s
<1>14. CASE Fails /\ log' = log
  BY <1>11, <1>13, <1>14
<1>15. CASE Succeeds(<<>>) /\ log' = log
  <2>1. PICK r : session' = [session EXCEPT ![c] = Enter(r)]
    BY <1>15
  <2>2. store' = created
    BY <1>15, NothingWritten
  <2> QED
    BY <1>10, <1>13, <1>15, <2>1, <2>2
<1>16. ASSUME NEW ops \in sets, ops # <<>>, Succeeds(ops), log' = Append(log, [kind |-> "Commit", ops |-> ops])
       PROVE  DbInv'
  <2> DEFINE tables == ApplyWriteSet(s.store, ops)
             t == Replay(log')
  <2>1. PICK r : session' = [session EXCEPT ![c] = Enter(r)]
    BY <1>16
  <2>2. IsWriteSet(ops, id, schema) /\ id \in DOMAIN created
    BY <1>9, <1>16
  <2>3. t = Redo(s, [kind |-> "Commit", ops |-> ops])
    BY <1>4, <1>16, ReplayAppend DEF s
  <2>4. id \in DOMAIN s.catalog /\ schema = s.catalog[id].columns /\ s.store[id] = created[id]
    BY <1>4, <1>6, <1>7, <2>2 DEF View, schema
  <2>5. t = Replayed(catalog, names, tables, s.specs) /\ Consistent(t)
    BY <1>4, <2>2, <2>3, <2>4, RedoCommits
  <2>6. \A i \in 1..Len(ops) : ops[i].table = id
    BY <2>2 DEF IsWriteSet, OpFits
  <2>7. /\ DOMAIN store' = DOMAIN created
        /\ \A x \in DOMAIN created \ {id} : store'[x] = created[x]
    BY <1>16, <2>2, <2>6, WriteSetIs DEF IsWriteSet
  <2>8. \A x \in DOMAIN s.store \ {id} : tables[x] = s.store[x]
    BY <1>4, <2>2, <2>4, <2>6, WriteSetIs DEF IsWriteSet
  <2>9. tables[id] = store'[id]
    BY <1>4, <1>16, <2>2, <2>4, <2>6, WriteSetsAgree DEF IsWriteSet
  <2> HIDE DEF tables, t
  <2>10. \A x \in DOMAIN catalog : tables[x] = View(store', x)
    BY <1>4, <1>7, <2>2, <2>7, <2>8, <2>9 DEF View
  <2>11. IsSeq(log')
    BY <1>4, <1>16, AppendIs
  <2>12. DOMAIN store \subseteq DOMAIN store' /\ DOMAIN store' \subseteq DOMAIN catalog
    BY <1>7, <2>7
  <2> QED
    BY <1>1, <1>3, <1>10, <2>1, <2>5, <2>10, <2>11, <2>12, WriteLater DEF s, t
<1> QED
  BY <1>2, <1>14, <1>15, <1>16

(* Every step of the database and of the assistant. *)
LEMMA DbStep == ASSUME DbInv, "sync" \notin Faults, [ANext]_avars PROVE DbInv'
<1>1. CASE Recover
  BY <1>1, RecoverStep
<1>2. CASE Crash
  BY <1>2, CrashStep
<1>3. ASSUME NEW c \in Sessions, NEW sent \in Statements, Receive(c, sent) PROVE DbInv'
  BY <1>3, ReceiveStep
<1>4. ASSUME NEW c \in Sessions,
             CreateTable(c) \/ StoreTable(c) \/ LogIndex(c) \/ ScanForIndex(c) \/ RegisterIndex(c)
             \/ Write(c) \/ EnterRow(c) \/ Return(c)
      PROVE  DbInv'
  BY <1>4, CreateTableStep, StoreTableStep, LogIndexStep, ScanStep, RegisterIndexStep, WriteStep, EnterStep, ReturnStep
<1>5. ASSUME NEW c \in Sessions, Speak(c) PROVE DbInv'
  BY <1>5, SpeakStep
<1>6. ASSUME NEW c \in Sessions, NEW prompt \in Prompts, Chat(c, prompt) PROVE DbInv'
  BY <1>6, ChatStep
<1>7. CASE UNCHANGED vars
  <2>1. UNCHANGED <<log, open, catalog, names, store, indexes, vectors, session>>
    BY <1>7 DEF vars, volatile
  <2>2. LogIsSound' /\ StoreIsReplayed' /\ IndexesFollowLog'
    BY <2>1 DEF DbInv, LogIsSound, StoreIsReplayed, IndexesFollowLog, Building, OrderedBy
  <2>3. SessionsAreSound'
    BY <2>1 DEF DbInv, SessionsAreSound, SessionIs
  <2> QED
    BY <2>2, <2>3 DEF DbInv
<1>8. CASE Next
  BY <1>1, <1>2, <1>3, <1>4, <1>8 DEF Next
<1>9. CASE UNCHANGED avars
  BY <1>7, <1>9 DEF avars
<1> QED
  BY <1>5, <1>6, <1>8, <1>9 DEF ANext

(* The inductive invariant, as long as no append fails after it has written. *)
THEOREM DbInvariant == ASSUME "sync" \notin Faults PROVE ASpec => []DbInv
<1>1. AInit => DbInv
  BY DbInit DEF AInit
<1>2. DbInv /\ [ANext]_avars => DbInv'
  BY DbStep
<1> QED
  BY <1>1, <1>2, PTL DEF ASpec

(* Table names and ids correspond one to one in the catalog and after every
   replay, though two sessions may both have found the same name free
   (create_table and register_table). *)
THEOREM NamesAndIdsCorrespond == ASSUME "sync" \notin Faults PROVE ASpec => []NamesAndIdsAgree
<1>1. DbInv => NamesAndIdsAgree
  <2> SUFFICES ASSUME DbInv PROVE NamesAndIdsAgree
    OBVIOUS
  <2>1. Agree(Replay(log).catalog, Replay(log).names)
    BY DEF DbInv, LogIsSound, Consistent
  <2>2. Agree(Empty, Empty)
    BY DEF Agree, Empty
  <2> QED
    BY <2>1, <2>2 DEF DbInv, StoreIsReplayed, NamesAndIdsAgree
<1> QED
  BY <1>1, DbInvariant, PTL

(* At every moment recovery would give the catalog and the rows the process
   has: acknowledged writes survive a crash and refused ones do not come back. *)
THEOREM LogGivesDatabase == ASSUME "sync" \notin Faults PROVE ASpec => []LogIsTheDatabase
<1>1. DbInv => LogIsTheDatabase
  <2> SUFFICES ASSUME DbInv, open PROVE LogIsTheDatabase
    BY DEF LogIsTheDatabase
  <2> DEFINE s == Replay(log)
  <2>1. /\ s.catalog = catalog /\ s.names = names /\ DOMAIN store \subseteq DOMAIN catalog
        /\ DOMAIN s.store = DOMAIN catalog
        /\ \A x \in DOMAIN catalog : s.store[x] = IF x \in DOMAIN store THEN store[x] ELSE Empty
        /\ \A x \in DOMAIN catalog \ DOMAIN store : \E d \in Sessions : session[d].at = "store" /\ session[d].id = x
    BY OpenIs
  <2> HIDE DEF s
  <2>2. ASSUME NEW id \in DOMAIN catalog PROVE Contents(s.store, id) = Contents(store, id)
    <3>1. CASE id \in DOMAIN store
      BY <2>1, <3>1 DEF Contents
    <3>2. CASE id \notin DOMAIN store
      <4>1. s.store[id] = Empty /\ id \in DOMAIN s.store
        BY <2>1, <3>2
      <4>2. Contents(s.store, id) = [r \in DOMAIN Empty |-> Last(Empty[r])]
        BY <4>1 DEF Contents
      <4>3. Contents(store, id) = Empty
        BY <3>2 DEF Contents
      <4>4. [r \in DOMAIN Empty |-> Last(Empty[r])] = Empty
        BY DEF Empty
      <4> QED
        BY <4>2, <4>3, <4>4
    <3> QED
      BY <3>1, <3>2
  <2> QED
    BY <2>1, <2>2 DEF LogIsTheDatabase, s
<1> QED
  BY <1>1, DbInvariant, PTL

(* Every index in use is in the log, every logged index is in use or being
   built, and recovery can rebuild each: open never fails for a statement
   somebody sent (create_index, recovery). *)
THEOREM IndexesSurviveRecovery == ASSUME "sync" \notin Faults PROVE ASpec => []IndexesAreLogged
<1>1. DbInv => IndexesAreLogged
  <2> SUFFICES ASSUME DbInv PROVE IndexesAreLogged
    OBVIOUS
  <2> DEFINE s == Replay(log)
             used == DOMAIN indexes \cup DOMAIN vectors
  <2>1. \A x \in ToSet(s.specs) : Rebuildable(s, x)
    BY DEF DbInv, LogIsSound, Consistent
  <2>2. open => used \subseteq ToSet(s.specs)
    BY DEF DbInv, IndexesFollowLog
  <2>3. ASSUME open, \A c \in Sessions : session[c].at \notin {"build", "register"} PROVE used = ToSet(s.specs)
    BY <2>3 DEF DbInv, IndexesFollowLog, Building
  <2> QED
    BY <2>1, <2>2, <2>3, Zenon DEF IndexesAreLogged
<1> QED
  BY <1>1, DbInvariant, PTL

(* A row is under its primary key for ever, through INSERT, UPDATE, prepared
   parameters and recovery: point reads rely on it. *)
THEOREM RowIdsAreKeys == ASSUME "sync" \notin Faults PROVE ASpec => []RowIdIsTheKey
<1>1. DbInv => RowIdIsTheKey
  <2> SUFFICES ASSUME DbInv, NEW id \in DOMAIN store, NEW r \in DOMAIN store[id], NEW row \in ToSet(store[id][r])
               PROVE  LET schema == catalog[id].columns IN
                      r < TwoTo64 /\ RowId(row, schema) = {r} /\ AsU64(row[PkOf(schema)].v) = r
    BY DEF RowIdIsTheKey
  <2> DEFINE schema == catalog[id].columns
  <2>1. open
    BY DEF DbInv, StoreIsReplayed, Empty
  <2>2. Keyed(store[id], schema)
    <3>1. id \in DOMAIN catalog /\ Replay(log).store[id] = store[id] /\ Consistent(Replay(log)) /\ catalog = Replay(log).catalog
      BY <2>1, OpenIs
    <3> QED
      BY <3>1 DEF Consistent
  <2> HIDE DEF schema
  <2>3. KeyedBy(row, schema, r)
    BY <2>2 DEF Keyed
  <2>4. r < TwoTo64 /\ RowId(row, schema) = {r}
    BY <2>3 DEF KeyedBy
  <2>5. AsU64(row[PkOf(schema)].v) = r
    BY <2>4 DEF RowId
  <2> QED
    BY <2>4, <2>5 DEF schema
<1> QED
  BY <1>1, DbInvariant, PTL

------------------------------------------------------------------------------
(* The rows an index has to find. *)
(* The versions an operation leaves of its row; it leaves the other rows. *)
NewVersions(w, old) ==
  LET base == IF old = <<>> THEN old ELSE Front(old)
  IN CASE w.op = "Insert" -> Append(old, w.row)
       [] w.op = "Update" -> Append(base, w.row)
       [] OTHER           -> base

LEMMA VersionsAre ==
    ASSUME NEW table, NEW w, NEW r
    PROVE  Versions(ApplyOp(table, w), r) = IF r = w.id THEN NewVersions(w, Versions(table, r)) ELSE Versions(table, r)
<1> DEFINE new == NewVersions(w, Versions(table, w.id))
<1>1. ApplyOp(table, w) = IF new = <<>> THEN Restrict(table, DOMAIN table \ {w.id}) ELSE Put(table, w.id, new)
  BY DEF ApplyOp, NewVersions
<1> HIDE DEF new
<1>2. CASE new = <<>>
  <2>1. ApplyOp(table, w) = [x \in DOMAIN table \ {w.id} |-> table[x]]
    BY <1>1, <1>2 DEF Restrict
  <2>2. Versions(ApplyOp(table, w), w.id) = <<>>
    BY <2>1 DEF Versions
  <2>3. r # w.id => Versions(ApplyOp(table, w), r) = Versions(table, r)
    BY <2>1 DEF Versions
  <2> QED
    BY <1>2, <2>2, <2>3 DEF new
<1>3. CASE new # <<>>
  <2>1. ApplyOp(table, w) = Put(table, w.id, new)
    BY <1>1, <1>3
  <2>2. /\ DOMAIN ApplyOp(table, w) = DOMAIN table \cup {w.id} /\ ApplyOp(table, w)[w.id] = new
        /\ \A x \in DOMAIN table \ {w.id} : ApplyOp(table, w)[x] = table[x]
    BY <2>1, PutIs
  <2>3. Versions(ApplyOp(table, w), w.id) = new
    BY <2>2 DEF Versions
  <2>4. r # w.id => Versions(ApplyOp(table, w), r) = Versions(table, r)
    BY <2>2 DEF Versions
  <2> QED
    BY <2>3, <2>4 DEF new
<1> QED
  BY <1>2, <1>3

(* The last of a sequence one longer. *)
LEMMA LastIs == ASSUME NEW s, IsSeq(s), NEW e PROVE Last(Append(s, e)) = e
<1>1. Len(s) \in Nat /\ Len(Append(s, e)) = Len(s) + 1 /\ Append(s, e)[Len(s) + 1] = e
  BY SeqIs, AppendIs
<1> QED
  BY <1>1 DEF Last

(* The newest version of a row a write set leaves is the one there was, or one
   the write set brings; or it deletes versions of the row. *)
Brought(ops, n, r, v) == \E i \in 1..n : ops[i].id = r /\ ops[i].op # "Delete" /\ Last(v) = ops[i].row
Deleted(ops, n, r) == \E i \in 1..n : ops[i].id = r /\ ops[i].op = "Delete"

LEMMA WriteSetLeaves ==
    ASSUME NEW table, NEW schema, NEW id, NEW ops, IsWriteSet(ops, id, schema), Keyed(table, schema), NEW n \in Nat,
           n <= Len(ops), NEW t, Tabled(table, ops, t, n), NEW r
    PROVE  LET v == Versions(t[n], r) IN v = Versions(table, r) \/ Brought(ops, n, r, v) \/ Deleted(ops, n, r)
<1> DEFINE v(k) == Versions(t[k], r)
           Fine(k) == Keyed(t[k], schema) /\ (v(k) = Versions(table, r) \/ Brought(ops, k, r, v(k)) \/ Deleted(ops, k, r))
           Bad == {k \in Nat : k <= n /\ ~Fine(k)}
<1>0. Len(ops) \in Nat
  BY SeqIs DEF IsWriteSet
<1>1. ASSUME NEW k \in 1..n, Fine(k - 1) PROVE Fine(k)
  <2>0. k \in 1..k /\ k \in 1..Len(ops) /\ \A i \in 1..(k - 1) : i \in 1..k
    BY <1>0
  <2>1. t[k] = ApplyOp(t[k - 1], ops[k])
    BY DEF Tabled
  <2>2. OpFits(ops[k], id, schema) /\ ops[k].op \in {"Insert", "Update", "Delete"}
    BY <2>0 DEF IsWriteSet
  <2>3. Keyed(t[k], schema)
    BY <1>1, <2>1, <2>2, ApplyOpKeeps
  <2>4. v(k) = IF r = ops[k].id THEN NewVersions(ops[k], v(k - 1)) ELSE v(k - 1)
    BY <2>1, VersionsAre
  <2>5. IsSeq(v(k - 1))
    BY <1>1, EmptyIsSeq DEF Keyed, Versions
  <2> HIDE DEF v
  <2>6. CASE ops[k].id # r
    <3>1. Brought(ops, k - 1, r, v(k)) => Brought(ops, k, r, v(k))
      BY <2>0 DEF Brought
    <3>2. Deleted(ops, k - 1, r) => Deleted(ops, k, r)
      BY <2>0 DEF Deleted
    <3> QED
      BY <1>1, <2>3, <2>4, <2>6, <3>1, <3>2
  <2>7. CASE ops[k].id = r /\ ops[k].op = "Delete"
    BY <2>0, <2>3, <2>7 DEF Deleted
  <2>8. CASE ops[k].id = r /\ ops[k].op # "Delete"
    <3> DEFINE base == IF v(k - 1) = <<>> THEN v(k - 1) ELSE Front(v(k - 1))
    <3>1. IsSeq(base)
      BY <2>5, FrontIs
    <3>2. v(k) = Append(IF ops[k].op = "Insert" THEN v(k - 1) ELSE base, ops[k].row)
      BY <2>2, <2>4, <2>8 DEF NewVersions
    <3> HIDE DEF base
    <3>3. Last(v(k)) = ops[k].row
      BY <2>5, <3>1, <3>2, LastIs
    <3>4. Brought(ops, k, r, v(k))
      BY <2>0, <2>8, <3>3 DEF Brought
    <3> QED
      BY <2>3, <3>4
  <2> QED
    BY <2>6, <2>7, <2>8
<1>2. Fine(0)
  BY DEF Tabled
<1> HIDE DEF Fine
<1>3. Bad = {}
  <2> SUFFICES ASSUME Bad # {} PROVE FALSE
    OBVIOUS
  <2>1. PICK k \in Bad : \A j \in Bad : k <= j
    BY NatMin
  <2>2. k - 1 \in Nat /\ k - 1 <= n /\ k \in 1..n /\ k - 1 \notin Bad
    BY <2>1, <1>2
  <2> QED
    BY <2>1, <2>2, <1>1
<1>4. Fine(n)
  BY <1>3
<1> QED
  BY <1>4 DEF Fine, v

(* So does a committed one: what it changes a row to it brings, or deletes. *)
LEMMA CommitLeaves ==
    ASSUME NEW table, NEW schema, NEW id, NEW kind, NEW ops, NEW after, NEW r \in DOMAIN after,
           IsWriteSet(ops, id, schema), OfKind(ops, kind, DOMAIN table), Keyed(table, schema), Keyed(after, schema),
           \E t : Tabled(table, ops, t, Len(ops)) /\ after = t[Len(ops)]
    PROVE  \/ r \in DOMAIN table /\ after[r] = table[r]
           \/ kind \in {"insert", "update"} /\ \E w \in ToSet(ops) : w.id = r /\ w.row = Last(after[r])
           \/ \E w \in ToSet(ops) : w.op = "Delete" /\ w.table = id /\ w.id = r
<1> DEFINE n == Len(ops)
<1>1. PICK t : Tabled(table, ops, t, n) /\ after = t[n]
  OBVIOUS
<1>2. n \in Nat /\ DOMAIN ops = 1..n
  BY SeqIs DEF IsWriteSet
<1>3. \A i \in 1..n : ops[i].table = id /\ ops[i] \in ToSet(ops) /\ (ops[i].op # "Delete" => kind \in {"insert", "update"})
  <2>1. \A i \in 1..n : ops[i].table = id /\ ops[i] \in ToSet(ops)
    BY <1>2 DEF IsWriteSet, OpFits, ToSet
  <2>2. \A i \in 1..n : ops[i].op = CASE kind = "insert" -> "Insert" [] kind = "update" -> "Update" [] OTHER -> "Delete"
    BY DEF OfKind
  <2> QED
    BY <2>1, <2>2
<1>4. Versions(after, r) = after[r] /\ after[r] # <<>> /\ Versions(table, r) = IF r \in DOMAIN table THEN table[r] ELSE <<>>
  BY DEF Versions, Keyed
<1>5. after[r] = Versions(table, r) \/ Brought(ops, n, r, after[r]) \/ Deleted(ops, n, r)
  <2>1. n <= Len(ops)
    BY <1>2
  <2> QED
    BY <1>1, <1>2, <1>4, <2>1, WriteSetLeaves
<1> QED
  BY <1>3, <1>4, <1>5 DEF Brought, Deleted

(* The rows a log uncovers, those a shorter one does among them. *)
LEMMA UncoveredLater ==
    ASSUME NEW l, IsSeq(l), NEW rec, NEW id, NEW r
    PROVE  LET m == Append(l, rec) IN
           /\ Uncovered(l, id, r) => Uncovered(m, id, r)
           /\ /\ rec.kind = "Commit" /\ r \in DOMAIN Contents(Replay(m).store, id)
              /\ \E w \in ToSet(rec.ops) : w.op = "Delete" /\ w.table = id /\ w.id = r
              => Uncovered(m, id, r)
<1> DEFINE m == Append(l, rec)
           n == Len(l)
           Hit(k, record, part) == /\ record.kind = "Commit" /\ r \in DOMAIN Contents(Replay(part).store, id)
                                   /\ \E w \in ToSet(record.ops) : w.op = "Delete" /\ w.table = id /\ w.id = r
<1>1. n \in Nat /\ DOMAIN l = 1..n /\ Len(m) = n + 1 /\ (\A i \in 1..n : m[i] = l[i]) /\ m[n + 1] = rec /\ IsSeq(m)
  BY SeqIs, AppendIs
<1>2. DOMAIN m = 1..(n + 1)
  BY <1>1, SeqIs
<1>3. \A k \in 1..n : SubSeq(m, 1, k) = SubSeq(l, 1, k)
  <2> SUFFICES ASSUME NEW k \in 1..n PROVE SubSeq(m, 1, k) = SubSeq(l, 1, k)
    OBVIOUS
  <2> HIDE DEF m, n
  <2>0. l \in Seq(ToSet(l)) /\ m \in Seq(ToSet(m))
    BY <1>1 DEF IsSeq
  <2>1. SubSeq(m, 1, k) = [i \in 1..k |-> m[i]] /\ SubSeq(l, 1, k) = [i \in 1..k |-> l[i]]
    BY <2>0, <1>1
  <2> QED
    BY <2>1, <1>1
<1>4. SubSeq(m, 1, n + 1) = m
  <2> HIDE DEF m, n
  <2>0. m \in Seq(ToSet(m))
    BY <1>1 DEF IsSeq
  <2>1. SubSeq(m, 1, n + 1) = [i \in 1..(n + 1) |-> m[i]] /\ m = [i \in 1..(n + 1) |-> m[i]]
    BY <2>0, <1>1
  <2> QED
    BY <2>1
<1> HIDE DEF m, n
<1>5. \A k \in 1..n : k \in 1..(n + 1)
  BY <1>1
<1>6. n + 1 \in 1..(n + 1)
  BY <1>1
<1>7. Uncovered(l, id, r) <=> \E k \in 1..n : Hit(k, l[k], SubSeq(l, 1, k))
  BY <1>1, Zenon DEF Uncovered
<1>8. Uncovered(m, id, r) <=> \E k \in 1..(n + 1) : Hit(k, m[k], SubSeq(m, 1, k))
  BY <1>2, Zenon DEF Uncovered
<1>9. Uncovered(l, id, r) => Uncovered(m, id, r)
  BY <1>1, <1>3, <1>5, <1>7, <1>8
<1>10. Hit(n + 1, rec, m) => Uncovered(m, id, r)
  BY <1>1, <1>4, <1>6, <1>8
<1> QED
  BY <1>9, <1>10 DEF m

------------------------------------------------------------------------------
(* The invariant for the indexes: a live row is in every index of its table or
   some session has still to enter it. *)
Owed(z, id, r, row) ==
  \E c \in Sessions : z[c].at = "enter" /\ z[c].id = id /\ \E w \in ToSet(z[c].rows) : w.id = r /\ w.row = row
Found(schema, i, v, id, r, row) ==
  /\ \A x \in DOMAIN i : x[1] = id => <<row[At(schema, x[2])], r>> \in i[x]
  /\ \A x \in DOMAIN v : x[1] = id /\ HasDims(row, schema, x[2]) => r \in DOMAIN v[x]

RowsAreListed == \A c \in Sessions : session[c].at = "enter" => IsSeq(session[c].rows)
RowsAreKept ==
  ~raced => \A id \in DOMAIN store : \A r \in DOMAIN store[id] :
    Uncovered(log, id, r) \/ Owed(session, id, r, Last(store[id][r]))
                          \/ Found(catalog[id].columns, indexes, vectors, id, r, Last(store[id][r]))
CoverInv == DbInv /\ RowsAreListed /\ RowsAreKept

(* Steps of a session that has no row to enter, and that leave the rows and the
   indexes. *)
LEMMA KeptLater ==
    ASSUME CoverInv, NEW c \in Sessions, NEW new, session' = [session EXCEPT ![c] = new],
           session[c].at # "enter" \/ session[c].rows = <<>>, new.at # "enter" \/ new.rows = <<>>,
           UNCHANGED <<indexes, vectors, raced>>,
           \A id \in DOMAIN store : catalog'[id] = catalog[id],
           \A id \in DOMAIN store' : \A r \in DOMAIN store'[id] :
             /\ id \in DOMAIN store /\ r \in DOMAIN store[id] /\ store'[id][r] = store[id][r]
             /\ Uncovered(log, id, r) => Uncovered(log', id, r)
    PROVE  RowsAreListed' /\ RowsAreKept'
<1>1. session'[c] = new /\ \A d \in Sessions \ {c} : session'[d] = session[d]
  BY MoveIs DEF CoverInv
<1>2. RowsAreListed'
  BY <1>1, EmptyIsSeq DEF CoverInv, RowsAreListed
<1>3. ASSUME NEW id, NEW r, NEW row, Owed(session, id, r, row) PROVE Owed(session', id, r, row)
  <2>1. PICK d \in Sessions : session[d].at = "enter" /\ session[d].id = id /\
               \E w \in ToSet(session[d].rows) : w.id = r /\ w.row = row
    BY <1>3 DEF Owed
  <2>2. d # c
    BY <2>1, EmptyIsSeq
  <2> QED
    BY <2>1, <2>2, <1>1 DEF Owed
<1>4. ASSUME ~raced, NEW id \in DOMAIN store', NEW r \in DOMAIN store'[id], ~Uncovered(log', id, r)
      PROVE  \/ Owed(session', id, r, Last(store'[id][r]))
             \/ Found(catalog'[id].columns, indexes', vectors', id, r, Last(store'[id][r]))
  <2>1. id \in DOMAIN store /\ r \in DOMAIN store[id] /\ store'[id][r] = store[id][r] /\ ~Uncovered(log, id, r)
    BY <1>4
  <2>2. \/ Owed(session, id, r, Last(store[id][r]))
        \/ Found(catalog[id].columns, indexes, vectors, id, r, Last(store[id][r]))
    BY <1>4, <2>1 DEF CoverInv, RowsAreKept
  <2> QED
    BY <2>1, <2>2, <1>3
<1>5. RowsAreKept'
  BY <1>4 DEF RowsAreKept
<1> QED
  BY <1>2, <1>5

LEMMA CoverInit == ASSUME Init PROVE CoverInv
<1>1. DbInv
  BY DbInit
<1>3. RowsAreListed
  BY DEF Init, RowsAreListed, Idle
<1>4. store = Empty
  BY DEF Init
<1>5. RowsAreKept
  BY <1>4 DEF RowsAreKept, Empty
<1> QED
  BY <1>1, <1>3, <1>5 DEF CoverInv

(* Steps that leave the log and the rows: what a session is sent, the prompts,
   the scan of a CREATE INDEX, the return. *)
LEMMA QuietKeeps ==
    ASSUME CoverInv, NEW c \in Sessions, NEW new, session' = [session EXCEPT ![c] = new],
           session[c].at # "enter" \/ session[c].rows = <<>>, new.at # "enter" \/ new.rows = <<>>,
           UNCHANGED <<log, catalog, store, indexes, vectors, raced>>
    PROVE  RowsAreListed' /\ RowsAreKept'
<1>1. /\ \A id \in DOMAIN store : catalog'[id] = catalog[id]
      /\ \A id \in DOMAIN store' : \A r \in DOMAIN store'[id] :
           /\ id \in DOMAIN store /\ r \in DOMAIN store[id] /\ store'[id][r] = store[id][r]
           /\ Uncovered(log, id, r) => Uncovered(log', id, r)
  OBVIOUS
<1> QED
  BY <1>1, KeptLater

LEMMA QuietCovers ==
    ASSUME CoverInv, NEW c \in Sessions,
           \/ \E sent \in Statements : Receive(c, sent)
           \/ \E prompt \in Prompts : Chat(c, prompt)
           \/ Speak(c) \/ ScanForIndex(c) \/ Return(c)
    PROVE  RowsAreListed' /\ RowsAreKept'
<1>1. ASSUME NEW sent \in Statements, Receive(c, sent) PROVE RowsAreListed' /\ RowsAreKept'
  <2>1. Sound(Accepted(sent))
    BY AcceptedIs, StatementsAssumption
  <2>2. session' = [session EXCEPT ![c] = Accepted(sent)] /\ session[c].at = "idle"
        /\ UNCHANGED <<log, catalog, store, indexes, vectors, raced>>
    BY <1>1 DEF Receive
  <2>3. Accepted(sent).at # "enter"
    BY <2>1 DEF Sound
  <2> QED
    BY <2>2, <2>3, QuietKeeps
<1>2. ASSUME NEW prompt \in Prompts, Chat(c, prompt) PROVE RowsAreListed' /\ RowsAreKept'
  <2> DEFINE s == [Idle EXCEPT !.at = "chat", !.stmt = prompt, !.rows = Summary]
  <2>1. /\ session[c].at = "idle"
        /\ session' = [session EXCEPT ![c] = s] \/ session' = session
        /\ UNCHANGED <<log, catalog, store, indexes, vectors, raced>>
    BY <1>2 DEF Chat, Become
  <2>2. s.at = "chat"
    BY DEF Idle
  <2> HIDE DEF s
  <2>3. session' = session => session' = [session EXCEPT ![c] = session[c]]
    BY DEF CoverInv, DbInv, SessionsAreSound
  <2>4. CASE session' = [session EXCEPT ![c] = s]
    BY <2>1, <2>2, <2>4, QuietKeeps
  <2>5. CASE session' = session
    BY <2>1, <2>3, <2>5, QuietKeeps
  <2> QED
    BY <2>1, <2>4, <2>5
<1>3. ASSUME Speak(c) PROVE RowsAreListed' /\ RowsAreKept'
  <2>1. /\ session[c].at = "chat"
        /\ UNCHANGED <<log, catalog, store, indexes, vectors, raced>>
    BY <1>3 DEF Speak
  <2>2. \E s : session' = [session EXCEPT ![c] = s] /\ s.at # "enter"
    BY <1>3, SpeakIs DEF CoverInv, Sound
  <2> QED
    BY <2>1, <2>2, QuietKeeps
<1>4. ASSUME ScanForIndex(c) PROVE RowsAreListed' /\ RowsAreKept'
  <2> DEFINE s == [session[c] EXCEPT !.at = "register", !.seen = Contents(store, session[c].id)]
  <2>1. session[c].at = "build" /\ session' = [session EXCEPT ![c] = s]
        /\ UNCHANGED <<log, catalog, store, indexes, vectors, raced>>
    BY <1>4 DEF ScanForIndex, Become
  <2>2. s.at = "register"
    <3>1. AsSession(session[c])
      BY DEF CoverInv, DbInv, SessionsAreSound, SessionIs, SessionFits, AsSession
    <3> QED
      BY <3>1, SeenMoves
  <2> HIDE DEF s
  <2> QED
    BY <2>1, <2>2, QuietKeeps
<1>5. ASSUME Return(c) PROVE RowsAreListed' /\ RowsAreKept'
  <2>1. session[c].rows = <<>> /\ session' = [session EXCEPT ![c] = Idle]
        /\ UNCHANGED <<log, catalog, store, indexes, vectors, raced>>
    BY <1>5 DEF Return, Become
  <2>2. Idle.at # "enter"
    BY DEF Idle
  <2> QED
    BY <2>1, <2>2, QuietKeeps
<1> QED
  BY <1>1, <1>2, <1>3, <1>4, <1>5

(* Steps that leave the rows, whatever they log. *)
LEMMA GrownKeeps ==
    ASSUME CoverInv, open, NEW c \in Sessions, NEW new, session' = [session EXCEPT ![c] = new],
           session[c].at # "enter" \/ session[c].rows = <<>>, new.at # "enter" \/ new.rows = <<>>,
           UNCHANGED <<indexes, vectors, raced>>,
           log' = log \/ \E rec : log' = Append(log, rec),
           \A id \in DOMAIN catalog : catalog'[id] = catalog[id],
           \A id \in DOMAIN store' : \A r \in DOMAIN store'[id] :
             id \in DOMAIN store /\ r \in DOMAIN store[id] /\ store'[id][r] = store[id][r]
    PROVE  RowsAreListed' /\ RowsAreKept'
<1>1. DOMAIN store \subseteq DOMAIN catalog /\ IsSeq(log)
  BY OpenIs DEF CoverInv
<1>2. \A id, r : Uncovered(log, id, r) => Uncovered(log', id, r)
  BY <1>1, UncoveredLater
<1> QED
  BY <1>1, <1>2, KeptLater

LEMMA CreateTableCovers ==
    ASSUME CoverInv, NEW c \in Sessions, CreateTable(c)
    PROVE  RowsAreListed' /\ RowsAreKept'
<1> DEFINE schema == NewSchema(session[c].stmt)
           id == NextTableId
           new == [Idle EXCEPT !.at = "store", !.id = id]
<1>1. session[c].at = "bound" /\ UNCHANGED <<open, store, indexes, vectors, raced>>
  BY DEF CreateTable, Bound, counters
<1>2. /\ log' = log \/ \E rec : log' = Append(log, rec)
      /\ catalog' = catalog \/ catalog' = Put(catalog, id, schema)
      /\ session' = [session EXCEPT ![c] = Idle] \/ session' = [session EXCEPT ![c] = new]
  <2> DEFINE rec == [kind |-> "CreateTable", id |-> id, schema |-> schema]
  <2>1. rec.id = id /\ rec.schema = schema /\ rec.kind = "CreateTable"
    OBVIOUS
  <2>2. LET r == RegisterTable([catalog |-> catalog, names |-> names], id, schema) IN r.catalog = Put(catalog, id, schema)
    BY TablesRegistered
  <2> HIDE DEF id, schema
  <2>3. log' = log \/ log' = Append(log, rec)
    BY DEF CreateTable, Append1, AppendFails, id, schema
  <2>4. catalog' = catalog \/ catalog' = Put(catalog, id, schema)
    BY <2>1, <2>2 DEF CreateTable, id, schema
  <2>5. session' = [session EXCEPT ![c] = Idle] \/ session' = [session EXCEPT ![c] = new]
    BY DEF CreateTable, Become, id, schema
  <2> HIDE DEF rec
  <2> QED
    BY <2>1, <2>3, <2>4, <2>5
<1>3. open
  BY <1>1, IsOpen DEF CoverInv
<1>4. id \notin DOMAIN catalog
  <2>1. Consistent(Replay(log)) /\ catalog = Replay(log).catalog
    BY <1>3, OpenIs DEF CoverInv
  <2>2. id = Max({0} \cup DOMAIN Replay(log).catalog) + 1
    BY <2>1 DEF NextTableId
  <2> DEFINE s == Replay(log)
  <2> HIDE DEF id, s
  <2>3. Consistent(s) /\ id = Max({0} \cup DOMAIN s.catalog) + 1
    BY <2>1, <2>2 DEF s
  <2>4. id \notin DOMAIN s.catalog
    BY <2>3, FreshId, Zenon
  <2> QED
    BY <2>1, <2>4 DEF s, id
<1>5. Idle.at # "enter" /\ new.at # "enter"
  BY DEF Idle
<1> HIDE DEF id, schema, new
<1>6. \A x \in DOMAIN catalog : catalog'[x] = catalog[x]
  <2>1. \A x \in DOMAIN catalog \ {id} : Put(catalog, id, schema)[x] = catalog[x]
    BY DEF Put
  <2>2. catalog' = catalog \/ catalog' = Put(catalog, id, schema)
    BY <1>2
  <2>3. DOMAIN catalog \ {id} = DOMAIN catalog
    BY <1>4
  <2> QED
    BY <2>1, <2>2, <2>3
<1> QED
  BY <1>1, <1>2, <1>3, <1>5, <1>6, GrownKeeps

LEMMA StoreTableCovers ==
    ASSUME CoverInv, NEW c \in Sessions, StoreTable(c)
    PROVE  RowsAreListed' /\ RowsAreKept'
<1>1. /\ session[c].at = "store" /\ session' = [session EXCEPT ![c] = Idle] /\ store' = CreateInStore(store, session[c].id)
      /\ UNCHANGED <<log, open, catalog, indexes, vectors, raced>>
  BY DEF StoreTable, Become, counters
<1>2. open /\ Idle.at # "enter"
  BY <1>1, IsOpen DEF CoverInv, Idle
<1>3. \A id \in DOMAIN store' : \A r \in DOMAIN store'[id] :
        id \in DOMAIN store /\ r \in DOMAIN store[id] /\ store'[id][r] = store[id][r]
  BY <1>1 DEF CreateInStore, Put, Empty
<1> QED
  BY <1>1, <1>2, <1>3, GrownKeeps

LEMMA LogIndexCovers ==
    ASSUME CoverInv, NEW c \in Sessions, LogIndex(c)
    PROVE  RowsAreListed' /\ RowsAreKept'
<1> DEFINE z == session[c]
           id == names[z.stmt.table]
           rec == [kind |-> "CreateIndex", id |-> id, column |-> z.stmt.columns[1]]
           new == [z EXCEPT !.at = "build", !.id = id]
<1>1. z.at = "bound" /\ UNCHANGED <<open, catalog, store, indexes, vectors, raced>>
  BY DEF LogIndex, Bound, counters
<1>2. /\ log' = log \/ log' = Append(log, rec)
      /\ session' = [session EXCEPT ![c] = Idle] \/ session' = [session EXCEPT ![c] = new]
  <2>1. rec.id = id
    OBVIOUS
  <2>2. log' = log \/ log' = Append(log, rec)
    BY DEF LogIndex, Append1, AppendFails
  <2>3. session' = [session EXCEPT ![c] = Idle] \/ session' = [session EXCEPT ![c] = new]
    BY <2>1 DEF LogIndex, Become
  <2> QED
    BY <2>2, <2>3
<1>3. open
  BY <1>1, IsOpen DEF CoverInv
<1>4. Idle.at # "enter" /\ new.at # "enter"
  <2>1. AsSession(z)
    BY DEF CoverInv, DbInv, SessionsAreSound, SessionIs, SessionFits, AsSession
  <2> HIDE DEF z, id
  <2>2. new.at = "build"
    BY <2>1, IdMoves
  <2> QED
    BY <2>2 DEF Idle
<1> HIDE DEF id, rec, new
<1> QED
  BY <1>1, <1>2, <1>3, <1>4, GrownKeeps

(* A crash leaves no rows in the process, *)
LEMMA CrashCovers == ASSUME CoverInv, Crash PROVE RowsAreListed' /\ RowsAreKept'
<1>1. store' = Empty /\ session' = [c \in Sessions |-> Idle] /\ log' = log
  BY DEF Crash
<1>2. RowsAreListed'
  BY <1>1 DEF RowsAreListed, Idle
<1>3. RowsAreKept'
  BY <1>1 DEF RowsAreKept, Empty
<1> QED
  BY <1>1, <1>2, <1>3

(* and recovery builds every index from all the rows. *)
LEMMA RecoverCovers == ASSUME CoverInv, Recover PROVE RowsAreListed' /\ RowsAreKept'
<1> DEFINE s == Replay(log)
           Schema(x) == s.catalog[x[1]].columns
           Of(vector) == {x \in ToSet(s.specs) : IsVector(Schema(x), x[2]) = vector}
           Scalar(x) == Entries(Contents(s.store, x[1]), At(Schema(x), x[2]))
           Vectors(x) == BuildVectors(Contents(s.store, x[1]), Schema(x), x[2])
<1>1. /\ catalog' = s.catalog /\ store' = s.store /\ session' = [c \in Sessions |-> Idle] /\ log' = log
  BY DEF Recover
<1>2. indexes' = [x \in Of(FALSE) |-> Scalar(x)] /\ vectors' = [x \in Of(TRUE) |-> Vectors(x)]
  BY Zenon DEF Recover
<1> HIDE DEF s, Of
<1>3. RowsAreListed'
  BY <1>1 DEF RowsAreListed, Idle
<1>4. ASSUME NEW id \in DOMAIN s.store, NEW r \in DOMAIN s.store[id]
      PROVE  Found(s.catalog[id].columns, indexes', vectors', id, r, Last(s.store[id][r]))
  <2> DEFINE schema == s.catalog[id].columns
             contents == Contents(s.store, id)
             row == Last(s.store[id][r])
  <2>1. r \in DOMAIN contents /\ contents[r] = row
    BY DEF Contents
  <2> HIDE DEF contents, row
  <2>2. ASSUME NEW x \in DOMAIN indexes', x[1] = id PROVE <<row[At(schema, x[2])], r>> \in indexes'[x]
    <3>1. indexes'[x] = Entries(contents, At(schema, x[2]))
      BY <1>2, <2>2 DEF contents
    <3> QED
      BY <2>1, <3>1 DEF Entries
  <2>3. ASSUME NEW x \in DOMAIN vectors', x[1] = id, HasDims(row, schema, x[2]) PROVE r \in DOMAIN vectors'[x]
    <3>1. vectors'[x] = BuildVectors(contents, schema, x[2])
      BY <1>2, <2>3 DEF contents
    <3> QED
      BY <2>1, <2>3, <3>1 DEF BuildVectors
  <2> QED
    BY <2>2, <2>3 DEF Found, row
<1>5. RowsAreKept'
  BY <1>1, <1>4 DEF RowsAreKept
<1> QED
  BY <1>1, <1>3, <1>5

(* A new index has the rows of the scan, which are those of the table unless
   somebody wrote to it meanwhile. *)
LEMMA RegisterIndexCovers ==
    ASSUME CoverInv, NEW c \in Sessions, RegisterIndex(c)
    PROVE  RowsAreListed' /\ RowsAreKept'
<1> DEFINE z == session[c]
           y == OrderedBy(z)
           schema == catalog[z.id].columns
           scalar == indexes' = Put(indexes, y, Entries(z.seen, At(schema, y[2]))) /\ vectors' = vectors
           vector == vectors' = Put(vectors, y, BuildVectors(z.seen, schema, y[2])) /\ indexes' = indexes
<1>1. /\ z.at = "register" /\ session' = [session EXCEPT ![c] = Idle]
      /\ UNCHANGED <<log, catalog, store>>
      /\ raced' = (raced \/ z.seen # Contents(store, z.id))
  BY DEF RegisterIndex, Become, counters
<1>2. scalar \/ vector
  BY Zenon DEF RegisterIndex, OrderedBy
<1>3. session'[c] = Idle /\ \A d \in Sessions \ {c} : session'[d] = session[d]
  BY <1>1, MoveIs DEF CoverInv
<1>4. RowsAreListed'
  BY <1>3 DEF CoverInv, RowsAreListed, Idle
<1>5. y[1] = z.id
  BY DEF OrderedBy
<1> HIDE DEF y, scalar, vector
<1>6. ASSUME NEW id, NEW r, NEW row, Owed(session, id, r, row) PROVE Owed(session', id, r, row)
  <2>1. PICK d \in Sessions : session[d].at = "enter" /\ session[d].id = id /\
               \E w \in ToSet(session[d].rows) : w.id = r /\ w.row = row
    BY <1>6 DEF Owed
  <2>2. d # c
    BY <2>1, <1>1
  <2> QED
    BY <2>1, <2>2, <1>3 DEF Owed
<1>7. ASSUME NEW id \in DOMAIN store, NEW r \in DOMAIN store[id], z.seen = Contents(store, z.id),
             Found(catalog[id].columns, indexes, vectors, id, r, Last(store[id][r]))
      PROVE  Found(catalog[id].columns, indexes', vectors', id, r, Last(store[id][r]))
  <2> DEFINE row == Last(store[id][r])
             columns == catalog[id].columns
  <2>1. id = z.id => r \in DOMAIN z.seen /\ z.seen[r] = row
    BY <1>7 DEF Contents
  <2>2. id = z.id => columns = schema
    OBVIOUS
  <2> HIDE DEF row, columns, schema, z
  <2>3. Found(columns, indexes, vectors, id, r, row)
    BY <1>7 DEF row, columns
  <2>4. CASE scalar
    <3>1. ASSUME NEW x \in DOMAIN indexes', x[1] = id PROVE <<row[At(columns, x[2])], r>> \in indexes'[x]
      <4>1. CASE x = y
        <5>1. indexes'[x] = Entries(z.seen, At(schema, x[2])) /\ id = z.id
          BY <2>4, <3>1, <4>1, <1>5 DEF scalar, Put
        <5> QED
          BY <5>1, <2>1, <2>2 DEF Entries
      <4>2. CASE x # y
        <5>1. x \in DOMAIN indexes /\ indexes'[x] = indexes[x]
          BY <2>4, <3>1, <4>2 DEF scalar, Put
        <5> QED
          BY <5>1, <2>3, <3>1 DEF Found
      <4> QED
        BY <4>1, <4>2
    <3> QED
      BY <2>3, <2>4, <3>1 DEF Found, scalar, row, columns
  <2>5. CASE vector
    <3>1. ASSUME NEW x \in DOMAIN vectors', x[1] = id, HasDims(row, columns, x[2]) PROVE r \in DOMAIN vectors'[x]
      <4>1. CASE x = y
        <5>1. vectors'[x] = BuildVectors(z.seen, schema, x[2]) /\ id = z.id
          BY <2>5, <3>1, <4>1, <1>5 DEF vector, Put
        <5> QED
          BY <5>1, <2>1, <2>2, <3>1 DEF BuildVectors
      <4>2. CASE x # y
        <5>1. x \in DOMAIN vectors /\ vectors'[x] = vectors[x]
          BY <2>5, <3>1, <4>2 DEF vector, Put
        <5> QED
          BY <5>1, <2>3, <3>1 DEF Found
      <4> QED
        BY <4>1, <4>2
    <3> QED
      BY <2>3, <2>5, <3>1 DEF Found, vector, row, columns
  <2> QED
    BY <1>2, <2>4, <2>5
<1> HIDE DEF z
<1>8. ASSUME ~raced', NEW id \in DOMAIN store, NEW r \in DOMAIN store[id], ~Uncovered(log, id, r)
      PROVE  \/ Owed(session', id, r, Last(store[id][r]))
             \/ Found(catalog[id].columns, indexes', vectors', id, r, Last(store[id][r]))
  <2>1. ~raced /\ z.seen = Contents(store, z.id)
    BY <1>1, <1>8
  <2>2. \/ Owed(session, id, r, Last(store[id][r]))
        \/ Found(catalog[id].columns, indexes, vectors, id, r, Last(store[id][r]))
    BY <2>1, <1>8 DEF CoverInv, RowsAreKept
  <2> QED
    BY <2>1, <2>2, <1>6, <1>7
<1>9. RowsAreKept'
  BY <1>1, <1>8 DEF RowsAreKept
<1> QED
  BY <1>1, <1>4, <1>9

(* The row at the head of the list is entered, the others stay on it. *)
LEMMA EnterCovers ==
    ASSUME CoverInv, NEW c \in Sessions, EnterRow(c)
    PROVE  RowsAreListed' /\ RowsAreKept'
<1> DEFINE z == session[c]
           w == Head(z.rows)
           schema == catalog[z.id].columns
           new == [z EXCEPT !.rows = Tail(@)]
<1>1. /\ z.at = "enter" /\ z.rows # <<>> /\ session' = [session EXCEPT ![c] = new]
      /\ UNCHANGED <<log, catalog, store, raced>>
  BY DEF EnterRow, Become, counters
<1>2. indexes' = [x \in DOMAIN indexes |->
        IF x[1] = z.id THEN indexes[x] \cup {<<w.row[At(schema, x[2])], w.id>>} ELSE indexes[x]]
  BY Zenon DEF EnterRow
<1>3. vectors' = [x \in DOMAIN vectors |->
        IF x[1] = z.id /\ HasDims(w.row, schema, x[2]) /\ w.id \notin DOMAIN vectors[x]
        THEN Put(vectors[x], w.id, w.row[At(schema, x[2])]) ELSE vectors[x]]
  BY Zenon DEF EnterRow
<1>4. new.at = "enter" /\ new.id = z.id /\ new.rows = Tail(z.rows)
  <2>1. AsSession(z)
    BY DEF CoverInv, DbInv, SessionsAreSound, SessionIs, SessionFits, AsSession
  <2> HIDE DEF z
  <2>2. new = [at |-> z.at, stmt |-> z.stmt, id |-> z.id, rows |-> Tail(z.rows), seen |-> z.seen]
    BY <2>1, RowsMove
  <2> HIDE DEF new
  <2> QED
    BY <2>2, <1>1
<1>5. session'[c] = new /\ \A d \in Sessions \ {c} : session'[d] = session[d]
  BY <1>1, MoveIs DEF CoverInv
<1>6. IsSeq(Tail(z.rows)) /\ ToSet(z.rows) = {w} \cup ToSet(Tail(z.rows))
  BY <1>1, TailIs DEF CoverInv, RowsAreListed
<1> HIDE DEF z, w, schema, new
<1>7. RowsAreListed'
  BY <1>4, <1>5, <1>6 DEF CoverInv, RowsAreListed
<1>8. ASSUME NEW id, NEW r, NEW row, Found(catalog[id].columns, indexes, vectors, id, r, row)
      PROVE  Found(catalog[id].columns, indexes', vectors', id, r, row)
  BY <1>2, <1>3, <1>8 DEF Found, Put
<1>9. Found(schema, indexes', vectors', z.id, w.id, w.row)
  BY <1>2, <1>3 DEF Found, Put
<1>10. ASSUME NEW id, NEW r, NEW row, Owed(session, id, r, row)
       PROVE  Owed(session', id, r, row) \/ Found(catalog[id].columns, indexes', vectors', id, r, row)
  <2>1. PICK d \in Sessions : session[d].at = "enter" /\ session[d].id = id /\
               \E v \in ToSet(session[d].rows) : v.id = r /\ v.row = row
    BY <1>10 DEF Owed
  <2>2. CASE d # c
    BY <2>1, <2>2, <1>5 DEF Owed
  <2>3. CASE d = c
    <3>1. PICK v \in ToSet(z.rows) : v.id = r /\ v.row = row
      BY <2>1, <2>3 DEF z
    <3>2. z.id = id
      BY <2>1, <2>3 DEF z
    <3>3. CASE v = w
      BY <3>1, <3>2, <3>3, <1>9 DEF schema
    <3>4. CASE v \in ToSet(Tail(z.rows))
      BY <3>1, <3>2, <3>4, <1>4, <1>5 DEF Owed
    <3> QED
      BY <3>1, <3>3, <3>4, <1>6
  <2> QED
    BY <2>2, <2>3
<1>11. ASSUME ~raced, NEW id \in DOMAIN store, NEW r \in DOMAIN store[id], ~Uncovered(log, id, r)
       PROVE  \/ Owed(session', id, r, Last(store[id][r]))
              \/ Found(catalog[id].columns, indexes', vectors', id, r, Last(store[id][r]))
  <2>1. \/ Owed(session, id, r, Last(store[id][r]))
        \/ Found(catalog[id].columns, indexes, vectors, id, r, Last(store[id][r]))
    BY <1>11 DEF CoverInv, RowsAreKept
  <2> QED
    BY <2>1, <1>8, <1>10
<1>12. RowsAreKept'
  BY <1>1, <1>11 DEF RowsAreKept
<1> QED
  BY <1>1, <1>7, <1>12

(* A writing statement: what it changes it has still to enter. *)
LEMMA WriteCovers ==
    ASSUME CoverInv, DbInv', "sync" \notin Faults, NEW c \in Sessions, Write(c)
    PROVE  RowsAreListed' /\ RowsAreKept'
<1> DEFINE z == session[c]
           id == names[z.stmt.table]
           schema == catalog[id].columns
           created == IF PassesFirst(z.stmt, schema) THEN CreateInStore(store, id) ELSE store
           sets == WriteSets(z.stmt, schema, id, Contents(created, id))
           s == Replay(log)
           Rows(ops) == IF z.stmt.kind = "delete" THEN <<>> ELSE ops
           Enter(r) == [z EXCEPT !.at = "enter", !.id = id, !.rows = r]
           Fails == session' = [session EXCEPT ![c] = Idle] /\ store' = created
           Succeeds(ops) == store' = ApplyWriteSet(created, ops) /\ session' = [session EXCEPT ![c] = Enter(Rows(ops))]
<1>1. z.at = "bound" /\ z.stmt.kind \in {"insert", "update", "delete"} /\ UNCHANGED <<open, catalog, indexes, vectors, raced>>
  BY DEF Write, counters
<1>2. \/ Fails /\ log' = log
      \/ Succeeds(<<>>) /\ log' = log
      \/ \E ops \in sets : ops # <<>> /\ Succeeds(ops) /\ log' = Append(log, [kind |-> "Commit", ops |-> ops])
  BY Zenon DEF Write, Become, Append1, AppendFails
<1>3. open /\ open' /\ SessionIs(z) /\ DbInv
  BY <1>1, IsOpen DEF CoverInv
<1>4. /\ IsSeq(log) /\ Consistent(s) /\ catalog = s.catalog /\ DOMAIN store \subseteq DOMAIN catalog
      /\ DOMAIN s.store = DOMAIN catalog
      /\ \A x \in DOMAIN catalog : s.store[x] = View(store, x)
      /\ \A n \in DOMAIN names : names[n] \in DOMAIN catalog
  BY <1>3, OpenIs DEF View
<1>5. AsSession(z) /\ BoundIn(z.stmt, catalog, names)
  BY <1>1, <1>3 DEF SessionIs, SessionFits, AsSession
<1>6. id \in DOMAIN catalog /\ IsSeq(schema) /\ Keyed(s.store[id], schema)
  <2>1. id \in DOMAIN catalog
    BY <1>1, <1>4, <1>5 DEF BoundIn
  <2> QED
    BY <1>4, <2>1 DEF Consistent, IsSchema
<1> HIDE DEF s
<1>7. /\ DOMAIN created \subseteq DOMAIN catalog /\ DOMAIN store \subseteq DOMAIN created
      /\ \A x \in DOMAIN created : created[x] = s.store[x]
      /\ \A x \in DOMAIN created : \A r \in DOMAIN created[x] : x \in DOMAIN store /\ store[x] = created[x]
      /\ PassesFirst(z.stmt, schema) => id \in DOMAIN created
  BY <1>4, <1>6 DEF CreateInStore, Put, View, Empty
<1>8. ASSUME NEW ops \in sets
      PROVE  /\ IsWriteSet(ops, id, schema) /\ OfKind(ops, z.stmt.kind, DOMAIN Contents(created, id))
             /\ id \in DOMAIN created
  <2> DEFINE contents == Contents(created, id)
  <2>1. IsFiniteSet(DOMAIN contents) /\ \A r \in DOMAIN contents : KeyedBy(contents[r], schema, r)
    <3>1. id \in DOMAIN created => Keyed(created[id], schema)
      BY <1>6, <1>7
    <3> QED
      BY <3>1, ContentsAre
  <2>2. (z.stmt.kind = "insert" => IsInsert(z.stmt, schema)) /\ (z.stmt.kind = "update" => SetText(z.stmt.set))
    BY <1>5 DEF BoundIn
  <2> HIDE DEF contents, schema, created
  <2>3. ops \in WriteSets(z.stmt, schema, id, contents)
    BY DEF contents
  <2>4. /\ IsWriteSet(ops, id, schema) /\ PassesFirst(z.stmt, schema)
        /\ OfKind(ops, z.stmt.kind, DOMAIN contents)
    BY <1>1, <1>6, <2>1, <2>2, <2>3, WriteSetsAre
  <2> QED
    BY <1>7, <2>4 DEF contents
<1>9. ASSUME NEW r PROVE Enter(r).at = "enter" /\ Enter(r).id = id /\ Enter(r).rows = r
  <2> DEFINE w == [z EXCEPT !.at = "enter", !.id = id]
  <2>1. w = [at |-> "enter", stmt |-> z.stmt, id |-> id, rows |-> z.rows, seen |-> z.seen]
    BY <1>5, IdMoves
  <2>2. Enter(r) = [w EXCEPT !.rows = r]
    BY Zenon
  <2> HIDE DEF w
  <2>3. AsSession(w)
    BY <2>1 DEF AsSession
  <2>4. Enter(r) = [at |-> "enter", stmt |-> z.stmt, id |-> id, rows |-> r, seen |-> z.seen]
    BY <2>1, <2>2, <2>3, RowsMove
  <2> HIDE DEF Enter
  <2> QED
    BY <2>4
<1> HIDE DEF created, sets, Enter, id, schema
<1>10. ASSUME NEW new, new.at # "enter" \/ new.rows = <<>>, session' = [session EXCEPT ![c] = new],
              store' = created, log' = log
       PROVE  RowsAreListed' /\ RowsAreKept'
  <2>1. \A x \in DOMAIN store' : \A r \in DOMAIN store'[x] :
          x \in DOMAIN store /\ r \in DOMAIN store[x] /\ store'[x][r] = store[x][r]
    BY <1>7, <1>10
  <2> QED
    BY <1>1, <1>3, <1>10, <2>1, GrownKeeps
<1>11. CASE Fails /\ log' = log
  <2>1. Idle.at # "enter"
    BY DEF Idle
  <2> QED
    BY <1>10, <1>11, <2>1
<1>12. CASE Succeeds(<<>>) /\ log' = log
  <2>1. store' = created /\ Rows(<<>>) = <<>>
    BY <1>12, NothingWritten
  <2> QED
    BY <1>9, <1>10, <1>12, <2>1
<1>13. ASSUME NEW ops \in sets, ops # <<>>, Succeeds(ops), log' = Append(log, [kind |-> "Commit", ops |-> ops])
       PROVE  RowsAreListed' /\ RowsAreKept'
  <2> DEFINE kind == z.stmt.kind
             table == created[id]
             after == store'[id]
             t == Replay(log')
  <2>1. IsWriteSet(ops, id, schema) /\ id \in DOMAIN created /\ OfKind(ops, kind, DOMAIN table)
    BY <1>8, <1>13 DEF Contents
  <2>2. \A i \in 1..Len(ops) : ops[i].table = id
    BY <2>1 DEF IsWriteSet, OpFits
  <2>3. /\ DOMAIN store' = DOMAIN created /\ \A x \in DOMAIN created \ {id} : store'[x] = created[x]
        /\ \E u : Tabled(table, ops, u, Len(ops)) /\ after = u[Len(ops)]
    BY <1>13, <2>1, <2>2, WriteSetIs DEF IsWriteSet
  <2>4. table = s.store[id] /\ Keyed(table, schema)
    BY <1>6, <1>7, <2>1
  <2>5. /\ DOMAIN t.store = DOMAIN catalog /\ Keyed(t.store[id], schema)
        /\ \A x \in DOMAIN catalog : t.store[x] = View(store', x)
    BY <1>1, <1>3, <1>6 DEF DbInv, StoreIsReplayed, LogIsSound, Consistent, View, schema
  <2>6. after = t.store[id] /\ Keyed(after, schema)
    BY <1>6, <2>1, <2>3, <2>5 DEF View
  <2> HIDE DEF table, after, t, kind, s
  <2>8. \A r \in DOMAIN after :
          \/ r \in DOMAIN table /\ after[r] = table[r]
          \/ kind \in {"insert", "update"} /\ \E w \in ToSet(ops) : w.id = r /\ w.row = Last(after[r])
          \/ Uncovered(log', id, r)
    <3> TAKE r \in DOMAIN after
    <3>0. \/ r \in DOMAIN table /\ after[r] = table[r]
          \/ kind \in {"insert", "update"} /\ \E w \in ToSet(ops) : w.id = r /\ w.row = Last(after[r])
          \/ \E w \in ToSet(ops) : w.op = "Delete" /\ w.table = id /\ w.id = r
      <4>1. \E u : Tabled(table, ops, u, Len(ops)) /\ after = u[Len(ops)]
        BY <2>3
      <4> QED
        BY <2>1, <2>4, <2>6, <4>1, CommitLeaves
    <3>1. r \in DOMAIN Contents(t.store, id)
      BY <1>6, <2>5, <2>6 DEF Contents
    <3> DEFINE rec == [kind |-> "Commit", ops |-> ops]
    <3>2. rec.kind = "Commit" /\ rec.ops = ops /\ log' = Append(log, rec) /\ IsSeq(log)
      BY <1>4, <1>13
    <3> HIDE DEF rec
    <3>3. (\E w \in ToSet(ops) : w.op = "Delete" /\ w.table = id /\ w.id = r) => Uncovered(log', id, r)
      BY <3>1, <3>2, UncoveredLater DEF t
    <3> QED
      BY <3>0, <3>3
  <2>9. \A x, r : Uncovered(log, x, r) => Uncovered(log', x, r)
    BY <1>4, <1>13, UncoveredLater
  <2>12. /\ session'[c] = Enter(Rows(ops)) /\ \A d \in Sessions \ {c} : session'[d] = session[d]
         /\ Enter(Rows(ops)).at = "enter" /\ Enter(Rows(ops)).id = id /\ Enter(Rows(ops)).rows = Rows(ops)
         /\ IsSeq(Rows(ops))
    <3>1. IsSeq(Rows(ops))
      BY <2>1, EmptyIsSeq DEF IsWriteSet
    <3> QED
      BY <1>3, <1>9, <1>13, <3>1, MoveIs
  <2>13. RowsAreListed'
    BY <2>12 DEF CoverInv, RowsAreListed
  <2>14. ASSUME NEW x, NEW r, NEW row, Owed(session, x, r, row) PROVE Owed(session', x, r, row)
    <3>1. PICK d \in Sessions : session[d].at = "enter" /\ session[d].id = x /\
                 \E w \in ToSet(session[d].rows) : w.id = r /\ w.row = row
      BY <2>14 DEF Owed
    <3>2. d # c
      BY <3>1, <1>1
    <3> QED
      BY <3>1, <3>2, <2>12 DEF Owed
  <2>15. ASSUME ~raced, NEW x \in DOMAIN store, NEW r \in DOMAIN store[x], ~Uncovered(log', x, r)
         PROVE  \/ Owed(session', x, r, Last(store[x][r]))
                \/ Found(catalog[x].columns, indexes, vectors, x, r, Last(store[x][r]))
    BY <2>9, <2>14, <2>15 DEF CoverInv, RowsAreKept
  <2>16. ASSUME ~raced, NEW x \in DOMAIN store', NEW r \in DOMAIN store'[x], ~Uncovered(log', x, r)
         PROVE  \/ Owed(session', x, r, Last(store'[x][r]))
                \/ Found(catalog[x].columns, indexes, vectors, x, r, Last(store'[x][r]))
    <3>1. CASE x # id
      <4>1. x \in DOMAIN store /\ store'[x] = store[x]
        BY <3>1, <1>7, <2>3, <2>16
      <4> QED
        BY <4>1, <2>15, <2>16
    <3>2. CASE x = id /\ r \in DOMAIN table /\ after[r] = table[r]
      <4>1. x \in DOMAIN store /\ store[x] = table /\ store'[x][r] = store[x][r]
        BY <3>2, <1>7, <2>1 DEF table, after
      <4> QED
        BY <3>2, <4>1, <2>15, <2>16
    <3>3. ASSUME x = id, kind \in {"insert", "update"}, NEW w \in ToSet(ops), w.id = r, w.row = Last(after[r])
          PROVE  Owed(session', x, r, Last(store'[x][r]))
      <4>1. Rows(ops) = ops
        BY <3>3 DEF kind
      <4> QED
        BY <3>3, <4>1, <2>12 DEF Owed, after
    <3>4. x = id => r \in DOMAIN after
      BY <2>16 DEF after
    <3> QED
      BY <3>1, <3>2, <3>3, <3>4, <2>8, <2>16
  <2>17. RowsAreKept'
    BY <1>1, <2>16 DEF RowsAreKept
  <2> QED
    BY <2>13, <2>17
<1> QED
  BY <1>2, <1>11, <1>12, <1>13

LEMMA CoverStep == ASSUME CoverInv, "sync" \notin Faults, [ANext]_avars PROVE CoverInv'
<1> DEFINE Kept == RowsAreListed' /\ RowsAreKept'
<1>1. DbInv'
  BY DbStep DEF CoverInv
<1> SUFFICES Kept
  BY <1>1 DEF CoverInv
<1>2. CASE Recover
  BY <1>2, RecoverCovers
<1>3. CASE Crash
  BY <1>3, CrashCovers
<1>4. ASSUME NEW c \in Sessions, NEW sent \in Statements, Receive(c, sent) PROVE Kept
  BY <1>4, QuietCovers
<1>5. ASSUME NEW c \in Sessions,
             CreateTable(c) \/ StoreTable(c) \/ LogIndex(c) \/ ScanForIndex(c) \/ RegisterIndex(c)
             \/ Write(c) \/ EnterRow(c) \/ Return(c)
      PROVE  Kept
  BY <1>1, <1>5, CreateTableCovers, StoreTableCovers, LogIndexCovers, QuietCovers, RegisterIndexCovers, WriteCovers, EnterCovers
<1>6. ASSUME NEW c \in Sessions, Speak(c) PROVE Kept
  BY <1>6, QuietCovers
<1>7. ASSUME NEW c \in Sessions, NEW prompt \in Prompts, Chat(c, prompt) PROVE Kept
  BY <1>7, QuietCovers
<1>8. CASE UNCHANGED vars
  <2>1. UNCHANGED <<log, catalog, store, indexes, vectors, session, raced>>
    BY <1>8 DEF vars, volatile
  <2>2. RowsAreListed'
    BY <2>1 DEF CoverInv, RowsAreListed
  <2>3. RowsAreKept'
    BY <2>1 DEF CoverInv, RowsAreKept
  <2> QED
    BY <2>1, <2>2, <2>3
<1>9. CASE Next
  BY <1>2, <1>3, <1>4, <1>5, <1>9 DEF Next
<1>10. CASE UNCHANGED avars
  BY <1>8, <1>10 DEF avars
<1> QED
  BY <1>6, <1>7, <1>9, <1>10 DEF ANext

(* As long as no write met the scan of a new index, every row that no session
   is still entering is found through the indexes of its table, whether they
   were built, maintained or recovered (create_index, the inserts after a
   commit, recovery), unless a DELETE has uncovered an older version of it. *)
THEOREM IndexesFindRows == ASSUME "sync" \notin Faults PROVE ASpec => []IndexesCoverRows
<1>1. AInit => CoverInv
  BY CoverInit DEF AInit
<1>2. CoverInv /\ [ANext]_avars => CoverInv'
  BY CoverStep
<1>3. CoverInv => IndexesCoverRows
  <2> SUFFICES ASSUME CoverInv, ~raced, NEW id \in DOMAIN store, NEW r \in DOMAIN store[id], ~Uncovered(log, id, r)
               PROVE  LET row == Last(store[id][r])  schema == catalog[id].columns
                          entering == \E c \in Sessions : session[c].at = "enter" /\ session[c].id = id /\
                                        \E w \in ToSet(session[c].rows) : w.id = r
                      IN entering \/
                         /\ \A x \in DOMAIN indexes : x[1] = id => <<row[At(schema, x[2])], r>> \in indexes[x]
                         /\ \A x \in DOMAIN vectors : x[1] = id /\ HasDims(row, schema, x[2]) => r \in DOMAIN vectors[x]
    BY DEF IndexesCoverRows
  <2>1. \/ Owed(session, id, r, Last(store[id][r]))
        \/ Found(catalog[id].columns, indexes, vectors, id, r, Last(store[id][r]))
    BY DEF CoverInv, RowsAreKept
  <2> QED
    BY <2>1 DEF Owed, Found
<1> QED
  BY <1>1, <1>2, <1>3, PTL DEF ASpec

------------------------------------------------------------------------------
(* What a write statement changes: the rows its WHERE is true for. *)

(* A tree is what there is at the end of the empty path. *)
LEMMA RootIs == ASSUME NEW tree PROVE SubTree(tree, <<>>) = tree
<1> DEFINE F(iter) == iter = [s \in SUBSET DOMAIN <<>> |->
                        IF s = {} THEN tree
                        ELSE LET x == Max(s) IN iter[s \ {x}][<<>>[x]]]
<1>1. SubTree(tree, <<>>) = (CHOOSE iter : F(iter))[DOMAIN <<>>]
  BY Zenon DEF SubTree, FoldLeft, MapThenFoldSet
<1>2. DOMAIN <<>> = {} /\ SUBSET DOMAIN <<>> = {{}}
  OBVIOUS
<1>3. F([s \in SUBSET DOMAIN <<>> |-> tree])
  BY <1>2
<1>4. \E iter : F(iter)
  BY <1>3
<1>5. F(CHOOSE iter : F(iter))
  BY <1>4
<1> QED
  BY <1>1, <1>2, <1>5

(* Where a tree of three-valued nodes has a property: a leaf in Yes has it, a
   node in All if both children have it, one in Some if one has.  There is a
   set of nodes like this, and it takes in whatever keeps within the rules. *)
Follows(X, S, Yes, All, Some, L, R) ==
  {p \in S : p \in Yes \/ (p \in All /\ L[p] \in X /\ R[p] \in X) \/ (p \in Some /\ (L[p] \in X \/ R[p] \in X))}

LEMMA Spreads ==
    ASSUME NEW S, NEW Yes, NEW All, NEW Some, NEW L, NEW R
    PROVE  \E X : /\ X = Follows(X, S, Yes, All, Some, L, R)
                  /\ \A Y : Y \subseteq Follows(Y, S, Yes, All, Some, L, R) => Y \subseteq X
<1> DEFINE F(Y) == Follows(Y, S, Yes, All, Some, L, R)
           X == UNION {Y \in SUBSET S : Y \subseteq F(Y)}
<1>1. ASSUME NEW Y, NEW Z, Y \subseteq Z PROVE F(Y) \subseteq F(Z)
  BY <1>1 DEF Follows
<1>2. \A Y : F(Y) \subseteq S
  BY DEF Follows
<1> HIDE DEF F
<1>3. \A Y : Y \subseteq F(Y) => Y \subseteq X
  BY <1>2
<1>4. X \subseteq F(X)
  <2> SUFFICES ASSUME NEW Y \in SUBSET S, Y \subseteq F(Y) PROVE Y \subseteq F(X)
    OBVIOUS
  <2>1. Y \subseteq X
    BY <1>3
  <2> HIDE DEF X
  <2> QED
    BY <2>1, <1>1
<1>5. F(X) \subseteq X
  <2> HIDE DEF X
  <2>1. F(X) \subseteq F(F(X))
    BY <1>1, <1>4
  <2> QED
    BY <2>1, <1>3
<1> HIDE DEF X
<1> QED
  BY <1>3, <1>4, <1>5 DEF F

(* A condition has a value, and it is that of its root. *)
Four == {"True", "False", "Unknown", "Failed"}
LEMMA CompareIs == ASSUME NEW x, NEW op, NEW y PROVE Compare(x, op, y) \in Four
<1>1. \A b : Tri(b) \in Four
  BY DEF Tri, Four
<1>2. {"Failed", "Unknown"} \subseteq Four
  BY DEF Four
<1> QED
  BY <1>1, <1>2 DEF Compare

(* AND and OR of the four values a condition can have. *)
LEMMA TriIs ==
    ASSUME NEW a \in Four, NEW b \in Four
    PROVE  /\ (TriAnd(a, b) = "Failed" <=> a = "Failed" \/ b = "Failed") /\ (TriOr(a, b) = "Failed" <=> a = "Failed" \/ b = "Failed")
           /\ a # "Failed" /\ b # "Failed" =>
                /\ TriAnd(a, b) = "True" <=> a = "True" /\ b = "True"
                /\ TriAnd(a, b) = "False" <=> a = "False" \/ b = "False"
                /\ TriOr(a, b) = "True" <=> a = "True" \/ b = "True"
                /\ TriOr(a, b) = "False" <=> a = "False" /\ b = "False"
           /\ TriAnd(a, b) \in Four /\ TriOr(a, b) \in Four
BY DEF TriAnd, TriOr, Four

(* The value of a condition is a value of its root node, from some values of
   the subtrees: for a comparison, which has none, that is the comparison. *)
LEMMA EvalIs == ASSUME NEW e, NEW row PROVE \E a, b : EvalTri(e, row) = EvalNode(e, row, a, b)
<1> DEFINE S == Seq({"left", "right"})
           L == [p \in S |-> Append(p, "left")]
           R == [p \in S |-> Append(p, "right")]
           x(p) == SubTree(e, p)
           value(p) == Compare(row[x(p).left], x(p).op, IF x(p).right.column # 0 THEN row[x(p).right.column] ELSE x(p).right.value)
           leaf(p) == x(p).kind = "Comparison"
           F(tri) == tri = [path \in S |-> EvalNode(SubTree(e, path), row, tri[Append(path, "left")], tri[Append(path, "right")])]
<1>1. EvalTri(e, row) = (CHOOSE tri : F(tri))[<<>>]
  BY Zenon DEF EvalTri
<1>2. <<>> \in S /\ \A p \in S : L[p] = Append(p, "left") /\ R[p] = Append(p, "right") /\ L[p] \in S /\ R[p] \in S
  OBVIOUS
<1>3. \A p : value(p) \in Four
  BY CompareIs
<1>4. \A p, a, b : EvalNode(x(p), row, a, b) = IF leaf(p) THEN value(p) ELSE IF x(p).kind = "AND" THEN TriAnd(a, b) ELSE TriOr(a, b)
  BY DEF EvalNode
<1> HIDE DEF x, value, leaf, S, L, R
<1> DEFINE Bad == {p \in S : leaf(p) /\ value(p) = "Failed"}
           Inner == {p \in S : ~leaf(p)}
           Nowhere == {p \in S : FALSE}
<1>5. PICK X : /\ X = Follows(X, S, Bad, Nowhere, Inner, L, R)
               /\ \A Y : Y \subseteq Follows(Y, S, Bad, Nowhere, Inner, L, R) => Y \subseteq X
  <2> HIDE DEF Bad, Inner, Nowhere
  <2> QED
    BY Spreads
<1> DEFINE Both == {p \in S \ X : ~leaf(p) /\ x(p).kind = "AND"}
           Either == {p \in S \ X : ~leaf(p) /\ x(p).kind # "AND"}
           Yes == {p \in S \ X : leaf(p) /\ value(p) = "True"}
           Open == {p \in S \ X : leaf(p) /\ value(p) # "False"}
<1>6. PICK T : /\ T = Follows(T, S, Yes, Both, Either, L, R)
               /\ \A Y : Y \subseteq Follows(Y, S, Yes, Both, Either, L, R) => Y \subseteq T
  BY Spreads
<1>7. PICK N : /\ N = Follows(N, S, Open, Both, Either, L, R)
               /\ \A Y : Y \subseteq Follows(Y, S, Open, Both, Either, L, R) => Y \subseteq N
  BY Spreads
<1>8. T \subseteq N
  <2>1. Yes \subseteq Open
    OBVIOUS
  <2> HIDE DEF Yes, Open, Both, Either
  <2>2. T \subseteq Follows(T, S, Open, Both, Either, L, R)
    BY <1>6, <2>1 DEF Follows
  <2> QED
    BY <1>7, <2>2
<1> DEFINE f == [p \in S |-> IF p \in X THEN "Failed" ELSE IF p \in T THEN "True" ELSE IF p \in N THEN "Unknown" ELSE "False"]
<1>9. \A p \in S : /\ f[p] \in Four /\ (f[p] = "Failed" <=> p \in X)
                   /\ p \notin X => (f[p] = "True" <=> p \in T) /\ (f[p] = "False" <=> p \notin N)
  BY <1>8 DEF Four
<1>10. f = [p \in S |-> f[p]]
  OBVIOUS
<1> HIDE DEF f
<1>11. ASSUME NEW p \in S PROVE f[p] = EvalNode(x(p), row, f[L[p]], f[R[p]])
  <2>0. L[p] \in S /\ R[p] \in S
    BY <1>2
  <2>1. p \in X <=> (leaf(p) /\ value(p) = "Failed") \/ (~leaf(p) /\ (L[p] \in X \/ R[p] \in X))
    BY <1>5 DEF Follows
  <2>4. p \notin X =>
          (p \in T <=> IF leaf(p) THEN value(p) = "True"
                       ELSE IF x(p).kind = "AND" THEN L[p] \in T /\ R[p] \in T ELSE L[p] \in T \/ R[p] \in T)
    BY <1>6 DEF Follows
  <2>5. p \notin X =>
          (p \in N <=> IF leaf(p) THEN value(p) # "False"
                       ELSE IF x(p).kind = "AND" THEN L[p] \in N /\ R[p] \in N ELSE L[p] \in N \/ R[p] \in N)
    BY <1>7 DEF Follows
  <2>2. CASE leaf(p)
    BY <1>3, <1>4, <1>9, <2>1, <2>2, <2>4, <2>5 DEF Four
  <2>3. CASE ~leaf(p)
    <3> DEFINE a == f[L[p]]
               b == f[R[p]]
               w == IF x(p).kind = "AND" THEN TriAnd(a, b) ELSE TriOr(a, b)
    <3>1. EvalNode(x(p), row, a, b) = w
      BY <1>4, <2>3
    <3>2. a \in Four /\ b \in Four
      BY <1>9, <2>0
    <3>3. w \in Four /\ (w = "Failed" <=> a = "Failed" \/ b = "Failed")
      BY <3>2, TriIs
    <3>4. a # "Failed" /\ b # "Failed" =>
            /\ w = "True" <=> IF x(p).kind = "AND" THEN a = "True" /\ b = "True" ELSE a = "True" \/ b = "True"
            /\ w = "False" <=> IF x(p).kind = "AND" THEN a = "False" \/ b = "False" ELSE a = "False" /\ b = "False"
      BY <3>2, TriIs
    <3> HIDE DEF w
    <3>5. (w = "Failed" <=> f[p] = "Failed") /\ (w = "True" <=> f[p] = "True") /\ (w = "False" <=> f[p] = "False")
      BY <1>9, <2>0, <2>1, <2>3, <2>4, <2>5, <3>2, <3>3, <3>4
    <3> QED
      BY <1>9, <3>1, <3>3, <3>5 DEF Four
  <2> QED
    BY <2>2, <2>3
<1>12. F(f)
  BY <1>2, <1>10, <1>11 DEF x
<1>13. F(CHOOSE tri : F(tri))
  BY <1>12
<1> DEFINE tri == CHOOSE tri : F(tri)
<1>14. tri[<<>>] = EvalNode(SubTree(e, <<>>), row, tri[Append(<<>>, "left")], tri[Append(<<>>, "right")])
  BY <1>2, <1>13
<1> QED
  BY <1>1, <1>14, RootIs

(* The value of a comparison. *)
LEMMA LeafIs ==
    ASSUME NEW row, NEW l, NEW op, NEW r
    PROVE  EvalTri(Leaf(l, op, r), row) = Compare(row[l], op, IF r.column # 0 THEN row[r.column] ELSE r.value)
BY EvalIs DEF EvalNode, Leaf

(* What stands on the right of a comparison: a column, or a literal of the
   type of the column on the left. *)
Right(token, schema, type) ==
  IF token.k = "column" /\ Position(schema, token.n) # 0 THEN {Operand(Position(schema, token.n), NullValue)}
  ELSE IF ParseLiteralChecked(token, type) = {} THEN {}
       ELSE {Operand(0, CHOOSE x \in ParseLiteralChecked(token, type) : TRUE)}

LEMMA ComparisonIs ==
    ASSUME NEW ts, NEW p, NEW schema
    PROVE  LET c == Comparison(ts, p, schema)
               left == Position(schema, ts[p].n) IN
           \/ c = Reject
           \/ /\ c.ok /\ ~(p + 2 > Len(ts)) /\ left # 0 /\ ts[p + 1].n[2] \in ComparisonOps
              /\ \E right \in Right(ts[p + 2], schema, schema[left].type) :
                   c = Parsed(Leaf(left, ts[p + 1].n[2], right), p + 3)
<1> DEFINE left == Position(schema, ts[p].n)
           token == ts[p + 2]
           right == IF token.k = "column" THEN Position(schema, token.n) ELSE 0
           value == ParseLiteralChecked(token, schema[left].type)
           refused == \/ p + 2 > Len(ts) \/ ts[p].k # "column" \/ left = 0
                      \/ ts[p + 1].k # "symbol" \/ ts[p + 1].n[2] \notin ComparisonOps
           found == IF right # 0 THEN Parsed(Leaf(left, ts[p + 1].n[2], Operand(right, NullValue)), p + 3)
                    ELSE IF value = {} THEN Reject
                    ELSE Parsed(Leaf(left, ts[p + 1].n[2], Operand(0, CHOOSE x \in value : TRUE)), p + 3)
<1>1. Comparison(ts, p, schema) = IF refused THEN Reject ELSE found
  BY DEF Comparison
<1>2. \A e, q : Parsed(e, q).ok
  BY DEF Parsed
<1>3. right # 0 => Operand(right, NullValue) \in Right(token, schema, schema[left].type)
  BY DEF Right
<1>4. right = 0 /\ value # {} => Operand(0, CHOOSE x \in value : TRUE) \in Right(token, schema, schema[left].type)
  BY DEF Right
<1> HIDE DEF right, value, left
<1>5. CASE refused
  BY <1>1, <1>5
<1>6. CASE ~refused /\ right # 0
  <2> HIDE DEF token
  <2> QED
    BY <1>1, <1>2, <1>3, <1>6 DEF left, token
<1>7. CASE ~refused /\ right = 0 /\ value # {}
  BY <1>1, <1>2, <1>4, <1>7 DEF left
<1>8. CASE ~refused /\ right = 0 /\ value = {}
  BY <1>1, <1>8
<1> QED
  BY <1>5, <1>6, <1>7, <1>8

(* What is refused stays refused; one operand is a chain. *)
LEMMA RefusedIs ==
    ASSUME NEW ts, NEW level, NEW others
    PROVE  /\ ~Reject.ok /\ LeftDeep(level, Reject) = Reject /\ Operands(ts, level, Reject, others) = Reject
           /\ Closed(ts, Reject) = Reject /\ UpToEnd(ts, Reject) = Reject
<1>1. ~Reject.ok
  BY DEF Reject
<1> QED
  BY <1>1 DEF LeftDeep, Operands, Closed, UpToEnd

(* A level with one operand parses to that operand. *)
LEMMA OneOperand ==
    ASSUME NEW level, NEW e, NEW p
    PROVE  LeftDeep(level, Parsed(<<e>>, p)) = Parsed(e, p)
<1>1. \A x : Parsed(x, p).ok /\ Parsed(x, p).expr = x /\ Parsed(x, p).pos = p
  BY DEF Parsed
<1> DEFINE one == Parsed(<<e>>, p)
           rest == Tail(one.expr)
           F(iter) == iter = [s \in SUBSET DOMAIN rest |->
                        IF s = {} THEN Head(one.expr)
                        ELSE LET x == Max(s) IN Node(level, iter[s \ {x}], rest[x])]
<1>3. one.ok /\ one.pos = p /\ Head(one.expr) = e /\ DOMAIN rest = {} /\ SUBSET DOMAIN rest = {{}}
  <2>1. Head(<<e>>) = e /\ Tail(<<e>>) = <<>>
    OBVIOUS
  <2>2. one.ok /\ one.pos = p /\ Head(one.expr) = e /\ rest = <<>>
    BY <1>1, <2>1, Zenon
  <2> HIDE DEF one
  <2> QED
    BY <2>2
<1>4. LeftDeep(level, one) = Parsed((CHOOSE iter : F(iter))[DOMAIN rest], p)
  <2>1. LeftDeep(level, one) = IF one.ok THEN Parsed((CHOOSE iter : F(iter))[DOMAIN rest], one.pos) ELSE Reject
    BY Zenon DEF LeftDeep, FoldLeft, MapThenFoldSet
  <2> QED
    BY <1>3, <2>1, Zenon
<1> HIDE DEF one
<1>5. F([s \in SUBSET DOMAIN rest |-> e])
  BY <1>3
<1>6. \E iter : F(iter)
  BY <1>5
<1>7. F(CHOOSE iter : F(iter))
  BY <1>6
<1>8. (CHOOSE iter : F(iter))[DOMAIN rest] = e
  BY <1>3, <1>7
<1> QED
  BY <1>4, <1>8, Zenon DEF one

(* Three tokens that begin with a column are a comparison or are refused. *)
LEMMA CompileIs ==
    ASSUME NEW ts, Len(ts) = 3, ts[1].k = "column", NEW schema
    PROVE  Compile(ts, schema) = Comparison(ts, 1, schema)
<1> DEFINE D == Nat \ {0}
           c == Comparison(ts, 1, schema)
           Atom(f, p) == ParseAtom(ts, p, schema, LeftDeep("OR", f[<<"OR", p + 1>>]))
           Step(f, level, p) == Operands(ts, level, IF level = "OR" THEN LeftDeep("AND", f[<<"AND", p>>]) ELSE Atom(f, p), f)
           F(f) == f = [at \in {"OR", "AND"} \X D |-> Step(f, at[1], at[2])]
           g == CHOOSE f : F(f)
           chain == IF c.ok THEN Parsed(<<c.expr>>, 4) ELSE Reject
           h == [at \in {"OR", "AND"} \X D |-> IF at[2] = 1 THEN chain ELSE Reject]
<1>1. ParseChains(ts, schema) = g
  BY DEF ParseChains
<1>2. c = Reject \/ (c.ok /\ c = Parsed(c.expr, 4))
  <2>1. c = Reject \/ \E e : c = Parsed(e, 4)
    BY ComparisonIs
  <2>2. \A e : Parsed(e, 4).ok /\ Parsed(e, 4).expr = e
    BY DEF Parsed
  <2> QED
    BY <2>1, <2>2, Zenon
<1>3. ASSUME NEW f PROVE Atom(f, 1) = c
  BY DEF ParseAtom, IsSym
<1>4. ASSUME NEW f, NEW p \in D, p # 1, f[<<"OR", p + 1>>] = Reject \/ p > 3 PROVE Atom(f, p) = Reject
  <2>0. p + 2 > Len(ts) /\ (p > 3 => ~(p <= Len(ts)))
    <3>1. p \in Nat /\ p # 0 /\ p # 1
      BY <1>4, Zenon
    <3> QED
      BY <3>1
  <2>1. Comparison(ts, p, schema) = Reject
    BY <2>0, ComparisonIs
  <2>2. CASE p > 3
    BY <2>0, <2>1, <2>2, Zenon DEF ParseAtom
  <2>3. CASE f[<<"OR", p + 1>>] = Reject
    BY <2>1, <2>3, RefusedIs, Zenon DEF ParseAtom
  <2> QED
    BY <1>4, <2>2, <2>3
<1>5. \A level, f : LeftDeep(level, chain) = c /\ Operands(ts, level, c, f) = chain
  <2>1. 4 > Len(ts)
    OBVIOUS
  <2> HIDE DEF c
  <2>2. CASE c = Reject
    <3>1. chain = Reject
      BY <2>2, RefusedIs
    <3> QED
      BY <2>2, <3>1, RefusedIs, Zenon
  <2>3. CASE c.ok /\ c = Parsed(c.expr, 4)
    <3>1. chain = Parsed(<<c.expr>>, 4)
      BY <2>3
    <3>2. \A level, f : LeftDeep(level, Parsed(<<c.expr>>, 4)) = Parsed(c.expr, 4)
                        /\ Operands(ts, level, Parsed(c.expr, 4), f) = Parsed(<<c.expr>>, 4)
      <4> SUFFICES ASSUME NEW level, NEW f PROVE Operands(ts, level, Parsed(c.expr, 4), f) = Parsed(<<c.expr>>, 4)
        BY OneOperand, Zenon
      <4>1. \A x : Parsed(x, 4).ok /\ Parsed(x, 4).expr = x /\ Parsed(x, 4).pos = 4
        BY DEF Parsed
      <4> QED
        BY <2>1, <4>1 DEF Operands
    <3> QED
      BY <2>3, <3>1, <3>2, Zenon
  <2> QED
    BY <1>2, <2>2, <2>3
<1> HIDE DEF c, Atom, chain
<1>6. F(h)
  <2>1. ASSUME NEW level \in {"OR", "AND"}, NEW p \in D, p # 1 PROVE Step(h, level, p) = Reject
    <3>1. h[<<"AND", p>>] = Reject /\ h[<<"OR", p + 1>>] = Reject
      BY <2>1
    <3> HIDE DEF h
    <3> QED
      BY <3>1, <2>1, <1>4, RefusedIs
  <2>2. ASSUME NEW level \in {"OR", "AND"} PROVE Step(h, level, 1) = chain
    <3>1. h[<<"AND", 1>>] = chain
      OBVIOUS
    <3> HIDE DEF h
    <3> QED
      BY <1>3, <1>5, <3>1
  <2>3. \A at \in {"OR", "AND"} \X D : at[1] \in {"OR", "AND"} /\ at[2] \in D /\ h[at] = IF at[2] = 1 THEN chain ELSE Reject
    OBVIOUS
  <2>4. h = [at \in {"OR", "AND"} \X D |-> h[at]]
    OBVIOUS
  <2> HIDE DEF Step, h
  <2>5. \A at \in {"OR", "AND"} \X D : h[at] = Step(h, at[1], at[2])
    BY <2>1, <2>2, <2>3
  <2> QED
    BY <2>4, <2>5
<1>7. F(g)
  <2> HIDE DEF Step, h
  <2> QED
    BY <1>6
<1>8. ASSUME NEW level \in {"OR", "AND"}, NEW p \in D PROVE g[<<level, p>>] = Step(g, level, p)
  <2> HIDE DEF Step, g
  <2>1. <<level, p>> \in {"OR", "AND"} \X D
    OBVIOUS
  <2> QED
    BY <1>7, <2>1
<1> HIDE DEF g
<1>9. ASSUME NEW p \in D, p # 1, g[<<"OR", p + 1>>] = Reject \/ p > 3 PROVE g[<<"OR", p>>] = Reject
  <2>1. Atom(g, p) = Reject
    BY <1>4, <1>9
  <2>2. g[<<"AND", p>>] = Reject
    BY <1>8, <2>1, RefusedIs
  <2> QED
    BY <1>8, <2>2, RefusedIs
<1>10. g[<<"OR", 1>>] = chain
  <2>1. g[<<"AND", 1>>] = chain
    BY <1>3, <1>5, <1>8
  <2> QED
    BY <1>5, <1>8, <2>1
<1>11. Compile(ts, schema) = UpToEnd(ts, c)
  BY <1>1, <1>5, <1>10 DEF Compile
<1>12. UpToEnd(ts, c) = c
  <2>1. Parsed(c.expr, 4).pos = Len(ts) + 1
    BY DEF Parsed
  <2> QED
    BY <1>2, <2>1, RefusedIs DEF UpToEnd
<1> QED
  BY <1>11, <1>12 DEF c

(* What a comparison is worth, by its operator and its two values. *)
LEMMA CompareCases ==
    ASSUME NEW x, NEW op, NEW y
    PROVE  /\ op \notin ComparisonOps => Compare(x, op, y) = "Failed"
           /\ op \in ComparisonOps /\ (IsNull(x) \/ IsNull(y)) => Compare(x, op, y) = "Unknown"
           /\ op \in ComparisonOps /\ ~(IsNull(x) \/ IsNull(y)) /\ Comparable(x, y) => Compare(x, op, y) = Tri(Holds(op, Rank(x), Rank(y)))
           /\ op \in ComparisonOps /\ ~(IsNull(x) \/ IsNull(y)) /\ ~Comparable(x, y) => Compare(x, op, y) = "Failed"
<1> DEFINE null == IsNull(x) \/ IsNull(y)
           comparable == Comparable(x, y)
           known == op \in ComparisonOps
           t == Tri(Holds(op, Rank(x), Rank(y)))
<1>1. Compare(x, op, y) = CASE ~known -> "Failed"
          [] known /\ null -> "Unknown"
          [] known /\ comparable -> t
          [] OTHER -> "Failed"
  BY DEF Compare
<1>0. null => ~comparable
  BY DEF IsNull, Comparable, IsNumber
<1> HIDE DEF null, comparable, known, t
<1>2. CASE ~known
  BY <1>1, <1>2 DEF known
<1>3. CASE known /\ null
  BY <1>0, <1>1, <1>3 DEF known, null
<1>4. CASE known /\ ~null /\ comparable
  BY <1>1, <1>4 DEF known, null, comparable, t
<1>5. CASE known /\ ~null /\ ~comparable
  BY <1>1, <1>5 DEF known, null, comparable
<1> QED
  BY <1>2, <1>3, <1>4, <1>5

(* A comparison that holds compares two values, those of one type by content. *)
LEMMA TrueIs ==
    ASSUME NEW x, NEW op, NEW y, IsInt(x), IsInt(y), Compare(x, op, y) = "True"
    PROVE  x.t # "Null" /\ y.t # "Null" /\ (x.t = y.t => Holds(op, x.v, y.v))
<1>1. op \in ComparisonOps /\ ~IsNull(x) /\ ~IsNull(y) /\ Comparable(x, y) /\ Holds(op, Rank(x), Rank(y))
  <2> DEFINE h == Holds(op, Rank(x), Rank(y))
  <2>1. Tri(h) = "True" => h
    BY DEF Tri
  <2> HIDE DEF h
  <2>2. "Failed" # "True" /\ "Unknown" # "True"
    OBVIOUS
  <2> QED
    BY <2>1, <2>2, CompareCases DEF h
<1>2. CASE x.t = "Integer" /\ y.t = "Integer"
  <2>1. x.v \in Int /\ y.v \in Int /\ Rank(x) = 2 * x.v /\ Rank(y) = 2 * y.v
    BY <1>2 DEF IsInt, Rank, IsNumber, AsHalves
  <2>2. Holds(op, 2 * x.v, 2 * y.v)
    BY <1>1, <2>1
  <2>3. ASSUME NEW i \in Int, NEW j \in Int, Holds(op, 2 * i, 2 * j) PROVE Holds(op, i, j)
    <3>1. (2 * i < 2 * j <=> i < j) /\ (2 * i <= 2 * j <=> i <= j) /\ (2 * i > 2 * j <=> i > j)
          /\ (2 * i >= 2 * j <=> i >= j) /\ (2 * i = 2 * j <=> i = j)
      OBVIOUS
    <3>2. op \in ComparisonOps
      BY <1>1
    <3> QED
      BY <2>3, <3>1, <3>2 DEF Holds, ComparisonOps
  <2> QED
    BY <1>2, <2>1, <2>2, <2>3
<1>3. CASE x.t = y.t /\ x.t # "Integer"
  BY <1>1, <1>3 DEF Rank, IsNumber, AsHalves, IsNull
<1> QED
  BY <1>1, <1>2, <1>3 DEF IsNull

(* A literal that converts is the same value for the parser of conditions and
   for the search in a key or an index. *)
LEMMA LiteralsAgree ==
    ASSUME NEW token, IsInt(token.v), NEW type, token.k = "literal", ParseLiteralChecked(token, type) # {}
    PROVE  LET y == ParseValue(token, type) IN
           /\ y = (CHOOSE x \in ParseLiteralChecked(token, type) : TRUE) /\ y \in ParseLiteralChecked(token, type)
           /\ IsInt(y) /\ y.t = ValueType(type)
<1> DEFINE S == Convert(token.v, type)
           y == CHOOSE x \in S : TRUE
<1>1. ParseLiteralChecked(token, type) = S
  BY DEF ParseLiteralChecked
<1>2. ParseValue(token, type) = y
  <2>1. S # {}
    BY <1>1
  <2> HIDE DEF S
  <2>2. ParseValue(token, type) = CASE token.k = "literal" /\ S # {} -> CHOOSE x \in S : TRUE
          [] type = "String" /\ (token.k # "literal" \/ token.v.t # "String") -> AnyText
          [] OTHER -> NullValue
    BY DEF ParseValue, S
  <2>3. type = "String" /\ (token.k # "literal" \/ token.v.t # "String") => S = {}
    BY DEF S, Convert, ValueType
  <2> QED
    BY <2>1, <2>2, <2>3
<1>3. y \in S
  BY <1>1
<1>4. \A x \in S : x.t = ValueType(type)
  BY DEF Convert, ValueType, FloatVal, Val
<1> HIDE DEF S, y
<1>5. IsInt(y)
  BY <1>1, <1>3, CheckedIs
<1> QED
  BY <1>1, <1>2, <1>3, <1>4, <1>5 DEF S, y

(* What is a key to look up is a literal. *)
LEMMA KeyIsLiteral ==
    ASSUME NEW token, NEW type, ParseValue(token, type).t = "Integer"
    PROVE  token.k = "literal" /\ ParseLiteralChecked(token, type) # {}
BY DEF ParseValue, ParseLiteralChecked, AnyText, StringVal, NullValue, Val

(* A token found in the schema names the column at its position. *)
LEMMA ColumnIs ==
    ASSUME NEW schema, IsSchema(schema), NEW name, Position(schema, name) # 0
    PROVE  LET i == Position(schema, name) IN
           i \in DOMAIN schema /\ schema[i].name = name /\ name = Name(name[2]) /\ At(schema, name[2]) = i
<1> DEFINE i == Position(schema, name)
<1>1. i \in DOMAIN schema /\ schema[i].name = name
  BY PositionIs DEF IsSchema
<1>2. schema[i] \in ToSet(schema)
  BY <1>1 DEF ToSet
<1>3. name = Name(name[2])
  BY <1>1, <1>2 DEF IsSchema
<1> QED
  BY <1>1, <1>3 DEF At

(* A comparison of three tokens that holds for a row compares the value of its
   column with a literal, when the third token is one of the column's type. *)
LEMMA ChosenIs ==
    ASSUME NEW ts, Len(ts) = 3, ts[1].k = "column", IsText(ts), NEW schema, IsSchema(schema), NEW row, IsRow(row, schema),
           Compile(ts, schema).ok, EvalTri(Compile(ts, schema).expr, row) = "True"
    PROVE  LET i == Position(schema, ts[1].n) IN
           /\ i # 0 /\ i \in DOMAIN schema /\ schema[i].name = ts[1].n /\ At(schema, ts[1].n[2]) = i
           /\ ts[3].k # "column" /\ ParseLiteralChecked(ts[3], schema[i].type) # {} =>
                LET y == ParseValue(ts[3], schema[i].type) IN
                /\ row[i].t # "Null" /\ IsInt(row[i]) /\ IsInt(y) /\ y.t = ValueType(schema[i].type)
                /\ (row[i].t = y.t => Holds(ts[2].n[2], row[i].v, y.v))
<1> DEFINE c == Comparison(ts, 1, schema)
           i == Position(schema, ts[1].n)
           type == schema[i].type
           op == ts[2].n[2]
           P == ParseLiteralChecked(ts[3], type)
<1>1. c.ok /\ EvalTri(c.expr, row) = "True"
  BY CompileIs
<1>2. i # 0 /\ \E right \in Right(ts[3], schema, type) : c = Parsed(Leaf(i, op, right), 4)
  <2>1. 1 + 2 = 3 /\ 1 + 1 = 2 /\ 1 + 3 = 4
    OBVIOUS
  <2>2. c # Reject
    BY <1>1, RefusedIs
  <2> QED
    BY <2>1, <2>2, ComparisonIs
<1>3. i \in DOMAIN schema /\ schema[i].name = ts[1].n /\ At(schema, ts[1].n[2]) = i
  BY <1>2, ColumnIs
<1> HIDE DEF c, i, type, op, P
<1>4. ASSUME ts[3].k # "column", P # {}
      PROVE  LET y == ParseValue(ts[3], type) IN
             /\ row[i].t # "Null" /\ IsInt(row[i]) /\ IsInt(y) /\ y.t = ValueType(type)
             /\ (row[i].t = y.t => Holds(op, row[i].v, y.v))
  <2> DEFINE y == CHOOSE x \in P : TRUE
             right == Operand(0, y)
  <2>1. Right(ts[3], schema, type) = {right}
    BY <1>4 DEF Right, P
  <2>2. c = Parsed(Leaf(i, op, right), 4)
    BY <1>2, <2>1
  <2>3. EvalTri(Leaf(i, op, right), row) = "True"
    BY <1>1, <2>2 DEF Parsed
  <2>4. right.column = 0 /\ right.value = y
    BY DEF Operand
  <2> HIDE DEF right
  <2>5. Compare(row[i], op, y) = "True"
    <3> HIDE DEF y
    <3>1. (IF right.column # 0 THEN row[right.column] ELSE right.value) = y
      BY <2>4
    <3> QED
      BY <2>3, <3>1, LeafIs
  <2>6. IsInt(row[i])
    BY <1>3 DEF IsRow
  <2>7. IsInt(ts[3].v)
    BY TokenIs
  <2>8. y \in P /\ IsInt(y)
    <3>1. y \in P
      BY <1>4
    <3> HIDE DEF y
    <3> QED
      BY <3>1, <2>7, CheckedIs DEF P
  <2>9. ts[3].k = "literal"
    <3>1. CASE ts[3].k = "null"
      <4>1. P = {NullValue}
        BY <3>1 DEF P, ParseLiteralChecked
      <4>2. y.t = "Null"
        BY <2>8, <4>1 DEF NullValue, Val
      <4> HIDE DEF y
      <4> QED
        BY <2>5, <2>6, <2>8, <4>2, TrueIs
    <3>2. ts[3].k \in {"null", "literal"}
      BY <1>4 DEF P, ParseLiteralChecked
    <3> QED
      BY <3>1, <3>2
  <2>10. ParseValue(ts[3], type) = y /\ y.t = ValueType(type)
    <3>1. ParseLiteralChecked(ts[3], type) # {}
      BY <1>4 DEF P
    <3>2. LET z == ParseValue(ts[3], type) IN z = (CHOOSE x \in ParseLiteralChecked(ts[3], type) : TRUE) /\ z.t = ValueType(type)
      BY <3>1, <2>7, <2>9, LiteralsAgree
    <3> QED
      BY <3>2, Zenon DEF P
  <2> HIDE DEF y
  <2> QED
    BY <2>5, <2>6, <2>8, <2>10, TrueIs
<1> QED
  BY <1>2, <1>3, <1>4 DEF i, type, op, P

(* A row that WHERE holds for is among the candidates of a write, if the index
   has it and holds values of the column's type. *)
Indexed(stmt, schema, id, row, r) ==
  \A x \in DOMAIN indexes : x[1] = id /\ IsComparison(stmt.where) /\ x[2] = stmt.where[1].n[2] =>
    LET i == At(schema, x[2])
    IN /\ <<row[i], r>> \in indexes[x] /\ row[i].t \in {"Null", ValueType(schema[i].type)}
       /\ ParseLiteralChecked(stmt.where[3], schema[i].type) # {}
Selected(stmt, schema, row) == stmt.where = <<>> \/ EvalTri(Compile(stmt.where, schema).expr, row) = "True"

LEMMA FoundAgain ==
    ASSUME NEW stmt, IsText(stmt.where), NEW schema, IsSchema(schema), Named(schema), NEW id, NEW contents,
           NEW r \in DOMAIN contents, KeyedBy(contents[r], schema, r), Supported(stmt, schema),
           Selected(stmt, schema, contents[r]), Indexed(stmt, schema, id, contents[r], r)
    PROVE  r \in Candidates(stmt, schema, id, contents)
<1> DEFINE ts == stmt.where
           row == contents[r]
           pk == PkOf(schema)
           op == ts[2].n[2]
           compared == IsComparison(ts) /\ ts[1].k = "column"
           key == ParseValue(ts[3], schema[pk].type)
           x == <<id, ts[1].n[2]>>
           literal == ParseValue(ts[3], schema[At(schema, x[2])].type)
           isKey == compared /\ pk # 0 /\ op = "=" /\ ts[1].n = schema[pk].name /\ key.t = "Integer"
           isIndexed == compared /\ x \in DOMAIN indexes /\ op \in IndexedOps
           hits == {e[2] : e \in {f \in indexes[x] : KeyHolds(op, f[1], literal)}}
           all == DOMAIN contents
<1>1. Candidates(stmt, schema, id, contents) =
        CASE isKey -> {AsU64(key.v)} \cap all [] isIndexed /\ ~isKey -> hits \cap all [] OTHER -> all
  BY Zenon DEF Candidates
<1>2. compared => Len(ts) = 3 /\ Compile(ts, schema).ok /\ EvalTri(Compile(ts, schema).expr, row) = "True"
  <2>1. Len(<<>>) # 3
    OBVIOUS
  <2> QED
    BY <2>1, Zenon DEF IsComparison, Supported, Selected
<1>3. IsRow(row, schema) /\ RowId(row, schema) = {r}
  BY DEF KeyedBy, IsRow
<1> DEFINE i == Position(schema, ts[1].n)
           type == schema[i].type
           y == ParseValue(ts[3], type)
<1>4. compared =>
        /\ i # 0 /\ i \in DOMAIN schema /\ schema[i].name = ts[1].n /\ At(schema, ts[1].n[2]) = i
        /\ ts[3].k # "column" /\ ParseLiteralChecked(ts[3], type) # {} =>
             /\ row[i].t # "Null" /\ IsInt(row[i]) /\ IsInt(y) /\ y.t = ValueType(type)
             /\ (row[i].t = y.t => Holds(op, row[i].v, y.v))
  BY <1>2, <1>3, ChosenIs
<1>5. isKey => r = AsU64(key.v)
  <2> SUFFICES ASSUME isKey PROVE r = AsU64(key.v)
    OBVIOUS
  <2>1. i = pk
    <3>1. pk \in DOMAIN schema
      BY PkIs DEF IsSchema
    <3> HIDE DEF i
    <3> QED
      BY <1>4, <3>1 DEF Named
  <2>2. ts[3].k = "literal" /\ ParseLiteralChecked(ts[3], schema[pk].type) # {}
    BY KeyIsLiteral
  <2>3. row[pk].t = "Integer" /\ AsU64(row[pk].v) = r
    BY <1>3 DEF RowId
  <2> HIDE DEF i, pk
  <2>4. Holds(op, row[pk].v, key.v)
    BY <1>4, <2>1, <2>2, <2>3
  <2>5. row[pk].v = key.v
    <3> HIDE DEF key, op, row
    <3>1. op = "="
      BY DEF op
    <3> QED
      BY <2>4, <3>1 DEF Holds
  <2> QED
    BY <2>3, <2>5
<1>6. isIndexed => r \in hits
  <2> SUFFICES ASSUME isIndexed PROVE r \in hits
    OBVIOUS
  <2>1. x[1] = id /\ x[2] = ts[1].n[2]
    OBVIOUS
  <2> HIDE DEF x
  <2>2. At(schema, x[2]) = i
    BY <1>4, <2>1
  <2>3. /\ <<row[i], r>> \in indexes[x] /\ row[i].t \in {"Null", ValueType(type)}
        /\ ParseLiteralChecked(ts[3], type) # {}
    BY <2>1, <2>2 DEF Indexed
  <2>4. ts[3].k # "column"
    BY <2>3 DEF ParseLiteralChecked
  <2> HIDE DEF i
  <2>5. row[i].t = y.t /\ Holds(op, row[i].v, y.v)
    BY <1>4, <2>3, <2>4
  <2>6. literal = y
    BY <2>2
  <2> HIDE DEF y, literal, op, row
  <2>7. KeyHolds(op, row[i], literal)
    BY <2>5, <2>6 DEF KeyHolds
  <2> DEFINE f == <<row[i], r>>
  <2>8. f[1] = row[i] /\ f[2] = r
    OBVIOUS
  <2> QED
    BY <2>3, <2>7, <2>8
<1> HIDE DEF isKey, isIndexed, hits, key
<1>7. CASE isKey
  BY <1>1, <1>5, <1>7
<1>8. CASE isIndexed /\ ~isKey
  BY <1>1, <1>6, <1>8
<1>9. CASE ~isIndexed /\ ~isKey
  BY <1>1, <1>9
<1> QED
  BY <1>7, <1>8, <1>9

(* A row its indexes find is matched exactly if WHERE is true for it. *)
LEMMA MatchingExact ==
    ASSUME NEW stmt, IsText(stmt.where), NEW schema, IsSchema(schema), Named(schema), NEW id, NEW contents,
           NEW r \in DOMAIN contents, KeyedBy(contents[r], schema, r), Supported(stmt, schema),
           Indexed(stmt, schema, id, contents[r], r)
    PROVE  r \in Matching(stmt, schema, id, contents) <=> Selected(stmt, schema, contents[r])
<1>1. r \in Matching(stmt, schema, id, contents) => Selected(stmt, schema, contents[r])
  BY DEF Matching, Selected, Eval, IsTrue
<1>2. Selected(stmt, schema, contents[r]) => r \in Candidates(stmt, schema, id, contents)
  BY FoundAgain
<1>3. r \in Candidates(stmt, schema, id, contents) /\ Selected(stmt, schema, contents[r])
        => r \in Matching(stmt, schema, id, contents)
  BY DEF Matching, Selected, Eval, IsTrue
<1> QED
  BY <1>1, <1>2, <1>3

(* A set as a sequence has each of its elements once. *)
LEMMA EachOnce ==
    ASSUME NEW S, IsFiniteSet(S)
    PROVE  LET s == SetToSeq(S) IN
           /\ IsSeq(s)
           /\ \A i \in 1..Len(s) : s[i] \in S
           /\ \A i, j \in 1..Len(s) : s[i] = s[j] => i = j
           /\ \A r \in S : \E i \in 1..Len(s) : s[i] = r
<1> DEFINE n == Cardinality(S)
           s == SetToSeq(S)
           D == 1..n
<1>1. n \in Nat
  BY FS_CardinalityType
<1>2. \E f \in [D -> S] : IsInjective(f)
  <2>1. Bijection(D, S) # {}
    BY FS_CardinalityType DEF ExistsBijection
  <2> QED
    BY <2>1 DEF Bijection, Injection
<1>3. s \in [D -> S] /\ IsInjective(s)
  BY <1>2 DEF SetToSeq
<1>4. IsSeq(s) /\ Len(s) = n
  <2> HIDE DEF s, n
  <2>1. s = [i \in 1..n |-> s[i]]
    BY <1>3
  <2> QED
    BY <2>1, <1>1, SeqMade
<1> HIDE DEF s
<1>5. s \in Injection(D, S)
  BY <1>3 DEF Injection
<1>6. Cardinality(D) = n
  <2>1. Cardinality(1..n) = IF 1 > n THEN 0 ELSE n - 1 + 1
    BY <1>1, FS_Interval
  <2> HIDE DEF n
  <2> QED
    BY <1>1, <2>1
<1> HIDE DEF D
<1>7. s \in Surjection(D, S)
  BY <1>5, <1>6, FS_Injection
<1>8. \A r \in S : \E i \in D : s[i] = r
  BY <1>7 DEF Surjection
<1> QED
  BY <1>3, <1>4, <1>8 DEF s, D, IsInjective

(* The operation of a write set on a row: k is its place, or 0. *)
Only(ops, r, k) ==
  k \in 0..Len(ops) /\ (k # 0 => ops[k].id = r) /\ \A j \in 1..Len(ops) : j # k => ops[j].id # r

LEMMA VersionsLeft ==
    ASSUME NEW table, NEW ops, Len(ops) \in Nat, NEW t, Tabled(table, ops, t, Len(ops)), NEW r, NEW k, Only(ops, r, k)
    PROVE  Versions(t[Len(ops)], r) = IF k = 0 THEN Versions(table, r) ELSE NewVersions(ops[k], Versions(table, r))
<1> DEFINE n == Len(ops)
           old == Versions(table, r)
           v(j) == Versions(t[j], r)
           Fine(j) == v(j) = IF k = 0 \/ j < k THEN old ELSE NewVersions(ops[k], old)
           Bad == {j \in Nat : j <= n /\ ~Fine(j)}
<1> HIDE DEF n
<1>0. n \in Nat /\ k \in Nat /\ k <= n
  BY DEF Only, n
<1>1. ASSUME NEW j \in 1..n, Fine(j - 1) PROVE Fine(j)
  <2>1. t[j] = ApplyOp(t[j - 1], ops[j])
    BY DEF Tabled, n
  <2>2. v(j) = IF r = ops[j].id THEN NewVersions(ops[j], v(j - 1)) ELSE v(j - 1)
    BY <2>1, VersionsAre
  <2>3. r = ops[j].id <=> j = k
    BY DEF Only, n
  <2> HIDE DEF v, old
  <2>4. CASE j = k
    <3>1. k # 0 /\ j - 1 < k
      BY <2>4, <1>0
    <3>2. v(j - 1) = old
      BY <3>1, <1>1
    <3> QED
      BY <2>2, <2>3, <2>4, <3>1, <3>2, <1>0
  <2>5. CASE j # k
    <3>1. j < k <=> j - 1 < k
      BY <2>5, <1>0
    <3> QED
      BY <2>2, <2>3, <2>5, <3>1, <1>1
  <2> QED
    BY <2>4, <2>5
<1>2. Fine(0)
  BY <1>0 DEF Tabled
<1> HIDE DEF Fine
<1>3. Bad = {}
  <2> SUFFICES ASSUME Bad # {} PROVE FALSE
    OBVIOUS
  <2>1. PICK j \in Bad : \A i \in Bad : j <= i
    BY NatMin
  <2>2. j - 1 \in Nat /\ j - 1 <= n /\ j \in 1..n /\ j - 1 \notin Bad
    BY <2>1, <1>0, <1>2
  <2> QED
    BY <2>1, <2>2, <1>1
<1>4. Fine(n)
  BY <1>0, <1>3
<1> QED
  BY <1>0, <1>4 DEF Fine, v, old, n

(* Insertions leave a row the versions it had, or give it more. *)
Inserts(ops) == \A i \in 1..Len(ops) : ops[i].op = "Insert"

LEMMA InsertsAdd ==
    ASSUME NEW table, NEW ops, Len(ops) \in Nat, NEW t, Tabled(table, ops, t, Len(ops)), NEW r,
           Inserts(ops), IsSeq(Versions(table, r))
    PROVE  LET new == Versions(t[Len(ops)], r) IN Len(new) > Len(Versions(table, r)) \/ new = Versions(table, r)
<1> DEFINE n == Len(ops)
           old == Versions(table, r)
           v(j) == Versions(t[j], r)
           Fine(j) == IsSeq(v(j)) /\ (Len(v(j)) > Len(old) \/ v(j) = old)
           Bad == {j \in Nat : j <= n /\ ~Fine(j)}
<1> HIDE DEF n
<1>0. n \in Nat
  BY DEF n
<1>1. ASSUME NEW j \in 1..n, Fine(j - 1) PROVE Fine(j)
  <2>1. t[j] = ApplyOp(t[j - 1], ops[j]) /\ ops[j].op = "Insert"
    BY DEF Tabled, Inserts, n
  <2>2. v(j) = IF r = ops[j].id THEN NewVersions(ops[j], v(j - 1)) ELSE v(j - 1)
    BY <2>1, VersionsAre
  <2>3. NewVersions(ops[j], v(j - 1)) = Append(v(j - 1), ops[j].row)
    BY <2>1 DEF NewVersions
  <2> HIDE DEF v, old
  <2>6. CASE r = ops[j].id
    <3>0. v(j) = Append(v(j - 1), ops[j].row) /\ IsSeq(v(j - 1))
      BY <1>1, <2>2, <2>3, <2>6
    <3>1. IsSeq(v(j)) /\ Len(v(j)) = Len(v(j - 1)) + 1
      BY <3>0, AppendIs
    <3>2. Len(v(j - 1)) \in Nat /\ Len(old) \in Nat
      BY <1>1, SeqIs DEF old
    <3>3. Len(v(j - 1)) >= Len(old)
      BY <1>1, <3>2
    <3> QED
      BY <3>1, <3>2, <3>3
  <2>7. CASE r # ops[j].id
    BY <1>1, <2>2, <2>7
  <2> QED
    BY <2>6, <2>7
<1>2. Fine(0)
  BY DEF Tabled
<1> HIDE DEF Fine
<1>3. Bad = {}
  <2> SUFFICES ASSUME Bad # {} PROVE FALSE
    OBVIOUS
  <2>1. PICK j \in Bad : \A i \in Bad : j <= i
    BY NatMin
  <2>2. j - 1 \in Nat /\ j - 1 <= n /\ j \in 1..n /\ j - 1 \notin Bad
    BY <2>1, <1>0, <1>2
  <2> QED
    BY <2>1, <2>2, <1>1
<1>4. Fine(n)
  BY <1>0, <1>3
<1> QED
  BY <1>4 DEF Fine, v, old, n

(* An UPDATE or a DELETE has one operation for each row it matches. *)
LEMMA WritesOnce ==
    ASSUME NEW stmt, stmt.kind \in {"update", "delete"}, NEW schema, NEW id, NEW contents, IsFiniteSet(DOMAIN contents),
           NEW ops \in WriteSets(stmt, schema, id, contents), NEW r
    PROVE  /\ Supported(stmt, schema)
           /\ stmt.kind = "update" => \A i \in DOMAIN stmt.set : Assignments(stmt, schema)[i] # {}
           /\ \E k : /\ Only(ops, r, k) /\ (k # 0 <=> r \in Matching(stmt, schema, id, contents))
                     /\ k # 0 /\ stmt.kind = "delete" => ops[k].op = "Delete"
                     /\ k # 0 /\ stmt.kind = "update" => ops[k].op = "Update" /\ ops[k].row \in NewRow(stmt, schema, contents[r])
<1> DEFINE S == Matching(stmt, schema, id, contents)
           rows == SetToSeq(S)
           n == Len(rows)
           New(k) == NewRow(stmt, schema, contents[rows[k]])
           update == stmt.kind = "update"
<1>1. IsFiniteSet(S)
  <2>1. Candidates(stmt, schema, id, contents) \subseteq DOMAIN contents
    BY Zenon DEF Candidates
  <2>2. S \subseteq DOMAIN contents
    BY <2>1 DEF Matching
  <2> QED
    BY <2>2, FS_Subset
<1> HIDE DEF S
<1>2. /\ IsSeq(rows) /\ \A k \in 1..n : rows[k] \in S
      /\ \A i, j \in 1..n : rows[i] = rows[j] => i = j
      /\ \A x \in S : \E k \in 1..n : rows[k] = x
  BY <1>1, EachOnce
<1>3. n \in Nat /\ DOMAIN rows = 1..n
  BY <1>2, SeqIs
<1>4. IF update
      THEN /\ Supported(stmt, schema) /\ \A i \in DOMAIN stmt.set : Assignments(stmt, schema)[i] # {}
           /\ \A x \in ToSet(rows) : NewRow(stmt, schema, contents[x]) # {}
           /\ ops = [k \in DOMAIN rows |-> WriteOp("Update", id, rows[k], CHOOSE x \in New(k) : TRUE)]
      ELSE Supported(stmt, schema) /\ ops = [k \in DOMAIN rows |-> WriteOp("Delete", id, rows[k], <<>>)]
  <2>1. CASE update
    <3>1. ops \in UpdateOps(stmt, schema, id, contents)
      BY <2>1 DEF WriteSets
    <3> QED
      BY <2>1, <3>1, Zenon DEF UpdateOps, S
  <2>2. CASE ~update
    <3>1. ops \in DeleteOps(stmt, schema, id, contents)
      BY <2>2 DEF WriteSets
    <3> QED
      BY <2>2, <3>1, Zenon DEF DeleteOps, S
  <2> QED
    BY <2>1, <2>2
<1> HIDE DEF rows, n
<1>5. ASSUME NEW k \in 1..n
      PROVE  /\ ops[k].id = rows[k] /\ ops[k].op = IF update THEN "Update" ELSE "Delete"
             /\ update => ops[k].row \in New(k)
  <2> DEFINE new == CHOOSE x \in New(k) : TRUE
  <2>1. CASE update
    <3>1. rows[k] \in ToSet(rows)
      BY <1>3 DEF ToSet
    <3>2. new \in New(k)
      BY <1>4, <2>1, <3>1
    <3> HIDE DEF new
    <3>3. ops[k] = WriteOp("Update", id, rows[k], new)
      BY <1>3, <1>4, <2>1 DEF new
    <3> QED
      BY <2>1, <3>2, <3>3 DEF WriteOp
  <2>2. CASE ~update
    <3>1. ops[k] = WriteOp("Delete", id, rows[k], <<>>)
      BY <1>3, <1>4, <2>2
    <3> QED
      BY <2>2, <3>1 DEF WriteOp
  <2> QED
    BY <2>1, <2>2
<1>6. Len(ops) = n
  <2>1. CASE update
    <3>1. ops = [k \in 1..n |-> ops[k]]
      BY <1>3, <1>4, <2>1
    <3> QED
      BY <1>3, <3>1, SeqMade
  <2>2. CASE ~update
    <3>1. ops = [k \in 1..n |-> ops[k]]
      BY <1>3, <1>4, <2>2
    <3> QED
      BY <1>3, <3>1, SeqMade
  <2> QED
    BY <2>1, <2>2
<1> HIDE DEF New
<1>7. CASE r \notin S
  <2>1. Only(ops, r, 0)
    BY <1>2, <1>3, <1>5, <1>6, <1>7 DEF Only
  <2> QED
    BY <1>4, <1>7, <2>1 DEF S
<1>8. CASE r \in S
  <2>1. PICK k \in 1..n : rows[k] = r
    BY <1>2, <1>8
  <2>2. Only(ops, r, k) /\ k # 0
    BY <1>2, <1>3, <1>5, <1>6, <2>1 DEF Only
  <2>3. /\ ops[k].op = IF update THEN "Update" ELSE "Delete"
        /\ update => ops[k].row \in NewRow(stmt, schema, contents[r])
    BY <1>5, <2>1 DEF New
  <2> QED
    BY <1>4, <1>8, <2>2, <2>3 DEF S
<1> QED
  BY <1>7, <1>8

(* An UPDATE gives every column the value of its last assignment, or leaves it. *)
LEMMA ValuesAre ==
    ASSUME NEW stmt, NEW schema, NEW w, w.stmt = stmt, w.schema = schema, IsSchema(schema), Named(schema), SetText(stmt.set),
           NEW row, IsRow(row, schema), \A i \in DOMAIN stmt.set : Assignments(stmt, schema)[i] # {},
           NEW new \in NewRow(stmt, schema, row), NEW i \in DOMAIN schema
    PROVE  new[i] \in Value(w, row, i)
<1> DEFINE set == stmt.set
           assigned == {k \in DOMAIN set : set[k][1] = schema[i].name[2]}
           at == {k \in DOMAIN set : At(schema, set[k][1]) = i}
<1>1. IsSeq(schema) /\ i \in DOMAIN row
  BY DEF IsSchema, IsRow
<1>2. at = assigned
  <2>1. ASSUME NEW c PROVE At(schema, c) = i <=> c = schema[i].name[2]
    <3>1. 0 \notin DOMAIN schema
      BY <1>1, PositionIs
    <3>2. ASSUME At(schema, c) = i PROVE c = schema[i].name[2]
      <4>1. schema[i].name = Name(c)
        BY <1>1, <3>1, <3>2, PositionIs DEF At
      <4> QED
        BY <4>1, NameIs
    <3>3. ASSUME c = schema[i].name[2] PROVE At(schema, c) = i
      <4>1. schema[i] \in ToSet(schema)
        BY DEF ToSet
      <4>2. schema[i].name = Name(c)
        BY <3>3, <4>1 DEF IsSchema
      <4> QED
        BY <1>1, <4>2, PositionIs DEF At, Named
    <3> QED
      BY <3>2, <3>3
  <2> QED
    BY <2>1
<1>3. IF at = {} THEN new[i] = row[i]
      ELSE \E a \in CompileAssignment(set[Max(at)][2], schema, schema[i].type) : new[i] \in EvalAssignment(a, row)
  <2>1. Given(stmt, schema, row, new, i)
    BY <1>1, NewRowIs
  <2> QED
    BY <2>1 DEF Given
<1> HIDE DEF at
<1>4. CASE assigned = {}
  BY <1>2, <1>3, <1>4 DEF Value
<1>5. CASE assigned # {}
  <2> DEFINE C == CompileAssignment(set[Max(assigned)][2], schema, schema[i].type)
  <2>1. PICK a \in C : new[i] \in EvalAssignment(a, row)
    BY <1>2, <1>3, <1>5
  <2>2. Value(w, row, i) = UNION {EvalAssignment(x, row) : x \in C}
    BY <1>5 DEF Value
  <2> QED
    BY <2>1, <2>2
<1> QED
  BY <1>4, <1>5

(* A sequence of one element. *)
LEMMA SingleIs ==
    ASSUME NEW s, IsSeq(s), Len(s) = 1
    PROVE  s = <<s[1]>> /\ Last(s) = s[1] /\ Front(s) = <<>> /\ s # <<>>
<1>1. s \in Seq(ToSet(s))
  BY DEF IsSeq
<1> QED
  BY <1>1 DEF Last, Front

(* A write set of a statement changes the rows its WHERE is true for, if the
   candidates lacked none of them. *)
LEMMA ChangedIs ==
    ASSUME NEW stmt, stmt.kind \in {"insert", "update", "delete"}, NEW schema, IsSchema(schema), Named(schema), NEW id,
           stmt.kind = "update" => SetText(stmt.set), stmt.kind \in {"update", "delete"} => IsText(stmt.where),
           NEW table, Keyed(table, schema), NEW after, Keyed(after, schema),
           NEW contents, contents = [x \in DOMAIN table |-> Last(table[x])],
           NEW ops \in WriteSets(stmt, schema, id, contents), IsWriteSet(ops, id, schema), OfKind(ops, stmt.kind, DOMAIN table),
           \E t : Tabled(table, ops, t, Len(ops)) /\ after = t[Len(ops)],
           NEW r \in DOMAIN table, Indexed(stmt, schema, id, contents[r], r),
           NEW w, w.stmt = stmt, w.schema = schema, w.before = table, w.after = after, Meant(w, r)
    PROVE  ChangedAsMeant(w, r)
<1> DEFINE row == table[r][1]
           n == Len(ops)
           new == Versions(after, r)
           kind == stmt.kind
<1>1. PICK t : Tabled(table, ops, t, n) /\ after = t[n]
  OBVIOUS
<1>2. n \in Nat
  BY SeqIs DEF IsWriteSet
<1>3. IsSeq(table[r]) /\ Len(table[r]) = 1 /\ Versions(table, r) = table[r]
  BY DEF Keyed, Meant, Versions
<1>4. Versions(table, r) = <<row>> /\ Front(<<row>>) = <<>> /\ <<row>> # <<>> /\ contents[r] = row
  BY <1>3, SingleIs
<1>5. KeyedBy(row, schema, r)
  <2>1. row \in ToSet(table[r])
    BY <1>3, SeqIs DEF ToSet
  <2> QED
    BY <2>1 DEF Keyed
<1>6. IsSeq(new) /\ (r \in DOMAIN after => new = after[r] /\ after[r] # <<>>) /\ (r \notin DOMAIN after => new = <<>>)
  BY EmptyIsSeq DEF Keyed, Versions
<1>7. Len(new) <= 1
  BY DEF Meant
<1>8. /\ kind = "insert" \/ ~Chosen(w, row) => (ChangedAsMeant(w, r) <=> new = <<row>>)
      /\ kind = "delete" /\ Chosen(w, row) => (ChangedAsMeant(w, r) <=> r \notin DOMAIN after)
      /\ kind = "update" /\ Chosen(w, row) =>
           (ChangedAsMeant(w, r) <=> Len(new) = 1 /\ \A i \in DOMAIN schema : after[r][1][i] \in Value(w, row, i))
  BY DEF ChangedAsMeant
<1> HIDE DEF row, n, new
<1>9. CASE kind = "insert"
  <2>1. Inserts(ops)
    BY <1>9 DEF OfKind, Inserts
  <2>2. Len(new) > Len(table[r]) \/ new = table[r]
    <3>1. IsSeq(Versions(table, r))
      BY <1>3
    <3>2. Tabled(table, ops, t, Len(ops)) /\ Len(ops) \in Nat
      BY <1>1, <1>2 DEF n
    <3>3. LET v == Versions(t[Len(ops)], r) IN Len(v) > Len(Versions(table, r)) \/ v = Versions(table, r)
      BY <2>1, <3>1, <3>2, InsertsAdd
    <3> QED
      BY <1>1, <1>3, <3>3 DEF n, new
  <2>3. new = table[r]
    <3>1. Len(new) \in Nat
      BY <1>6, SeqIs
    <3> QED
      BY <1>3, <1>7, <2>2, <3>1
  <2> QED
    BY <1>3, <1>4, <1>8, <1>9, <2>3
<1>10. CASE kind \in {"update", "delete"}
  <2>1. IsFiniteSet(DOMAIN contents) /\ DOMAIN contents = DOMAIN table
    BY DEF Keyed
  <2>2. PICK k : /\ Only(ops, r, k) /\ (k # 0 <=> r \in Matching(stmt, schema, id, contents))
                 /\ k # 0 /\ kind = "delete" => ops[k].op = "Delete"
                 /\ k # 0 /\ kind = "update" => ops[k].op = "Update" /\ ops[k].row \in NewRow(stmt, schema, contents[r])
    BY <1>10, <2>1, WritesOnce
  <2>3. Supported(stmt, schema) /\ (kind = "update" => \A i \in DOMAIN stmt.set : Assignments(stmt, schema)[i] # {})
    BY <1>10, <2>1, WritesOnce
  <2>4. k # 0 <=> Chosen(w, row)
    <3>1. k # 0 <=> Selected(stmt, schema, contents[r])
      BY <1>4, <1>5, <1>10, <2>1, <2>2, <2>3, MatchingExact
    <3> QED
      BY <1>4, <3>1 DEF Selected, Chosen
  <2>5. new = IF k = 0 THEN <<row>> ELSE NewVersions(ops[k], <<row>>)
    BY <1>1, <1>2, <1>4, <2>2, VersionsLeft DEF n, new
  <2>6. CASE k = 0
    BY <1>8, <2>4, <2>5, <2>6
  <2>7. CASE k # 0 /\ kind = "delete"
    <3>1. new = <<>>
      BY <1>4, <2>2, <2>5, <2>7 DEF NewVersions
    <3> QED
      BY <1>6, <1>8, <2>4, <2>7, <3>1
  <2>8. CASE k # 0 /\ kind = "update"
    <3>1. new = Append(<<>>, ops[k].row)
      BY <1>4, <2>2, <2>5, <2>8 DEF NewVersions
    <3>2. Len(new) = 1 /\ new[1] = ops[k].row /\ new # <<>>
      BY <3>1
    <3>3. after[r][1] = ops[k].row
      BY <1>6, <3>2
    <3>4. ops[k].row \in NewRow(stmt, schema, row)
      BY <1>4, <2>2, <2>8
    <3>5. IsRow(row, schema)
      BY <1>5 DEF KeyedBy, IsRow
    <3>6. \A i \in DOMAIN schema : ops[k].row[i] \in Value(w, row, i)
      BY <2>3, <2>8, <3>4, <3>5, ValuesAre
    <3> QED
      BY <1>8, <2>4, <2>8, <3>2, <3>3, <3>6
  <2> QED
    BY <1>10, <2>6, <2>7, <2>8
<1> QED
  BY <1>9, <1>10

(* The property of a write statement and a log, and that a longer log keeps it. *)
Means(w, records) ==
  w # <<>> /\ Named(w.schema) => \A r \in DOMAIN w.before : Meant(w, r) /\ Searchable(w, records, r) => ChangedAsMeant(w, r)

LEMMA MeansLater ==
    ASSUME NEW w, NEW l, IsSeq(l), Means(w, l), NEW m, m = l \/ \E rec : m = Append(l, rec)
    PROVE  Means(w, m)
<1>1. \A r : Uncovered(l, w.id, r) => Uncovered(m, w.id, r)
  BY UncoveredLater
<1>2. \A r : Searchable(w, m, r) => Searchable(w, l, r)
  BY <1>1 DEF Searchable
<1> QED
  BY <1>2 DEF Means

(* A row the last write found is in the indexes, if no session was entering
   rows and no DELETE had uncovered it. *)
LEMMA IndexedIs ==
    ASSUME CoverInv, NEW stmt, NEW id \in DOMAIN store, NEW schema, schema = catalog[id].columns, NEW r \in DOMAIN store[id],
           NEW row, row = Last(store[id][r]),
           NEW w, w.stmt = stmt, w.schema = schema, w.id = id, w.before[r][1] = row,
           w.indexed = {x[2] : x \in {y \in DOMAIN indexes : y[1] = id}},
           ~w.lagging => ~raced /\ \A d \in Sessions : session[d].at = "enter" => session[d].rows = <<>>,
           NEW records, records = log \/ \E rec : records = Append(log, rec), IsSeq(log), Searchable(w, records, r)
    PROVE  Indexed(stmt, schema, id, row, r)
<1> SUFFICES ASSUME NEW x \in DOMAIN indexes, x[1] = id, IsComparison(stmt.where), x[2] = stmt.where[1].n[2]
             PROVE  LET i == At(schema, x[2]) IN
                    /\ <<row[i], r>> \in indexes[x] /\ row[i].t \in {"Null", ValueType(schema[i].type)}
                    /\ ParseLiteralChecked(stmt.where[3], schema[i].type) # {}
  BY DEF Indexed
<1> DEFINE i == At(schema, x[2])
<1>1. x[2] \in w.indexed
  OBVIOUS
<1>2. /\ ~w.lagging /\ ~Uncovered(records, id, r) /\ row[i].t \in {"Null", ValueType(schema[i].type)}
      /\ ParseLiteralChecked(stmt.where[3], schema[i].type) # {}
  BY <1>1 DEF Searchable
<1>3. ~Uncovered(log, id, r)
  <2>1. \A rec : Uncovered(log, id, r) => Uncovered(Append(log, rec), id, r)
    BY UncoveredLater
  <2> QED
    BY <1>2, <2>1
<1>4. ~Owed(session, id, r, row)
  <2>1. \A d \in Sessions : session[d].at = "enter" => session[d].rows = <<>>
    BY <1>2
  <2> QED
    BY <2>1, EmptyIsSeq DEF Owed
<1>5. Found(schema, indexes, vectors, id, r, row)
  BY <1>2, <1>3, <1>4 DEF CoverInv, RowsAreKept
<1> QED
  BY <1>2, <1>5 DEF Found

(* The step of a write statement keeps to what it says, *)
LEMMA WriteMeans ==
    ASSUME CoverInv, "sync" \notin Faults, NEW c \in Sessions, Write(c), Means(last, log)
    PROVE  Means(last', log')
<1> DEFINE z == session[c]
           id == names[z.stmt.table]
           schema == catalog[id].columns
           created == IF PassesFirst(z.stmt, schema) THEN CreateInStore(store, id) ELSE store
           sets == WriteSets(z.stmt, schema, id, Contents(created, id))
           s == Replay(log)
           columns == {x[2] : x \in {y \in DOMAIN indexes : y[1] = id}}
           lags == raced \/ \E d \in Sessions : session[d].at = "enter" /\ session[d].rows # <<>>
           write == [stmt |-> z.stmt, id |-> id, schema |-> schema, before |-> created[id], after |-> store'[id],
                     indexed |-> columns, lagging |-> lags]
           Logs == log' = log \/ \E rec : log' = Append(log, rec)
<1>1. z.at = "bound" /\ z.stmt.kind \in {"insert", "update", "delete"}
  BY DEF Write
<1>2. \/ last' = last /\ Logs
      \/ \E ops \in sets : store' = ApplyWriteSet(created, ops) /\ last' = write /\ Logs
  BY Zenon DEF Write, Append1, AppendFails
<1>3. open /\ SessionIs(z) /\ DbInv
  BY <1>1, IsOpen DEF CoverInv
<1>4. /\ IsSeq(log) /\ Consistent(s) /\ catalog = s.catalog /\ DOMAIN store \subseteq DOMAIN catalog
      /\ \A x \in DOMAIN catalog : s.store[x] = View(store, x)
      /\ \A n \in DOMAIN names : names[n] \in DOMAIN catalog
  BY <1>3, OpenIs DEF View
<1>5. BoundIn(z.stmt, catalog, names)
  BY <1>1, <1>3 DEF SessionIs, SessionFits
<1>6. id \in DOMAIN catalog /\ IsSchema(schema) /\ Keyed(s.store[id], schema)
  <2>1. id \in DOMAIN catalog
    BY <1>1, <1>4, <1>5 DEF BoundIn
  <2> QED
    BY <1>4, <2>1 DEF Consistent
<1> HIDE DEF s
<1>7. /\ \A x \in DOMAIN created : created[x] = s.store[x]
      /\ \A x \in DOMAIN created : \A r \in DOMAIN created[x] : x \in DOMAIN store /\ store[x] = created[x]
      /\ PassesFirst(z.stmt, schema) => id \in DOMAIN created
  BY <1>4, <1>6 DEF CreateInStore, Put, View, Empty
<1>8. /\ z.stmt.kind = "insert" => IsInsert(z.stmt, schema)
      /\ z.stmt.kind = "update" => SetText(z.stmt.set)
      /\ z.stmt.kind \in {"update", "delete"} => IsText(z.stmt.where)
  BY <1>5 DEF BoundIn
<1>9. write.stmt = z.stmt /\ write.id = id /\ write.schema = schema /\ write.before = created[id]
      /\ write.after = store'[id] /\ write.indexed = columns /\ write.lagging = lags
  BY Zenon
<1>10. CASE last' = last /\ Logs
  BY <1>4, <1>10, MeansLater
<1>11. ASSUME NEW ops \in sets, store' = ApplyWriteSet(created, ops), last' = write, Logs PROVE Means(last', log')
  <2> DEFINE contents == Contents(created, id)
             table == created[id]
             after == store'[id]
             stmt == z.stmt
  <2>1. IsFiniteSet(DOMAIN contents) /\ \A r \in DOMAIN contents : KeyedBy(contents[r], schema, r)
    <3>1. id \in DOMAIN created => Keyed(created[id], schema)
      BY <1>6, <1>7
    <3> QED
      BY <3>1, ContentsAre
  <2> HIDE DEF contents, schema, created
  <2>2. ops \in WriteSets(stmt, schema, id, contents)
    BY <1>11 DEF contents
  <2>3. IsSeq(schema)
    BY <1>6 DEF IsSchema
  <2>4. IsWriteSet(ops, id, schema) /\ PassesFirst(stmt, schema) /\ OfKind(ops, stmt.kind, DOMAIN contents)
    BY <1>1, <1>8, <2>1, <2>2, <2>3, WriteSetsAre
  <2>5. id \in DOMAIN created /\ Keyed(table, schema)
    BY <1>6, <1>7, <2>4
  <2>6. /\ \E t : Tabled(table, ops, t, Len(ops)) /\ after = t[Len(ops)]
        /\ Keyed(after, schema)
    <3>1. \A i \in 1..Len(ops) : ops[i].table = id
      BY <2>4 DEF IsWriteSet, OpFits
    <3>2. \E t : Tabled(table, ops, t, Len(ops)) /\ after = t[Len(ops)]
      BY <1>11, <2>4, <2>5, <3>1, WriteSetIs DEF IsWriteSet
    <3>3. Keyed(after, schema)
      BY <1>11, <2>4, <2>5, WriteSetKeeps
    <3> QED
      BY <3>2, <3>3
  <2>7. contents = [x \in DOMAIN table |-> Last(table[x])]
    BY <2>5 DEF contents, Contents
  <2> SUFFICES ASSUME Named(schema), NEW r \in DOMAIN table, Meant(write, r), Searchable(write, log', r)
               PROVE  ChangedAsMeant(write, r)
    BY <1>9, <1>11 DEF Means
  <2>8. id \in DOMAIN store /\ r \in DOMAIN store[id] /\ store[id] = table
    BY <1>7, <2>5
  <2>9. contents[r] = Last(table[r]) /\ write.before[r][1] = contents[r]
    <3>1. IsSeq(table[r]) /\ Len(table[r]) = 1
      BY <1>9, <2>5 DEF Keyed, Meant
    <3> QED
      BY <1>9, <2>7, <3>1, SingleIs
  <2>10. ~write.lagging => ~raced /\ \A d \in Sessions : session[d].at = "enter" => session[d].rows = <<>>
    BY <1>9
  <2> HIDE DEF write, table, after, contents, stmt
  <2>11. Indexed(stmt, schema, id, contents[r], r)
    <3>1. schema = catalog[id].columns /\ contents[r] = Last(store[id][r])
      BY <2>8, <2>9 DEF schema
    <3>2. write.stmt = stmt /\ write.schema = schema /\ write.id = id /\ write.indexed = columns
      BY <1>9 DEF stmt
    <3> HIDE DEF id
    <3> QED
      BY <1>4, <1>11, <2>8, <2>9, <2>10, <3>1, <3>2, IndexedIs
  <2> QED
    <3>1. write.stmt = stmt /\ write.schema = schema /\ write.before = table /\ write.after = after
      BY <1>9 DEF stmt, table, after
    <3>2. OfKind(ops, stmt.kind, DOMAIN table)
      BY <2>4, <2>7
    <3>3. stmt.kind \in {"insert", "update", "delete"} /\ (stmt.kind = "update" => SetText(stmt.set))
          /\ (stmt.kind \in {"update", "delete"} => IsText(stmt.where))
      BY <1>1, <1>8 DEF stmt
    <3> HIDE DEF id
    <3> QED
      BY <1>6, <2>2, <2>4, <2>5, <2>6, <2>7, <2>11, <3>1, <3>2, <3>3, ChangedIs
<1> QED
  BY <1>2, <1>10, <1>11

(* and no other step takes that back. *)
LEMMA MeansStep ==
    ASSUME CoverInv, "sync" \notin Faults, [ANext]_avars, Means(last, log)
    PROVE  Means(last', log')
<1> DEFINE Logs == log' = log \/ \E rec : log' = Append(log, rec)
<1>0. IsSeq(log)
  BY DEF CoverInv, DbInv, LogIsSound
<1>1. CASE \E c \in Sessions : Write(c)
  BY <1>1, WriteMeans
<1>2. CASE last' = last /\ Logs
  BY <1>0, <1>2, MeansLater
<1>3. CASE Recover \/ Crash
  BY <1>2, <1>3 DEF Recover, Crash
<1>4. ASSUME NEW c \in Sessions, \/ \E sent \in Statements : Receive(c, sent)
                                 \/ StoreTable(c) \/ ScanForIndex(c) \/ RegisterIndex(c) \/ EnterRow(c) \/ Return(c)
      PROVE  last' = last /\ Logs
  BY <1>4, Zenon DEF Receive, StoreTable, ScanForIndex, RegisterIndex, EnterRow, Return
<1>5. ASSUME NEW c \in Sessions, CreateTable(c) \/ LogIndex(c) PROVE last' = last /\ Logs
  BY <1>5, Zenon DEF CreateTable, LogIndex, Append1, AppendFails
<1>6. ASSUME NEW c \in Sessions, Speak(c) \/ \E prompt \in Prompts : Chat(c, prompt) PROVE last' = last /\ Logs
  BY <1>6, Zenon DEF Speak, Chat
<1>7. CASE UNCHANGED vars
  BY <1>2, <1>7 DEF vars
<1>8. CASE Next
  BY <1>1, <1>2, <1>3, <1>4, <1>5, <1>8 DEF Next
<1>9. CASE UNCHANGED avars
  BY <1>7, <1>9 DEF avars
<1> QED
  BY <1>2, <1>6, <1>8, <1>9 DEF ANext

(* Of every write statement that succeeds: each row of its table WHERE is true
   for is changed, and no other, to the values its assignments give, all from
   the row as it was (execute_update, execute_delete, candidate_rows_for_write);
   an INSERT (execute_insert) leaves the rows that were there.  Excepted are
   rows a key was inserted twice for, and those the index the WHERE is searched
   with need not find. *)
THEOREM WritesAreMeant == ASSUME "sync" \notin Faults PROVE ASpec => []WritesMeanWhatTheySay
<1> DEFINE Inv == CoverInv /\ Means(last, log)
<1>1. AInit => Inv
  <2>1. AInit => last = <<>>
    BY DEF AInit, Init
  <2> QED
    BY <2>1, CoverInit DEF AInit, Means
<1>2. Inv /\ [ANext]_avars => Inv'
  BY CoverStep, MeansStep
<1>3. Inv => WritesMeanWhatTheySay
  BY DEF Means, WritesMeanWhatTheySay
<1> QED
  BY <1>1, <1>2, <1>3, PTL DEF ASpec

------------------------------------------------------------------------------
(* The assistant: its summary names registered tables, and what it writes is
   parsed again to the table and the columns it chose. *)

(* The names of a summary are registered ones. *)
NextNames(alphabet, map, a, i) ==
  IF i = 0 THEN <<>> ELSE IF alphabet[i] \in DOMAIN map THEN Append(a[i - 1], alphabet[i]) ELSE a[i - 1]
Lists(alphabet, map, a, n) == a = [i \in 0..n |-> NextNames(alphabet, map, a, i)]

(* The lists of any alphabet exist: the recursion has a solution. *)
LEMMA ListsExist == ASSUME NEW alphabet, NEW map, NEW n \in Nat PROVE \E a : Lists(alphabet, map, a, n)
<1> DEFINE Bad == {k \in Nat : ~ \E a : Lists(alphabet, map, a, k)}
<1> SUFFICES ASSUME Bad # {} PROVE FALSE
  OBVIOUS
<1>1. PICK m \in Bad : \A k \in Bad : m <= k
  BY NatMin
<1>2. Lists(alphabet, map, [i \in 0..0 |-> <<>>], 0)
  BY DEF Lists, NextNames
<1>3. m # 0
  BY <1>1, <1>2
<1>4. m - 1 \in Nat /\ m - 1 \notin Bad
  BY <1>1, <1>3
<1>5. PICK a : Lists(alphabet, map, a, m - 1)
  BY <1>4
<1> DEFINE last0 == NextNames(alphabet, map, a, m)
           b == [i \in 0..m |-> IF i = m THEN last0 ELSE a[i]]
<1> HIDE DEF last0
<1>6. ASSUME NEW i \in 0..m PROVE b[i] = NextNames(alphabet, map, b, i)
  <2>1. CASE i = 0
    <3>1. b[i] = a[0] /\ a[0] = NextNames(alphabet, map, a, 0)
      BY <1>3, <1>4, <1>5, <2>1 DEF Lists
    <3> QED
      BY <2>1, <3>1 DEF NextNames
  <2>2. CASE i # 0
    <3>1. i - 1 \in 0..m /\ i - 1 # m
      BY <1>4, <2>2
    <3>2. b[i - 1] = a[i - 1]
      BY <3>1
    <3>3. b[i] = NextNames(alphabet, map, a, i)
      <4>1. CASE i = m
        BY <4>1 DEF last0
      <4>2. CASE i # m
        BY <1>4, <1>5, <4>2 DEF Lists
      <4> QED
        BY <4>1, <4>2
    <3> HIDE DEF b
    <3> QED
      BY <2>2, <3>2, <3>3 DEF NextNames
  <2> QED
    BY <2>1, <2>2
<1>7. b = [i \in 0..m |-> b[i]]
  OBVIOUS
<1> HIDE DEF b
<1>8. Lists(alphabet, map, b, m)
  BY <1>6, <1>7 DEF Lists
<1> QED
  BY <1>1, <1>8

(* A summary lists registered names only. *)
LEMMA ListedIs ==
    ASSUME NEW alphabet, IsSeq(alphabet), NEW map
    PROVE  IsSeq(Listed(alphabet, map)) /\ ToSet(Listed(alphabet, map)) \subseteq DOMAIN map
<1> DEFINE Fine(list) == IsSeq(list) /\ ToSet(list) \subseteq DOMAIN map
           n == Len(alphabet)
           list == CHOOSE a : Lists(alphabet, map, a, n)
<1>1. n \in Nat
  BY SeqIs
<1>2. Lists(alphabet, map, list, n)
  BY <1>1, ListsExist, Zenon
<1>3. Listed(alphabet, map) = list[n]
  BY Zenon DEF Listed, Lists, NextNames
<1> HIDE DEF list, n
<1>4. ASSUME NEW k \in Nat, k <= n PROVE list[k] = NextNames(alphabet, map, list, k)
  BY <1>1, <1>2, <1>4 DEF Lists
<1> DEFINE Wrong == {k \in Nat : k <= n /\ ~Fine(list[k])}
<1>6. ASSUME Wrong # {} PROVE FALSE
  <2>1. PICK k \in Wrong : \A j \in Wrong : k <= j
    BY <1>6, NatMin
  <2>2. list[k] = NextNames(alphabet, map, list, k)
    BY <1>4, <2>1
  <2>3. k # 0
    BY <2>1, <2>2, EmptyIsSeq DEF NextNames
  <2>4. k - 1 \in Nat /\ k - 1 <= n /\ k - 1 \notin Wrong
    BY <1>1, <2>1, <2>3
  <2>5. Fine(list[k - 1])
    BY <2>4
  <2>6. CASE alphabet[k] \in DOMAIN map
    <3>1. list[k] = Append(list[k - 1], alphabet[k])
      BY <2>2, <2>3, <2>6 DEF NextNames
    <3> DEFINE l == list[k - 1]
               e == alphabet[k]
    <3>2. Fine(l) /\ e \in DOMAIN map
      BY <2>5, <2>6
    <3> HIDE DEF l, e
    <3>3. Fine(Append(l, e))
      BY <3>2, AppendIs
    <3> QED
      BY <2>1, <3>1, <3>3 DEF l, e
  <2>7. CASE alphabet[k] \notin DOMAIN map
    BY <2>1, <2>2, <2>3, <2>5, <2>7 DEF NextNames
  <2> QED
    BY <2>6, <2>7
<1>7. Fine(list[n])
  BY <1>1, <1>6
<1> QED
  BY <1>3, <1>7

(* One key after ORDER BY. *)
LEMMA FlattenOne == ASSUME NEW x PROVE FlattenSeq(<<x>>) = x /\ FlattenSeq(<<>>) = <<>>
<1> DEFINE s == <<x>>
           F(flatten) == flatten = [i \in 1..Len(s) |-> IF i = 1 THEN s[i] ELSE flatten[i - 1] \o s[i]]
           flat == CHOOSE flatten : F(flatten)
<1>1. Len(s) = 1 /\ s[1] = x /\ Len(<<>>) = 0 /\ Len(s) # 0
  OBVIOUS
<1>2. F([i \in 1..1 |-> x])
  BY <1>1
<1>3. F(flat)
  BY <1>2, Zenon
<1>4. FlattenSeq(s) = IF Len(s) = 0 THEN s ELSE flat[Len(s)]
  BY Zenon DEF FlattenSeq
<1> HIDE DEF s
<1>5. 1 \in 1..Len(s)
  BY <1>1
<1>6. flat[1] = x
  BY <1>1, <1>3, <1>5
<1>7. FlattenSeq(<<>>) = <<>>
  BY <1>1 DEF FlattenSeq
<1> QED
  BY <1>1, <1>4, <1>6, <1>7 DEF s

(* A sequence with these components is the concatenation. *)
LEMMA ConcatIs ==
    ASSUME NEW S, NEW s \in Seq(S), NEW t \in Seq(S), NEW u \in Seq(S), Len(u) = Len(s) + Len(t),
           \A i \in 1..Len(s) : u[i] = s[i], \A i \in 1..Len(t) : u[Len(s) + i] = t[i]
    PROVE  s \o t = u
<1> DEFINE r == s \o t
<1>1. /\ r \in Seq(S) /\ Len(r) = Len(s) + Len(t)
      /\ \A i \in 1..Len(s) + Len(t) : r[i] = IF i <= Len(s) THEN s[i] ELSE t[i - Len(s)]
  BY ConcatProperties
<1> HIDE DEF r
<1>2. Len(s) \in Nat /\ Len(t) \in Nat
  OBVIOUS
<1>3. ASSUME NEW i \in 1..Len(r) PROVE r[i] = u[i]
  <2>1. CASE i <= Len(s)
    BY <1>1, <1>2, <2>1
  <2>2. CASE ~(i <= Len(s))
    <3>1. i - Len(s) \in 1..Len(t) /\ Len(s) + (i - Len(s)) = i
      BY <1>1, <1>2, <2>2
    <3> QED
      BY <1>1, <2>2, <3>1
  <2> QED
    BY <2>1, <2>2
<1>4. r = u
  BY <1>1, <1>3, SeqEqual
<1> QED
  BY <1>4 DEF r

(* Concatenations of short sequences, as ORDER BY and its keys are written. *)
LEMMA Joined == ASSUME NEW a, NEW b, NEW c PROVE (<<a>> \o <<b>>) \o <<c>> = <<a, b, c>>
<1> DEFINE S == {a, b, c}
<1>1. <<a>> \in Seq(S) /\ <<b>> \in Seq(S) /\ <<c>> \in Seq(S) /\ <<a, b>> \in Seq(S) /\ <<a, b, c>> \in Seq(S)
  OBVIOUS
<1>2. <<a>> \o <<b>> = <<a, b>>
  <2> DEFINE s == <<a>>
             t == <<b>>
             u == <<a, b>>
  <2>1. Len(s) = 1 /\ Len(t) = 1 /\ Len(u) = 2 /\ s[1] = a /\ t[1] = b /\ u[1] = a /\ u[2] = b
    OBVIOUS
  <2>2. s \in Seq(S) /\ t \in Seq(S) /\ u \in Seq(S)
    BY <1>1
  <2> HIDE DEF s, t, u, S
  <2>3. \A i \in 1..Len(s) : u[i] = s[i]
    BY <2>1
  <2>4. ASSUME NEW i \in 1..Len(t) PROVE u[Len(s) + i] = t[i]
    <3>1. i = 1 /\ Len(s) + i = 2
      BY <2>1
    <3> QED
      BY <2>1, <3>1
  <2>5. Len(u) = Len(s) + Len(t)
    BY <2>1
  <2>6. s \o t = u
    BY <2>2, <2>3, <2>4, <2>5, ConcatIs
  <2> QED
    BY <2>6 DEF s, t, u
<1>3. <<a, b>> \o <<c>> = <<a, b, c>>
  <2>1. /\ Len(<<a, b, c>>) = Len(<<a, b>>) + Len(<<c>>)
        /\ \A i \in 1..Len(<<a, b>>) : <<a, b, c>>[i] = <<a, b>>[i]
        /\ \A i \in 1..Len(<<c>>) : <<a, b, c>>[Len(<<a, b>>) + i] = <<c>>[i]
    OBVIOUS
  <2> HIDE DEF S
  <2> QED
    BY <1>1, <2>1, ConcatIs
<1> QED
  BY <1>2, <1>3

(* The longest of them. *)
LEMMA JoinedSix ==
    ASSUME NEW a, NEW b, NEW c, NEW d, NEW e, NEW f
    PROVE  (<<a>> \o <<b, c, d, e, f>>) \o <<>> = <<a, b, c, d, e, f>>
<1> DEFINE S == {a, b, c, d, e, f}
<1>1. <<a>> \in Seq(S) /\ <<b, c, d, e, f>> \in Seq(S) /\ <<a, b, c, d, e, f>> \in Seq(S)
  OBVIOUS
<1>2. <<a>> \o <<b, c, d, e, f>> = <<a, b, c, d, e, f>>
  <2>1. /\ Len(<<a, b, c, d, e, f>>) = Len(<<a>>) + Len(<<b, c, d, e, f>>)
        /\ \A i \in 1..Len(<<a>>) : <<a, b, c, d, e, f>>[i] = <<a>>[i]
        /\ \A i \in 1..Len(<<b, c, d, e, f>>) : <<a, b, c, d, e, f>>[Len(<<a>>) + i] = <<b, c, d, e, f>>[i]
    OBVIOUS
  <2> HIDE DEF S
  <2> QED
    BY <1>1, <2>1, ConcatIs
<1>3. <<a, b, c, d, e, f>> \o <<>> = <<a, b, c, d, e, f>>
  BY <1>1, ConcatEmptySeq
<1> QED
  BY <1>2, <1>3

(* A sequence with these components is the longer one. *)
LEMMA AppendsTo ==
    ASSUME NEW S, NEW s \in Seq(S), NEW x \in S, NEW u \in Seq(S), Len(u) = Len(s) + 1,
           \A i \in 1..Len(s) : u[i] = s[i], u[Len(s) + 1] = x
    PROVE  Append(s, x) = u
<1> DEFINE r == Append(s, x)
           n == Len(s)
<1>1. r \in Seq(S) /\ Len(r) = n + 1 /\ n \in Nat /\ r[n + 1] = x /\ \A i \in 1..n : r[i] = s[i]
  OBVIOUS
<1> HIDE DEF r
<1>2. \A i \in 1..Len(r) : r[i] = u[i]
  <2> SUFFICES ASSUME NEW i \in 1..Len(r) PROVE r[i] = u[i]
    OBVIOUS
  <2>1. i = n + 1 \/ i \in 1..n
    BY <1>1
  <2> QED
    BY <1>1, <2>1
<1>3. r = u
  BY <1>1, <1>2, SeqEqual
<1> QED
  BY <1>3 DEF r

(* Short sequences token by token, as SplitKeys collects them. *)
LEMMA Appended ==
    ASSUME NEW a, NEW b, NEW c, NEW d, NEW e
    PROVE  /\ Append(<<>>, a) = <<a>> /\ Append(<<a>>, b) = <<a, b>> /\ Append(<<a, b>>, c) = <<a, b, c>>
           /\ Append(<<a, b, c>>, d) = <<a, b, c, d>> /\ Append(<<a, b, c, d>>, e) = <<a, b, c, d, e>>
<1> DEFINE S == {a, b, c, d, e}
           s1 == <<a>>
           s2 == <<a, b>>
           s3 == <<a, b, c>>
           s4 == <<a, b, c, d>>
           s5 == <<a, b, c, d, e>>
<1>1. s1 \in Seq(S) /\ s2 \in Seq(S) /\ s3 \in Seq(S) /\ s4 \in Seq(S) /\ s5 \in Seq(S) /\ b \in S /\ c \in S /\ d \in S /\ e \in S
  OBVIOUS
<1>2. Len(s1) = 1 /\ Len(s2) = 2 /\ Len(s3) = 3 /\ Len(s4) = 4 /\ Len(s5) = 5
  OBVIOUS
<1>3. /\ s1[1] = a /\ s2[1] = a /\ s3[1] = a /\ s4[1] = a /\ s5[1] = a
      /\ s2[2] = b /\ s3[2] = b /\ s4[2] = b /\ s5[2] = b
      /\ s3[3] = c /\ s4[3] = c /\ s5[3] = c /\ s4[4] = d /\ s5[4] = d /\ s5[5] = e
  OBVIOUS
<1>4. Append(<<>>, a) = s1
  OBVIOUS
<1> HIDE DEF s1, s2, s3, s4, s5, S
<1>5. Append(s1, b) = s2
  <2>1. Len(s2) = Len(s1) + 1 /\ s2[Len(s1) + 1] = b /\ \A i \in 1..Len(s1) : s2[i] = s1[i]
    BY <1>2, <1>3
  <2> QED
    BY <1>1, <2>1, AppendsTo
<1>6. Append(s2, c) = s3
  <2>1. Len(s3) = Len(s2) + 1 /\ s3[Len(s2) + 1] = c /\ \A i \in 1..Len(s2) : s3[i] = s2[i]
    BY <1>2, <1>3
  <2> QED
    BY <1>1, <2>1, AppendsTo
<1>7. Append(s3, d) = s4
  <2>1. Len(s4) = Len(s3) + 1 /\ s4[Len(s3) + 1] = d /\ \A i \in 1..Len(s3) : s4[i] = s3[i]
    BY <1>2, <1>3
  <2> QED
    BY <1>1, <2>1, AppendsTo
<1>8. Append(s4, e) = s5
  <2>1. Len(s5) = Len(s4) + 1 /\ s5[Len(s4) + 1] = e /\ \A i \in 1..Len(s4) : s5[i] = s4[i]
    BY <1>2, <1>3
  <2> QED
    BY <1>1, <2>1, AppendsTo
<1> QED
  BY <1>4, <1>5, <1>6, <1>7, <1>8 DEF s1, s2, s3, s4, s5

(* A key of ORDER BY and its direction as text. *)
LEMMA RenderedOne ==
    ASSUME NEW expr, NEW direction
    PROVE  RenderOrder(<<[expr |-> expr, direction |-> direction]>>) =
             (<<Sym("ORDER BY")>> \o expr) \o [k \in DOMAIN direction |-> Sym(direction[k])]
<1> DEFINE keys == <<[expr |-> expr, direction |-> direction]>>
           Key(i) == (IF i = 1 THEN <<Sym("ORDER BY")>> ELSE <<Sym(",")>>) \o keys[i].expr
                     \o [k \in DOMAIN keys[i].direction |-> Sym(keys[i].direction[k])]
           texts == [i \in DOMAIN keys |-> Key(i)]
<1>1. RenderOrder(keys) = FlattenSeq(texts)
  BY Zenon DEF RenderOrder
<1>2. DOMAIN keys = {1} /\ keys[1].expr = expr /\ keys[1].direction = direction
  OBVIOUS
<1> DEFINE one == (<<Sym("ORDER BY")>> \o expr) \o [k \in DOMAIN direction |-> Sym(direction[k])]
<1>3. Key(1) = one
  BY <1>2
<1> HIDE DEF keys, Key, one
<1>4. texts = <<one>>
  BY <1>2, <1>3
<1> QED
  BY <1>1, <1>4, FlattenOne DEF keys, one

(* No ORDER BY is rendered as nothing. *)
LEMMA RenderedNone == RenderOrder(<<>>) = <<>>
<1> DEFINE keys == <<>>
           Key(i) == (IF i = 1 THEN <<Sym("ORDER BY")>> ELSE <<Sym(",")>>) \o keys[i].expr
                     \o [k \in DOMAIN keys[i].direction |-> Sym(keys[i].direction[k])]
<1>1. RenderOrder(<<>>) = FlattenSeq([i \in DOMAIN <<>> |-> Key(i)])
  BY Zenon DEF RenderOrder
<1> HIDE DEF Key
<1>2. [i \in DOMAIN <<>> |-> Key(i)] = <<>>
  OBVIOUS
<1> QED
  BY <1>1, <1>2, FlattenOne

(* A symbol is known by its name. *)
LEMMA SymIs == ASSUME NEW c PROVE Sym(c).k = "symbol" /\ \A d : IsSym(Sym(c), d) <=> c = d
<1>1. <<"", c>>[2] = c
  OBVIOUS
<1> QED
  BY <1>1 DEF IsSym, Sym, Tok

(* The splitter takes one token, *)
Splitting(key, depth) == [keys |-> <<>>, key |-> key, depth |-> depth]
Plain(token) == \A c \in {",", "[", "]"} : ~IsSym(token, c)
(* What one token does to the key that is being split off. *)
LEMMA TokenTaken ==
    ASSUME NEW key, NEW depth \in Nat, NEW token
    PROVE  /\ Plain(token) => TakeToken(Splitting(key, depth), token) = Splitting(Append(key, token), depth)
           /\ token = Sym("[") => TakeToken(Splitting(key, depth), token) = Splitting(Append(key, token), depth + 1)
           /\ token = Sym("]") /\ depth > 0 => TakeToken(Splitting(key, depth), token) = Splitting(Append(key, token), depth - 1)
<1> DEFINE s == Splitting(key, depth)
           next == CASE IsSym(token, "[") -> depth + 1
                     [] IsSym(token, "]") /\ depth > 0 -> depth - 1
                     [] OTHER -> depth
<1>1. s.keys = <<>> /\ s.key = key /\ s.depth = depth
  BY DEF Splitting
<1>2. ~IsSym(token, ",") => TakeToken(s, token) = Splitting(Append(key, token), next)
  <2> HIDE DEF s
  <2> SUFFICES ASSUME ~IsSym(token, ",") PROVE TakeToken(s, token) = Splitting(Append(key, token), next)
    OBVIOUS
  <2>1. TakeToken(s, token) = [keys |-> s.keys, key |-> Append(s.key, token),
          depth |-> CASE IsSym(token, "[") -> s.depth + 1
                      [] IsSym(token, "]") /\ s.depth > 0 -> s.depth - 1
                      [] OTHER -> s.depth]
    BY Zenon DEF TakeToken
  <2> QED
    BY <1>1, <2>1 DEF Splitting
<1>4. \A c, d : IsSym(Sym(c), d) <=> c = d
  BY SymIs
<1>8. "[" # "," /\ "]" # "," /\ "[" # "]"
  OBVIOUS
<1> HIDE DEF s
<1>5. CASE Plain(token)
  <2>1. ~IsSym(token, ",") /\ ~IsSym(token, "[") /\ ~IsSym(token, "]")
    BY <1>5 DEF Plain
  <2>2. next = depth
    BY <2>1
  <2>3. token # Sym("[") /\ token # Sym("]")
    BY <1>4, <2>1
  <2> QED
    BY <1>2, <2>1, <2>2, <2>3 DEF s
<1>6. CASE token = Sym("[")
  <2>1. ~IsSym(token, ",") /\ IsSym(token, "[") /\ ~IsSym(token, "]")
    BY <1>4, <1>6, <1>8, Zenon
  <2>2. next = depth + 1 /\ ~Plain(token) /\ token # Sym("]")
    BY <1>4, <2>1 DEF Plain
  <2> QED
    BY <1>2, <2>1, <2>2 DEF s
<1>7. CASE token = Sym("]")
  <2>1. ~IsSym(token, ",") /\ ~IsSym(token, "[") /\ IsSym(token, "]")
    BY <1>4, <1>7, <1>8, Zenon
  <2>2. (depth > 0 => next = depth - 1) /\ ~Plain(token) /\ token # Sym("[")
    BY <1>4, <2>1 DEF Plain
  <2> QED
    BY <1>2, <2>1, <2>2 DEF s
<1> QED
  BY <1>5, <1>6, <1>7

(* and with it a key of two tokens, or a vector in brackets, stays one key. *)
LEMMA SplitIs ==
    ASSUME NEW raw, Len(raw) \in Nat, NEW g, g[0] = Splitting(<<>>, 0), \A i \in 1..Len(raw) : g[i] = TakeToken(g[i - 1], raw[i])
    PROVE  SplitKeys(raw) = g[Len(raw)]
<1> DEFINE n == Len(raw)
           Turn(a, i) == IF i = 0 THEN [keys |-> <<>>, key |-> <<>>, depth |-> 0] ELSE TakeToken(a[i - 1], raw[i])
           F(a) == a = [i \in 0..Len(raw) |-> Turn(a, i)]
           after == CHOOSE a : F(a)
           b == [i \in 0..n |-> g[i]]
<1>1. F(b)
  <2>1. ASSUME NEW i \in 0..n PROVE b[i] = Turn(b, i)
    <3>1. CASE i = 0
      BY <3>1 DEF Splitting
    <3>2. CASE i # 0
      <4>1. i - 1 \in 0..n /\ i \in 1..n
        BY <3>2
      <4>2. b[i - 1] = g[i - 1] /\ b[i] = TakeToken(g[i - 1], raw[i])
        BY <4>1
      <4> QED
        BY <3>2, <4>2
    <3> QED
      BY <3>1, <3>2
  <2>2. b = [i \in 0..n |-> b[i]]
    OBVIOUS
  <2> HIDE DEF b
  <2> QED
    BY <2>1, <2>2
<1>2. F(after)
  BY <1>1, Zenon
<1>3. SplitKeys(raw) = after[Len(raw)]
  BY Zenon DEF SplitKeys
<1> HIDE DEF after
<1> DEFINE Wrong == {k \in Nat : k <= n /\ after[k] # g[k]}
<1>4. ASSUME NEW k \in Nat, k <= n PROVE after[k] = Turn(after, k)
  BY <1>2, <1>4
<1> HIDE DEF F
<1>5. ASSUME Wrong # {} PROVE FALSE
  <2>1. PICK k \in Wrong : \A j \in Wrong : k <= j
    BY <1>5, NatMin
  <2>2. after[k] = Turn(after, k)
    BY <1>4, <2>1
  <2>3. k # 0
    BY <2>1, <2>2 DEF Splitting
  <2>4. k - 1 \in Nat /\ k - 1 <= n /\ k - 1 \notin Wrong /\ k \in 1..n
    BY <2>1, <2>3
  <2>5. after[k - 1] = g[k - 1]
    BY <2>4
  <2> QED
    BY <2>1, <2>2, <2>3, <2>4, <2>5
<1> QED
  BY <1>3, <1>5

(* A sequence of one. *)
LEMMA OneIs == ASSUME NEW x PROVE DOMAIN <<x>> = {1} /\ <<x>>[1] = x
OBVIOUS

(* A direction taken off a key of two tokens leaves the first. *)
LEMMA FrontOfTwo == ASSUME NEW x, NEW y PROVE Front(<<x, y>>) = <<x>>
<1> DEFINE s == <<x, y>>
           t == <<x>>
           S == {x, y}
           f == SubSeq(s, 1, 1)
<1>1. Len(s) = 2 /\ s[1] = x /\ Len(t) = 1 /\ t[1] = x /\ s \in Seq(S) /\ t \in Seq(S) /\ x \in S
  OBVIOUS
<1>2. Front(s) = SubSeq(s, 1, Len(s) - 1)
  BY Zenon DEF Front
<1> HIDE DEF s, t, S
<1>3. Front(s) = f
  BY <1>1, <1>2
<1>4. \A i \in 1..1 : s[i] \in S
  BY <1>1
<1>5. f \in Seq(S) /\ (Len(f) = IF 1 <= 1 THEN 1 - 1 + 1 ELSE 0) /\ \A i \in 1..(1 - 1 + 1) : f[i] = s[1 + i - 1]
  BY <1>4, SubSeqProperties
<1> HIDE DEF f
<1>6. Len(f) = Len(t) /\ \A i \in 1..Len(f) : f[i] = t[i]
  BY <1>1, <1>5
<1>7. f = t
  BY <1>1, <1>5, <1>6, SeqEqual
<1> QED
  BY <1>3, <1>7 DEF s, t

(* Text without a comma outside brackets has one key, *)
LEMMA OneKey ==
    ASSUME NEW text, text # <<>>, text[1] = Sym("ORDER BY"), NEW key, key # <<>>, NEW depth,
           SplitKeys(Tail(text)) = Splitting(key, depth)
    PROVE  \A k \in ToSet(ParseOrderBy(text)) : k = ParsedKey(key)
<1> DEFINE keys == Keep(SplitKeys(Tail(text)))
<1>1. IsSym(text[1], "ORDER BY")
  BY SymIs
<1>2. ParseOrderBy(text) = [k \in DOMAIN keys |-> ParsedKey(keys[k])]
  BY <1>1 DEF ParseOrderBy
<1>3. keys = <<key>>
  <2> DEFINE z == Splitting(key, depth)
  <2>1. z.key = key /\ z.keys = <<>>
    BY DEF Splitting
  <2> HIDE DEF z
  <2>2. Keep(z) = Append(<<>>, key)
    BY <2>1 DEF Keep
  <2>3. Keep(z) = <<key>>
    BY <2>2, Appended
  <2> QED
    BY <2>3 DEF z
<1> HIDE DEF keys
<1>4. DOMAIN keys = {1} /\ keys[1] = key
  BY <1>3, OneIs
<1> QED
  BY <1>2, <1>4 DEF ToSet

(* and no text has none. *)
LEMMA NoKey == ParseOrderBy(<<>>) = <<>>
<1> DEFINE keys == Keep(SplitKeys(<<>>))
           g == [i \in 0..0 |-> Splitting(<<>>, 0)]
<1>1. ParseOrderBy(<<>>) = [k \in DOMAIN keys |-> ParsedKey(keys[k])]
  BY DEF ParseOrderBy
<1>2. SplitKeys(<<>>) = Splitting(<<>>, 0)
  <2>1. Len(<<>>) = 0 /\ g[0] = Splitting(<<>>, 0) /\ 1..0 = {}
    OBVIOUS
  <2> HIDE DEF g
  <2>2. SplitKeys(<<>>) = g[0]
    BY <2>1, SplitIs
  <2> QED
    BY <2>1, <2>2
<1>3. keys = <<>>
  BY <1>2 DEF Keep, Splitting
<1> HIDE DEF keys
<1> QED
  BY <1>1, <1>3

(* The two orders the assistant asks for: by a column, the highest first, *)
LEMMA ColumnDescends ==
    ASSUME NEW name
    PROVE  LET order == RenderOrder(<<[expr |-> <<Col(name)>>, direction |-> <<"DESC">>]>>)
           IN  \A k \in ToSet(ParseOrderBy(order)) : k.expr = <<Col(name)>>
<1> DEFINE x == Col(name)
           y == Sym("DESC")
           o == Sym("ORDER BY")
           order == RenderOrder(<<[expr |-> <<x>>, direction |-> <<"DESC">>]>>)
           text == <<o, x, y>>
           raw == <<x, y>>
           g == [i \in 0..2 |-> IF i = 0 THEN Splitting(<<>>, 0) ELSE IF i = 1 THEN Splitting(<<x>>, 0) ELSE Splitting(raw, 0)]
<1>1. order = text
  <2> DEFINE last1 == [k \in DOMAIN <<"DESC">> |-> Sym(<<"DESC">>[k])]
  <2>1. last1 = <<y>>
    OBVIOUS
  <2>2. order = (<<o>> \o <<x>>) \o last1
    BY RenderedOne
  <2> HIDE DEF order, last1, x, y, o
  <2> QED
    BY <2>1, <2>2, Joined
<1>2. x.k = "column" /\ IsSym(y, "DESC") /\ Plain(x) /\ Plain(y)
  <2>1. x.k = "column"
    BY DEF Col, Tok
  <2>2. \A d : IsSym(y, d) <=> "DESC" = d
    BY SymIs
  <2> HIDE DEF x, y
  <2>3. "DESC" # "," /\ "DESC" # "[" /\ "DESC" # "]"
    OBVIOUS
  <2>4. Plain(x)
    BY <2>1 DEF Plain, IsSym
  <2>5. Plain(y)
    BY <2>2, <2>3, Zenon DEF Plain
  <2> QED
    BY <2>1, <2>2, <2>4, <2>5
<1> HIDE DEF x, y, o, order
<1>3. SplitKeys(raw) = Splitting(raw, 0)
  <2>1. Append(<<>>, x) = <<x>> /\ Append(<<x>>, y) = raw
    BY Appended
  <2>7. Len(raw) = 2 /\ raw[1] = x /\ raw[2] = y
    OBVIOUS
  <2>2. g[0] = Splitting(<<>>, 0) /\ g[1] = Splitting(<<x>>, 0) /\ g[2] = Splitting(raw, 0)
    OBVIOUS
  <2> HIDE DEF g, raw
  <2>3. g[1] = TakeToken(g[0], raw[1])
    <3>1. TakeToken(Splitting(<<>>, 0), x) = Splitting(Append(<<>>, x), 0)
      BY <1>2, TokenTaken
    <3> QED
      BY <2>1, <2>2, <2>7, <3>1
  <2>4. g[2] = TakeToken(g[1], raw[2])
    <3>1. TakeToken(Splitting(<<x>>, 0), y) = Splitting(Append(<<x>>, y), 0)
      BY <1>2, TokenTaken
    <3> QED
      BY <2>1, <2>2, <2>7, <3>1
  <2>5. \A i \in 1..Len(raw) : g[i] = TakeToken(g[i - 1], raw[i])
    BY <2>3, <2>4, <2>7
  <2>6. SplitKeys(raw) = g[Len(raw)]
    <3>1. Len(raw) \in Nat
      BY <2>7
    <3> QED
      BY <2>2, <2>5, <3>1, SplitIs
  <2> QED
    BY <2>2, <2>6, <2>7
<1>4. text # <<>> /\ text[1] = o /\ Tail(text) = raw /\ raw # <<>>
  OBVIOUS
<1>5. ParsedKey(raw).expr = <<x>>
  <2>1. Len(raw) > 1 /\ Last(raw) = y /\ Front(raw) = <<x>>
    <3>1. Len(raw) = 2 /\ raw[2] = y
      OBVIOUS
    <3>2. Front(raw) = <<x>>
      BY FrontOfTwo
    <3> HIDE DEF raw
    <3> QED
      BY <3>1, <3>2 DEF Last
  <2> HIDE DEF raw
  <2> QED
    BY <1>2, <2>1 DEF ParsedKey, Ends
<1> HIDE DEF text, raw
<1>6. \A k \in ToSet(ParseOrderBy(text)) : k = ParsedKey(raw)
  BY <1>3, <1>4, OneKey DEF o
<1> QED
  BY <1>1, <1>5, <1>6 DEF order, x

(* and by the distance to a vector. *)
LEMMA DistanceAscends ==
    ASSUME NEW name, NEW value
    PROVE  LET expr == <<Col(name), Sym("<=>"), Sym("["), Lit(value), Sym("]")>>
           IN  \A k \in ToSet(ParseOrderBy(RenderOrder(<<[expr |-> expr, direction |-> <<>>]>>))) : k.expr = expr
<1> DEFINE a == Col(name)
           b == Sym("<=>")
           c == Sym("[")
           d == Lit(value)
           e == Sym("]")
           o == Sym("ORDER BY")
           raw == <<a, b, c, d, e>>
           order == RenderOrder(<<[expr |-> raw, direction |-> <<>>]>>)
           text == <<o, a, b, c, d, e>>
           g == [i \in 0..5 |-> IF i = 0 THEN Splitting(<<>>, 0) ELSE IF i = 1 THEN Splitting(<<a>>, 0)
                                ELSE IF i = 2 THEN Splitting(<<a, b>>, 0) ELSE IF i = 3 THEN Splitting(<<a, b, c>>, 1)
                                ELSE IF i = 4 THEN Splitting(<<a, b, c, d>>, 1) ELSE Splitting(raw, 0)]
<1>1. order = text
  <2> DEFINE last1 == [k \in DOMAIN <<>> |-> Sym(<<>>[k])]
  <2>1. last1 = <<>>
    OBVIOUS
  <2>2. order = (<<o>> \o raw) \o last1
    BY RenderedOne
  <2> HIDE DEF order, last1, a, b, c, d, e, o
  <2>3. (<<o>> \o raw) \o <<>> = text
    BY JoinedSix, Zenon
  <2> HIDE DEF raw, text
  <2> QED
    BY <2>1, <2>2, <2>3
<1>2. Plain(a) /\ Plain(b) /\ Plain(d) /\ ~IsSym(e, "DESC") /\ ~IsSym(e, "ASC")
  <2>1. a.k = "column" /\ d.k = "literal"
    BY DEF Col, Lit, Tok
  <2>2. \A w : (IsSym(b, w) <=> "<=>" = w) /\ (IsSym(e, w) <=> "]" = w)
    BY SymIs
  <2> HIDE DEF a, b, d, e
  <2>3. "<=>" # "," /\ "<=>" # "[" /\ "<=>" # "]" /\ "]" # "DESC" /\ "]" # "ASC"
    OBVIOUS
  <2>4. Plain(a) /\ Plain(d)
    BY <2>1 DEF Plain, IsSym
  <2>5. Plain(b) /\ ~IsSym(e, "DESC") /\ ~IsSym(e, "ASC")
    BY <2>2, <2>3, Zenon DEF Plain
  <2> QED
    BY <2>4, <2>5
<1> HIDE DEF a, b, d, order
<1>3. SplitKeys(raw) = Splitting(raw, 0)
  <2>1. /\ Append(<<>>, a) = <<a>> /\ Append(<<a>>, b) = <<a, b>> /\ Append(<<a, b>>, c) = <<a, b, c>>
        /\ Append(<<a, b, c>>, d) = <<a, b, c, d>> /\ Append(<<a, b, c, d>>, e) = raw
    BY Appended
  <2>2. Len(raw) = 5 /\ raw[1] = a /\ raw[2] = b /\ raw[3] = c /\ raw[4] = d /\ raw[5] = e
    OBVIOUS
  <2>3. /\ g[0] = Splitting(<<>>, 0) /\ g[1] = Splitting(<<a>>, 0) /\ g[2] = Splitting(<<a, b>>, 0)
        /\ g[3] = Splitting(<<a, b, c>>, 1) /\ g[4] = Splitting(<<a, b, c, d>>, 1) /\ g[5] = Splitting(raw, 0)
    OBVIOUS
  <2>4. c = Sym("[") /\ e = Sym("]")
    OBVIOUS
  <2> HIDE DEF g, raw, c, e
  <2>5. TakeToken(Splitting(<<>>, 0), a) = Splitting(<<a>>, 0)
    <3>1. TakeToken(Splitting(<<>>, 0), a) = Splitting(Append(<<>>, a), 0)
      BY <1>2, TokenTaken
    <3> QED
      BY <2>1, <3>1
  <2>6. TakeToken(Splitting(<<a>>, 0), b) = Splitting(<<a, b>>, 0)
    <3>1. TakeToken(Splitting(<<a>>, 0), b) = Splitting(Append(<<a>>, b), 0)
      BY <1>2, TokenTaken
    <3> QED
      BY <2>1, <3>1
  <2>7. TakeToken(Splitting(<<a, b>>, 0), c) = Splitting(<<a, b, c>>, 1)
    <3>1. TakeToken(Splitting(<<a, b>>, 0), c) = Splitting(Append(<<a, b>>, c), 0 + 1)
      BY <2>4, TokenTaken
    <3>2. 0 + 1 = 1
      OBVIOUS
    <3> QED
      BY <2>1, <3>1, <3>2, Zenon
  <2>8. TakeToken(Splitting(<<a, b, c>>, 1), d) = Splitting(<<a, b, c, d>>, 1)
    <3>1. TakeToken(Splitting(<<a, b, c>>, 1), d) = Splitting(Append(<<a, b, c>>, d), 1)
      BY <1>2, TokenTaken
    <3> QED
      BY <2>1, <3>1
  <2>9. TakeToken(Splitting(<<a, b, c, d>>, 1), e) = Splitting(raw, 0)
    <3>1. TakeToken(Splitting(<<a, b, c, d>>, 1), e) = Splitting(Append(<<a, b, c, d>>, e), 1 - 1)
      BY <2>4, TokenTaken
    <3>2. 1 - 1 = 0
      OBVIOUS
    <3> QED
      BY <2>1, <3>1, <3>2, Zenon
  <2>10. ASSUME NEW i \in 1..Len(raw) PROVE g[i] = TakeToken(g[i - 1], raw[i])
    <3>1. (i = 1 /\ i - 1 = 0) \/ (i = 2 /\ i - 1 = 1) \/ (i = 3 /\ i - 1 = 2) \/ (i = 4 /\ i - 1 = 3) \/ (i = 5 /\ i - 1 = 4)
      BY <2>2
    <3> QED
      BY <2>2, <2>3, <2>5, <2>6, <2>7, <2>8, <2>9, <3>1
  <2>11. SplitKeys(raw) = g[Len(raw)]
    <3>1. Len(raw) \in Nat
      BY <2>2
    <3> QED
      BY <2>3, <2>10, <3>1, SplitIs
  <2> QED
    BY <2>2, <2>3, <2>11
<1>4. text # <<>> /\ text[1] = o /\ Tail(text) = raw /\ raw # <<>>
  OBVIOUS
<1>5. ParsedKey(raw).expr = raw
  <2>1. Last(raw) = e
    BY DEF Last
  <2> HIDE DEF raw
  <2>2. ~Ends(raw, "DESC") /\ ~Ends(raw, "ASC")
    BY <1>2, <2>1 DEF Ends
  <2> QED
    BY <2>2 DEF ParsedKey
<1> HIDE DEF text, c, e
<1>6. \A k \in ToSet(ParseOrderBy(text)) : k = ParsedKey(raw)
  <2> HIDE DEF raw
  <2> QED
    BY <1>3, <1>4, OneKey DEF o
<1> QED
  BY <1>1, <1>5, <1>6 DEF order, a, b, c, d, e

(* A query of one table is taken, *)
QueryTree(select, orderBy, limit) ==
  [kind |-> "Query", body |-> "Select", select |-> select, orderBy |-> orderBy, limit |-> limit]
FromOnly(select, name) == select.from = <<TableWithJoins(Table(name, ""), <<>>)>>
Bounded(limit) == limit[2] = <<>> /\ (limit[1] = <<>> \/ \E k \in Nat : limit[1] = <<Lit(IntVal(k))>>)

(* A limit that is a small number is read again. *)
LEMMA LimitIs == ASSUME NEW limit, Bounded(limit) PROVE ExtractLimit(limit) # {} /\ ExtractOffset(limit) # {}
<1>1. ExtractOffset(limit) = {0}
  BY DEF Bounded, ExtractOffset
<1>2. CASE limit[1] = <<>>
  BY <1>1, <1>2 DEF ExtractLimit
<1>3. CASE \E k \in Nat : limit[1] = <<Lit(IntVal(k))>>
  <2>1. PICK k \in Nat : limit[1] = <<Lit(IntVal(k))>>
    BY <1>3
  <2>2. Lit(IntVal(k)).k = "literal" /\ Lit(IntVal(k)).v.t = "Integer" /\ Lit(IntVal(k)).v.v = k
    BY DEF Lit, Tok, IntVal, Val
  <2> DEFINE token == Lit(IntVal(k))
  <2> HIDE DEF token
  <2>3. limit[1] # <<>> /\ limit[1][1] = token
    BY <2>1 DEF token
  <2>4. AsUsize(token) = {k}
    BY <2>2 DEF AsUsize, token
  <2> QED
    BY <1>1, <2>3, <2>4 DEF ExtractLimit
<1> QED
  BY <1>2, <1>3 DEF Bounded

(* A plain query on one table is converted, with that table and its ORDER BY. *)
LEMMA QueryIs ==
    ASSUME NEW q, q.body = "Select", NEW name, FromOnly(q.select, name), Bounded(q.limit)
    PROVE  ConvertQuery(q) # {} /\ \A x \in ConvertQuery(q) : x.from = name /\ x.order = RenderOrder(q.orderBy)
<1> DEFINE s == q.select
           from == IF s.from = <<>> THEN TableWithJoins(Table("", ""), <<>>) ELSE s.from[1]
           Result(l, o) ==
             [distinct |-> s.distinct \in {"Distinct", "On"},
              columns  |-> [i \in DOMAIN s.projection |->
                              IF s.projection[i].f \in {"*", "t.*"} THEN Wildcard ELSE s.projection[i]],
              from     |-> TableFactorName(from.relation), alias |-> TableFactorAlias(from.relation),
              joins    |-> [i \in DOMAIN from.joins |-> JoinClause(from.joins[i])],
              where    |-> Render(s.selection),
              group    |-> IF s.groupBy.all THEN <<>> ELSE s.groupBy.exprs,
              having   |-> Render(s.having),
              order    |-> RenderOrder(q.orderBy),
              limit    |-> l, offset |-> o]
           L == ExtractLimit(q.limit)
           O == ExtractOffset(q.limit)
           results == {Result(l, o) : l \in L, o \in O}
<1>1. ConvertQuery(q) = IF q.body # "Select" THEN {} ELSE results
  BY DEF ConvertQuery
<1>2. TableFactorName(from.relation) = name
  <2> DEFINE table == Table(name, "")
             entry == TableWithJoins(table, <<>>)
             none == TableWithJoins(Table("", ""), <<>>)
  <2>1. s.from = <<entry>>
    BY DEF FromOnly
  <2> HIDE DEF s, entry, none
  <2>4. from = entry
    <3>1. from = IF s.from = <<>> THEN none ELSE s.from[1]
      BY Zenon DEF none
    <3> HIDE DEF from
    <3> QED
      BY <2>1, <3>1
  <2> HIDE DEF from
  <2>2. from.relation = table
    BY <2>4 DEF TableWithJoins, entry
  <2>3. table.kind = "Table" /\ table.name = name
    BY DEF Table
  <2> HIDE DEF table
  <2> QED
    BY <2>2, <2>3 DEF TableFactorName
<1>3. \A l, o : Result(l, o).from = TableFactorName(from.relation) /\ Result(l, o).order = RenderOrder(q.orderBy)
  OBVIOUS
<1>4. ExtractLimit(q.limit) # {} /\ ExtractOffset(q.limit) # {}
  BY LimitIs
<1> HIDE DEF Result, s, from
<1>5. ConvertQuery(q) = results
  BY <1>1
<1>6. results # {} /\ \A x \in results : x.from = name /\ x.order = RenderOrder(q.orderBy)
  <2> HIDE DEF L, O
  <2>1. L # {} /\ O # {}
    BY <1>4 DEF L, O
  <2>2. \A x \in results : \E l \in L, o \in O : x = Result(l, o)
    OBVIOUS
  <2>3. results # {}
    <3>1. PICK l \in L, o \in O : TRUE
      BY <2>1
    <3>2. Result(l, o) \in results
      OBVIOUS
    <3> HIDE DEF results
    <3> QED
      BY <3>2
  <2> HIDE DEF results
  <2> QED
    BY <1>2, <1>3, <2>2, <2>3
<1> HIDE DEF results
<1> QED
  BY <1>5, <1>6

(* and so is every query of the assistant: it asks the table and orders by
   what the table has. *)
KnownKey(e, columns) == \E column \in ToSet(columns) : column.name = e[1].n /\ (Len(e) > 1 => column.type = "Vector")
Asks(tree, name, columns) ==
  /\ tree.kind = "Query" /\ ConvertQuery(tree) # {}
  /\ \A x \in ConvertQuery(tree) : x.from = name /\ \A k \in ToSet(ParseOrderBy(x.order)) : KnownKey(k.expr, columns)

(* So such a query asks what it should if its keys are columns. *)
LEMMA AsksIs ==
    ASSUME NEW select, NEW name, FromOnly(select, name), NEW orderBy, NEW limit, Bounded(limit), NEW columns,
           \A k \in ToSet(ParseOrderBy(RenderOrder(orderBy))) : KnownKey(k.expr, columns)
    PROVE  Asks(QueryTree(select, orderBy, limit), name, columns)
<1> DEFINE q == QueryTree(select, orderBy, limit)
<1>2. q.kind = "Query" /\ q.body = "Select" /\ q.select = select /\ q.orderBy = orderBy /\ q.limit = limit
  BY DEF QueryTree
<1> HIDE DEF q
<1>1. ConvertQuery(q) # {} /\ \A x \in ConvertQuery(q) : x.from = name /\ x.order = RenderOrder(orderBy)
  BY <1>2, QueryIs
<1> HIDE DEF q
<1>3. Asks(q, name, columns)
  BY <1>1, <1>2 DEF Asks
<1> QED
  BY <1>3 DEF q

(* The first column of a type is a column of the table, of that type. *)
LEMMA FirstIs ==
    ASSUME NEW table, IsSeq(table.columns), NEW types, FirstColumn(table, types) # {}
    PROVE  \E column \in ToSet(table.columns) : FirstColumn(table, types) = {column.name} /\ column.type \in types
<1> DEFINE at == {i \in DOMAIN table.columns : table.columns[i].type \in types}
<1>1. at # {} /\ FirstColumn(table, types) = {table.columns[Min(at)].name}
  BY DEF FirstColumn
<1>2. at \in SUBSET Nat
  BY SeqIs
<1>3. Min(at) \in at
  BY <1>1, <1>2, MinIs
<1> DEFINE m == Min(at)
<1>4. m \in DOMAIN table.columns /\ table.columns[m].type \in types
  BY <1>3
<1> HIDE DEF m
<1>5. table.columns[m] \in ToSet(table.columns)
  BY <1>4 DEF ToSet
<1> QED
  BY <1>1, <1>4, <1>5 DEF m

(* The element of a singleton. *)
LEMMA OnlyOne == ASSUME NEW n PROVE (CHOOSE x \in {n} : TRUE) = n
OBVIOUS

(* The table the assistant picks is one of the summary. *)
LEMMA TargetIs ==
    ASSUME NEW prompt, NEW tables, IsSeq(tables), tables # <<>>
    PROVE  \E i \in DOMAIN tables : TargetOf(prompt, tables) = tables[i]
<1> DEFINE named == {i \in DOMAIN tables : tables[i].name \in prompt.names}
<1>1. TargetOf(prompt, tables) = tables[IF named = {} THEN 1 ELSE Min(named)]
  BY Zenon DEF TargetOf
<1>2. 1 \in DOMAIN tables /\ DOMAIN tables \subseteq Nat
  <2>1. Len(tables) \in Nat /\ DOMAIN tables = 1..Len(tables)
    BY SeqIs
  <2>2. Len(tables) # 0
    BY DEF IsSeq
  <2> QED
    BY <2>1, <2>2
<1>3. named # {} => Min(named) \in named
  BY <1>2, MinIs
<1> DEFINE m == Min(named)
<1>4. named # {} => m \in DOMAIN tables
  BY <1>3
<1> HIDE DEF named, m
<1> QED
  BY <1>1, <1>2, <1>4 DEF m

(* Every pattern of translate_to_sql gives a query of a table by columns it has. *)
LEMMA TranslationAsks ==
    ASSUME NEW prompt, prompt.sql = <<>>, NEW tables, IsSeq(tables), tables # <<>>,
           \A i \in DOMAIN tables : IsSeq(tables[i].columns)
    PROVE  \E i \in DOMAIN tables : Asks(Translate(prompt, tables), tables[i].name, tables[i].columns)
<1> DEFINE tree == Translate(prompt, tables)
           t == TargetOf(prompt, tables)
           all == AllOf(t)
           The(columns) == Col(CHOOSE n \in columns : TRUE)
           target == Lit(VectorVal(IF prompt.vector = 0 THEN 1 ELSE prompt.vector))
           distance == <<The(VectorColumn(t)), Sym("<=>"), Sym("["), target, Sym("]")>>
           highest == <<The(NumericColumn(t))>>
           near == Limited(Ordered(all, distance, <<>>), 3)
           counted == [all EXCEPT !.select.projection = <<[f |-> "COUNT", arg |-> NoName]>>]
           old == [all EXCEPT !.select.selection = Cond(Col(Age), ">", Lit(IntVal(30)))]
           high == Limited(Ordered(all, highest, <<"DESC">>), 5)
           ten == Limited(all, 10)
<1>1. \/ tree = near /\ VectorColumn(t) # {}
      \/ tree = counted
      \/ tree = old
      \/ tree = high /\ NumericColumn(t) # {}
      \/ tree = ten
  BY Zenon DEF Translate
<1>2. PICK i \in DOMAIN tables : t = tables[i]
  BY TargetIs
<1>3. IsSeq(t.columns)
  BY <1>2
<1> DEFINE select == all.select
           unlimited == <<<<>>, <<>>>>
<1>4. all = QueryTree(select, <<>>, unlimited) /\ FromOnly(select, t.name)
  <2>1. all = QueryTree(select, <<>>, unlimited)
    BY DEF AllOf, QueryTree
  <2>2. FromOnly(select, t.name)
    BY DEF AllOf, FromOnly
  <2> QED
    BY <2>1, <2>2
<1>5. \A s, o : \A k \in Nat : Limited(QueryTree(s, o, unlimited), k) = QueryTree(s, o, <<<<Lit(IntVal(k))>>, <<>>>>)
  BY DEF Limited, QueryTree
<1>6. \A s, e, d : Ordered(QueryTree(s, <<>>, unlimited), e, d) = QueryTree(s, <<[expr |-> e, direction |-> d]>>, unlimited)
  BY DEF Ordered, QueryTree
<1>7. Bounded(unlimited) /\ \A k \in Nat : Bounded(<<<<Lit(IntVal(k))>>, <<>>>>)
  <2>1. unlimited[1] = <<>> /\ unlimited[2] = <<>>
    OBVIOUS
  <2>2. \A x : <<x, <<>>>>[1] = x /\ <<x, <<>>>>[2] = <<>>
    OBVIOUS
  <2> HIDE DEF unlimited
  <2> QED
    BY <2>1, <2>2, Zenon DEF Bounded
<1>8. \A k \in ToSet(ParseOrderBy(RenderOrder(<<>>))) : KnownKey(k.expr, t.columns)
  BY RenderedNone, NoKey, EmptyIsSeq
<1> HIDE DEF tree, t, all, target, near, counted, old, high, ten, select, unlimited
<1>9. CASE tree = near /\ VectorColumn(t) # {}
  <2> DEFINE orderBy == <<[expr |-> distance, direction |-> <<>>]>>
             limit == <<<<Lit(IntVal(3))>>, <<>>>>
  <2>1. PICK column \in ToSet(t.columns) : VectorColumn(t) = {column.name} /\ column.type \in {"Vector"}
    BY <1>3, <1>9, FirstIs DEF VectorColumn
  <2>2. The(VectorColumn(t)) = Col(column.name) /\ column.type = "Vector"
    BY <2>1, OnlyOne, Zenon
  <2>3. distance = <<Col(column.name), Sym("<=>"), Sym("["), target, Sym("]")>>
    BY <2>2
  <2>4. distance[1] = Col(column.name)
    BY <2>2
  <2>5. \A k \in ToSet(ParseOrderBy(RenderOrder(orderBy))) : k.expr = distance
    BY <2>3, DistanceAscends DEF target
  <2>6. near = QueryTree(select, orderBy, limit)
    <3>1. Ordered(all, distance, <<>>) = QueryTree(select, orderBy, unlimited)
      BY <1>4, <1>6
    <3> HIDE DEF orderBy, distance
    <3> QED
      BY <1>5, <3>1 DEF near, distance
  <2>7. KnownKey(distance, t.columns)
    <3>1. Col(column.name).n = column.name
      BY DEF Col, Tok
    <3> HIDE DEF distance
    <3> QED
      BY <2>1, <2>2, <2>4, <3>1 DEF KnownKey
  <2>8. Bounded(limit)
    BY <1>7
  <2> HIDE DEF distance, limit
  <2>9. \A k \in ToSet(ParseOrderBy(RenderOrder(orderBy))) : KnownKey(k.expr, t.columns)
    BY <2>5, <2>7
  <2> HIDE DEF orderBy
  <2>10. Asks(near, t.name, t.columns)
    BY <1>4, <2>6, <2>8, <2>9, AsksIs
  <2> QED
    BY <1>2, <1>9, <2>10 DEF tree
<1>10. CASE tree = high /\ NumericColumn(t) # {}
  <2> DEFINE orderBy == <<[expr |-> highest, direction |-> <<"DESC">>]>>
             limit == <<<<Lit(IntVal(5))>>, <<>>>>
  <2>1. PICK column \in ToSet(t.columns) : NumericColumn(t) = {column.name}
    BY <1>3, <1>10, FirstIs DEF NumericColumn
  <2>2. The(NumericColumn(t)) = Col(column.name)
    BY <2>1, OnlyOne, Zenon
  <2>3. highest = <<Col(column.name)>> /\ Len(highest) = 1 /\ highest[1] = Col(column.name)
    BY <2>2
  <2>5. \A k \in ToSet(ParseOrderBy(RenderOrder(orderBy))) : k.expr = highest
    BY <2>3, ColumnDescends
  <2>6. high = QueryTree(select, orderBy, limit)
    <3>1. Ordered(all, highest, <<"DESC">>) = QueryTree(select, orderBy, unlimited)
      BY <1>4, <1>6
    <3> HIDE DEF orderBy, highest
    <3> QED
      BY <1>5, <3>1 DEF high, highest
  <2>7. KnownKey(highest, t.columns)
    <3>1. Col(column.name).n = column.name
      BY DEF Col, Tok
    <3> HIDE DEF highest
    <3> QED
      BY <2>1, <2>3, <3>1 DEF KnownKey
  <2>8. Bounded(limit)
    BY <1>7
  <2> HIDE DEF highest, limit
  <2>9. \A k \in ToSet(ParseOrderBy(RenderOrder(orderBy))) : KnownKey(k.expr, t.columns)
    BY <2>5, <2>7
  <2> HIDE DEF orderBy
  <2>10. Asks(high, t.name, t.columns)
    BY <1>4, <2>6, <2>8, <2>9, AsksIs
  <2> QED
    BY <1>2, <1>10, <2>10 DEF tree
<1>11. CASE tree = ten
  <2> DEFINE limit == <<<<Lit(IntVal(10))>>, <<>>>>
  <2>1. ten = QueryTree(select, <<>>, limit) /\ Bounded(limit)
    BY <1>4, <1>5, <1>7 DEF ten
  <2> HIDE DEF limit
  <2>2. Asks(ten, t.name, t.columns)
    BY <1>4, <1>8, <2>1, AsksIs
  <2> QED
    BY <1>2, <1>11, <2>2 DEF tree
<1>12. ASSUME NEW s, FromOnly(s, t.name), tree = QueryTree(s, <<>>, unlimited)
       PROVE  Asks(tree, t.name, t.columns)
  BY <1>7, <1>8, <1>12, AsksIs
<1>13. CASE tree = counted
  <2> DEFINE s == [select EXCEPT !.projection = <<[f |-> "COUNT", arg |-> NoName]>>]
  <2>1. counted = QueryTree(s, <<>>, unlimited)
    BY <1>4 DEF counted, QueryTree
  <2>2. FromOnly(s, t.name)
    BY <1>4 DEF FromOnly, select, all, AllOf
  <2> QED
    BY <1>2, <1>12, <1>13, <2>1, <2>2 DEF tree
<1>14. CASE tree = old
  <2> DEFINE s == [select EXCEPT !.selection = Cond(Col(Age), ">", Lit(IntVal(30)))]
  <2>1. old = QueryTree(s, <<>>, unlimited)
    BY <1>4 DEF old, QueryTree
  <2>2. FromOnly(s, t.name)
    BY <1>4 DEF FromOnly, select, all, AllOf
  <2> QED
    BY <1>2, <1>12, <1>14, <2>1, <2>2 DEF tree
<1> QED
  BY <1>1, <1>9, <1>10, <1>11, <1>13, <1>14

(* A summary in the hands of a session describes registered tables, and so does
   what the assistant has said. *)
Describes(rows, c, n) ==
  /\ IsSeq(rows)
  /\ \A i \in DOMAIN rows : /\ rows[i].name \in DOMAIN n /\ rows[i].columns = c[n[rows[i].name]].columns
                            /\ IsSeq(rows[i].columns)
SaidFits(word, c, n) ==
  /\ \A i \in DOMAIN word.tables : word.tables[i] \in DOMAIN n
  /\ word.outcome = "asks" => \/ word.tables = <<>> /\ word.tree = ItemsTree
                              \/ \E name \in DOMAIN n : Asks(word.tree, name, c[n[name]].columns)
Summarized(z, c, n) == z.at = "chat" => Describes(z.rows, c, n)
TalkInv ==
  /\ ~open => said = Silence
  /\ open => SaidFits(said, catalog, names) /\ \A c \in Sessions : Summarized(session[c], catalog, names)

(* The invariant of the conversation implies the property. *)
LEMMA TalkIsUnderstood == ASSUME TalkInv PROVE AssistantIsUnderstood
<1> DEFINE text == CHOOSE t \in ConvertQuery(said.tree) : TRUE
           Known(e) == \E column \in ToSet(TableNamed(text.from)) :
                         column.name = e[1].n /\ (Len(e) > 1 => column.type = "Vector")
           A == ToSet(said.tables) \subseteq DOMAIN names
           B == said.outcome = "asks" /\ said.tree.kind = "Query" =>
                  /\ ConvertQuery(said.tree) # {}
                  /\ text.from \in DOMAIN names
                  /\ \A k \in ToSet(ParseOrderBy(text.order)) : Known(k.expr)
           C == said.outcome = "asks" /\ said.tree.kind # "Query" => said.tables = <<>> /\ ConvertStatement(said.tree) # {}
<1>1. AssistantIsUnderstood <=> A /\ B /\ C
  BY Zenon DEF AssistantIsUnderstood
<1>2. CASE ~open
  <2>1. said.outcome = "none" /\ said.tables = <<>>
    BY <1>2 DEF TalkInv, Silence
  <2>2. A
    BY <2>1 DEF ToSet
  <2>3. B /\ C
    BY <2>1
  <2> HIDE DEF A, B, C
  <2> QED
    BY <1>1, <2>2, <2>3
<1>3. CASE open
  <2>1. SaidFits(said, catalog, names)
    BY <1>3 DEF TalkInv
  <2>2. A
    BY <2>1 DEF SaidFits, ToSet
  <2>3. ItemsTree.kind = "CreateTable" /\ ConvertStatement(ItemsTree) # {}
    <3>1. ItemsTree.kind = "CreateTable"
      BY DEF ItemsTree
    <3>2. ConvertStatement(ItemsTree) = ConvertCreateTable(ItemsTree)
      BY <3>1 DEF ConvertStatement
    <3> QED
      BY <3>1, <3>2 DEF ConvertCreateTable
  <2>4. ASSUME said.outcome = "asks", said.tree.kind = "Query"
        PROVE  /\ ConvertQuery(said.tree) # {}
               /\ text.from \in DOMAIN names
               /\ \A k \in ToSet(ParseOrderBy(text.order)) : Known(k.expr)
    <3>1. PICK name \in DOMAIN names : Asks(said.tree, name, catalog[names[name]].columns)
      BY <2>1, <2>3, <2>4 DEF SaidFits
    <3> DEFINE columns == catalog[names[name]].columns
    <3>2. /\ ConvertQuery(said.tree) # {}
          /\ \A x \in ConvertQuery(said.tree) :
               x.from = name /\ \A k \in ToSet(ParseOrderBy(x.order)) : KnownKey(k.expr, columns)
      BY <3>1 DEF Asks
    <3>3. text \in ConvertQuery(said.tree)
      BY <3>2
    <3> HIDE DEF text
    <3>4. text.from = name /\ \A k \in ToSet(ParseOrderBy(text.order)) : KnownKey(k.expr, columns)
      BY <3>2, <3>3
    <3>5. TableNamed(text.from) = columns
      BY <3>4 DEF TableNamed
    <3> HIDE DEF columns
    <3> QED
      BY <3>2, <3>4, <3>5 DEF KnownKey
  <2>5. ASSUME said.outcome = "asks", said.tree.kind # "Query" PROVE said.tables = <<>> /\ ConvertStatement(said.tree) # {}
    BY <2>1, <2>3, <2>5 DEF SaidFits, Asks
  <2>6. B /\ C
    BY <2>4, <2>5
  <2> HIDE DEF A, B, C
  <2> QED
    BY <1>1, <2>2, <2>6
<1> QED
  BY <1>2, <1>3

(* It still does when the catalog has grown. *)
LEMMA DescribesLater ==
    ASSUME NEW c, NEW n, NEW d, NEW m, \A x \in DOMAIN n : x \in DOMAIN m /\ d[m[x]] = c[n[x]]
    PROVE  /\ \A z : Summarized(z, c, n) => Summarized(z, d, m)
           /\ \A word : SaidFits(word, c, n) => SaidFits(word, d, m)
<1>1. ASSUME NEW z, Summarized(z, c, n) PROVE Summarized(z, d, m)
  BY <1>1 DEF Summarized, Describes
<1>2. ASSUME NEW word, SaidFits(word, c, n) PROVE SaidFits(word, d, m)
  <2>1. \A i \in DOMAIN word.tables : word.tables[i] \in DOMAIN m
    BY <1>2 DEF SaidFits
  <2>2. ASSUME NEW name \in DOMAIN n, Asks(word.tree, name, c[n[name]].columns)
        PROVE  name \in DOMAIN m /\ Asks(word.tree, name, d[m[name]].columns)
    BY <2>2
  <2>3. word.outcome = "asks" => \/ word.tables = <<>> /\ word.tree = ItemsTree
                                 \/ \E name \in DOMAIN m : Asks(word.tree, name, d[m[name]].columns)
    BY <1>2, <2>2 DEF SaidFits
  <2> QED
    BY <2>1, <2>3, Zenon DEF SaidFits
<1> QED
  BY <1>1, <1>2

(* The steps of the engine bring no summary and keep the tables. *)
Keeps == \A x \in DOMAIN names : x \in DOMAIN names' /\ catalog'[names'[x]] = catalog[names[x]]
Quiet(c) == \E s : session' = [session EXCEPT ![c] = s] /\ s.at # "chat"

(* Nothing said needs nothing. *)
LEMMA SilenceIs == ASSUME NEW c, NEW n PROVE SaidFits(Silence, c, n) /\ Idle.at # "chat"
BY DEF SaidFits, Silence, Idle

(* A step of a statement forgets no table and starts no conversation. *)
LEMMA EngineStepIs ==
    ASSUME DbInv, "sync" \notin Faults, NEW c \in Sessions,
           \/ \E sent \in Statements : Receive(c, sent)
           \/ CreateTable(c) \/ StoreTable(c) \/ LogIndex(c) \/ ScanForIndex(c) \/ RegisterIndex(c)
           \/ Write(c) \/ EnterRow(c) \/ Return(c)
    PROVE  open /\ open' = open /\ Keeps /\ Quiet(c)
<1>1. UNCHANGED <<catalog, names>> => Keeps
  BY DEF Keeps
<1>2. Idle.at # "chat"
  BY SilenceIs
<1>3. ASSUME NEW sent \in Statements, Receive(c, sent) PROVE open /\ open' = open /\ Keeps /\ Quiet(c)
  <2>1. Sound(Accepted(sent))
    BY AcceptedIs, StatementsAssumption
  <2> QED
    BY <1>1, <1>3, <2>1 DEF Receive, Quiet, Sound
<1>4. CASE CreateTable(c)
  <2> DEFINE stmt == session[c].stmt
             schema == NewSchema(stmt)
             id == NextTableId
             record == [kind |-> "CreateTable", id |-> id, schema |-> schema]
             new == [Idle EXCEPT !.at = "store", !.id = id]
             Done == /\ stmt.table \notin DOMAIN names
                     /\ catalog' = Put(catalog, id, schema) /\ names' = Put(names, schema.name, id)
                     /\ session' = [session EXCEPT ![c] = new]
  <2>1. session[c].at = "bound" /\ stmt.kind = "create" /\ open' = open
    BY <1>4 DEF CreateTable, Bound, counters
  <2>2. Done \/ (session' = [session EXCEPT ![c] = Idle] /\ UNCHANGED <<catalog, names>>)
    <3>1. record.id = id /\ record.schema = schema
      OBVIOUS
    <3>2. LET r == RegisterTable([catalog |-> catalog, names |-> names], id, schema)
          IN  r.catalog = Put(catalog, id, schema) /\ r.names = Put(names, schema.name, id)
      BY TablesRegistered
    <3> HIDE DEF id, schema
    <3> QED
      BY <1>4, <3>1, <3>2 DEF CreateTable, Become, schema, id
  <2>3. open
    BY <2>1, IsOpen
  <2>4. CASE Done
    <3>1. \A n \in DOMAIN names : names[n] \in DOMAIN catalog
      BY <2>3, OpenIs
    <3>2. id \notin DOMAIN catalog /\ schema.name = stmt.table
      <4>1. /\ IsSeq(log) /\ Consistent(Replay(log)) /\ catalog = Replay(log).catalog /\ names = Replay(log).names
        BY <2>3, OpenIs
      <4>2. id = Max({0} \cup DOMAIN Replay(log).catalog) + 1
        BY <4>1 DEF NextTableId
      <4> DEFINE s == Replay(log)
      <4> HIDE DEF s, id, schema
      <4>3. schema.name = stmt.table
        BY DEF schema, NewSchema
      <4>4. IsSchema(schema.columns)
        <5>1. IsSeq(stmt.columns)
          BY <2>1, <2>3, IsOpen DEF SessionIs, SessionFits, BoundIn
        <5> QED
          BY <5>1, NewSchemaIs DEF schema
      <4>5. schema.name \notin DOMAIN s.names
        BY <2>4, <4>1, <4>3 DEF s
      <4>6. id \notin DOMAIN s.catalog
        BY <4>1, <4>2, <4>4, <4>5, RedoCreates DEF s
      <4> QED
        BY <4>1, <4>3, <4>6 DEF s
    <3>3. Keeps
      <4> HIDE DEF id, schema
      <4> QED
        BY <2>4, <3>1, <3>2 DEF Keeps, Put
    <3>4. new.at = "store"
      <4>1. AsSession(Idle)
        BY DEF AsSession, Idle
      <4>2. new = [at |-> "store", stmt |-> Idle.stmt, id |-> id, rows |-> Idle.rows, seen |-> Idle.seen]
        BY <4>1, IdMoves
      <4> HIDE DEF new
      <4> QED
        BY <4>2
    <3> HIDE DEF new
    <3> QED
      BY <2>1, <2>3, <2>4, <3>3, <3>4 DEF Quiet
  <2>5. CASE session' = [session EXCEPT ![c] = Idle] /\ UNCHANGED <<catalog, names>>
    BY <1>1, <1>2, <2>1, <2>3, <2>5 DEF Quiet
  <2> QED
    BY <2>2, <2>4, <2>5
<1>5. CASE StoreTable(c) \/ RegisterIndex(c) \/ Return(c)
  <2>1. session[c].at \in {"store", "register", "enter"} /\ session' = [session EXCEPT ![c] = Idle]
        /\ UNCHANGED <<open, catalog, names>>
    BY <1>5 DEF StoreTable, RegisterIndex, Return, Become, counters
  <2>2. open
    BY <2>1, IsOpen
  <2> QED
    BY <1>1, <1>2, <2>1, <2>2 DEF Quiet
<1>6. CASE LogIndex(c)
  <2> DEFINE z == session[c]
             new == [z EXCEPT !.at = "build", !.id = names[z.stmt.table]]
  <2>1. z.at = "bound" /\ UNCHANGED <<open, catalog, names>>
    BY <1>6 DEF LogIndex, Bound, counters
  <2>2. session' = [session EXCEPT ![c] = new] \/ session' = [session EXCEPT ![c] = Idle]
    BY <1>6 DEF LogIndex, Become
  <2>3. open /\ AsSession(z)
    BY <2>1, IsOpen DEF SessionIs, SessionFits, AsSession
  <2>4. new.at = "build"
    <3>1. new = [at |-> "build", stmt |-> z.stmt, id |-> names[z.stmt.table], rows |-> z.rows, seen |-> z.seen]
      BY <2>3, IdMoves
    <3> HIDE DEF new
    <3> QED
      BY <3>1
  <2> HIDE DEF new
  <2> QED
    BY <1>1, <1>2, <2>1, <2>2, <2>3, <2>4 DEF Quiet
<1>7. CASE ScanForIndex(c)
  <2> DEFINE z == session[c]
             new == [z EXCEPT !.at = "register", !.seen = Contents(store, z.id)]
  <2>1. z.at = "build" /\ session' = [session EXCEPT ![c] = new] /\ UNCHANGED <<open, catalog, names>>
    BY <1>7 DEF ScanForIndex, Become, counters
  <2>2. open /\ AsSession(z)
    BY <2>1, IsOpen DEF SessionIs, SessionFits, AsSession
  <2>3. new.at = "register"
    <3>1. new = [at |-> "register", stmt |-> z.stmt, id |-> z.id, rows |-> z.rows, seen |-> Contents(store, z.id)]
      BY <2>2, SeenMoves
    <3> HIDE DEF new
    <3> QED
      BY <3>1
  <2> HIDE DEF new
  <2> QED
    BY <1>1, <2>1, <2>2, <2>3 DEF Quiet
<1>8. CASE EnterRow(c)
  <2> DEFINE z == session[c]
             new == [z EXCEPT !.rows = Tail(@)]
  <2>1. z.at = "enter" /\ session' = [session EXCEPT ![c] = new] /\ UNCHANGED <<open, catalog, names>>
    BY <1>8 DEF EnterRow, Become, counters
  <2>2. open /\ AsSession(z)
    BY <2>1, IsOpen DEF SessionIs, SessionFits, AsSession
  <2>3. new.at = "enter"
    <3>1. new = [at |-> z.at, stmt |-> z.stmt, id |-> z.id, rows |-> Tail(z.rows), seen |-> z.seen]
      BY <2>2, RowsMove
    <3> HIDE DEF new
    <3> QED
      BY <2>1, <3>1
  <2> HIDE DEF new
  <2> QED
    BY <1>1, <2>1, <2>2, <2>3 DEF Quiet
<1>9. CASE Write(c)
  <2> DEFINE z == session[c]
             id == names[z.stmt.table]
             w == [z EXCEPT !.at = "enter", !.id = id]
             Enter(r) == [z EXCEPT !.at = "enter", !.id = id, !.rows = r]
  <2>1. z.at = "bound" /\ UNCHANGED <<open, catalog, names>>
    BY <1>9 DEF Write, counters
  <2>2. session' = [session EXCEPT ![c] = Idle] \/ \E r : session' = [session EXCEPT ![c] = Enter(r)]
    BY <1>9, Zenon DEF Write, Become
  <2>3. open /\ AsSession(z)
    BY <2>1, IsOpen DEF SessionIs, SessionFits, AsSession
  <2>4. ASSUME NEW r PROVE Enter(r).at = "enter"
    <3>1. w = [at |-> "enter", stmt |-> z.stmt, id |-> id, rows |-> z.rows, seen |-> z.seen]
      BY <2>3, IdMoves
    <3>2. Enter(r) = [w EXCEPT !.rows = r]
      BY Zenon
    <3> HIDE DEF w
    <3>3. AsSession(w)
      BY <3>1 DEF AsSession
    <3>4. Enter(r) = [at |-> w.at, stmt |-> w.stmt, id |-> w.id, rows |-> r, seen |-> w.seen]
      BY <3>2, <3>3, RowsMove
    <3> HIDE DEF Enter
    <3> QED
      BY <3>1, <3>4
  <2> HIDE DEF Enter
  <2> QED
    BY <1>1, <1>2, <2>1, <2>2, <2>3, <2>4 DEF Quiet
<1> QED
  BY <1>3, <1>4, <1>5, <1>6, <1>7, <1>8, <1>9

(* A summary describes the tables as they are. *)
LEMMA SummaryIs == ASSUME DbInv, open PROVE Describes(Summary, catalog, names)
<1> DEFINE listed == Listed(Alphabet, names)
<1>1. IsSeq(listed) /\ ToSet(listed) \subseteq DOMAIN names
  BY ListedIs, AlphabetAssumption
<1>2. Summary = [i \in DOMAIN listed |-> [name |-> listed[i], columns |-> TableNamed(listed[i]),
                                          rows |-> Cardinality(DOMAIN store[names[listed[i]]])]]
  BY Zenon DEF Summary
<1> HIDE DEF listed
<1> DEFINE rows == Summary
<1>3. DOMAIN rows = DOMAIN listed /\ rows = [i \in DOMAIN listed |-> rows[i]]
      /\ \A i \in DOMAIN listed : rows[i].name = listed[i] /\ rows[i].columns = TableNamed(listed[i])
  BY <1>2
<1> HIDE DEF rows
<1>4. IsSeq(rows)
  BY <1>1, <1>3, MadeIs
<1>5. ASSUME NEW i \in DOMAIN rows
      PROVE  /\ rows[i].name \in DOMAIN names /\ rows[i].columns = catalog[names[rows[i].name]].columns
             /\ IsSeq(rows[i].columns)
  <2>1. listed[i] \in DOMAIN names
    BY <1>1, <1>3 DEF ToSet
  <2>2. rows[i].name = listed[i] /\ rows[i].columns = catalog[names[rows[i].name]].columns
    BY <1>3 DEF TableNamed
  <2>3. names[rows[i].name] \in DOMAIN catalog /\ Consistent(Replay(log)) /\ catalog = Replay(log).catalog
    BY <2>1, <2>2, OpenIs
  <2>4. IsSeq(rows[i].columns)
    BY <2>2, <2>3 DEF Consistent, IsSchema
  <2> QED
    BY <2>1, <2>2, <2>4
<1> QED
  BY <1>4, <1>5 DEF Describes, rows

(* What the assistant says of a summary that describes the tables. *)
LEMMA SpeechIs ==
    ASSUME NEW prompt \in Prompts, NEW rows, Describes(rows, catalog, names), NEW word,
           word.tables = [i \in DOMAIN rows |-> rows[i].name],
           word.outcome = "asks" => prompt.sql = <<>> /\ word.tree = Translate(prompt, rows)
    PROVE  SaidFits(word, catalog, names)
<1>1. \A i \in DOMAIN word.tables : word.tables[i] \in DOMAIN names
  BY DEF Describes
<1>2. ASSUME word.outcome = "asks"
      PROVE  \/ word.tables = <<>> /\ word.tree = ItemsTree
             \/ \E name \in DOMAIN names : Asks(word.tree, name, catalog[names[name]].columns)
  <2>1. CASE rows = <<>>
    <3>1. Translate(prompt, rows) = ItemsTree
      BY <1>2, <2>1, Zenon DEF Translate
    <3>2. word.tables = <<>>
      BY <2>1
    <3> QED
      BY <1>2, <3>1, <3>2
  <2>2. CASE rows # <<>>
    <3>1. \E i \in DOMAIN rows : Asks(word.tree, rows[i].name, rows[i].columns)
      BY <1>2, <2>2, TranslationAsks DEF Describes
    <3> QED
      BY <3>1 DEF Describes
  <2> QED
    BY <2>1, <2>2
<1> QED
  BY <1>1, <1>2, Zenon DEF SaidFits

(* What the assistant says fits the catalog it has read. *)
LEMMA SaidBySpeak ==
    ASSUME DbInv, TalkInv, NEW c \in Sessions, Speak(c)
    PROVE  SaidFits(said', catalog, names)
<1> DEFINE prompt == session[c].stmt
           rows == session[c].rows
           tree == Translate(prompt, rows)
           word == [outcome |-> IF prompt.sql = <<>> THEN "asks" ELSE "repeats", tree |-> tree,
                    tables |-> [i \in DOMAIN rows |-> rows[i].name]]
           other == [word EXCEPT !.outcome = "lists", !.tree = <<>>]
<1>1. session[c].at = "chat" /\ said' \in {word, other}
  <2> DEFINE lists == "tables" \in prompt.words
             query == tree.kind = "Query"
             P == said' = other
             Q == said' = word
             A == Become(c, Idle)
             B == Become(c, Accepted([tree |-> tree, prepared |-> FALSE, params |-> <<>>]))
  <2>1. (CASE lists -> A /\ P [] ~lists /\ query -> A /\ Q [] OTHER -> B /\ Q) /\ session[c].at = "chat"
    BY Zenon DEF Speak
  <2> HIDE DEF A, B, P, Q, lists, query
  <2>2. P \/ Q
    BY <2>1
  <2> HIDE DEF word, other
  <2> QED
    BY <2>1, <2>2 DEF P, Q
<1>2. prompt \in Prompts /\ Describes(rows, catalog, names)
  <2>1. open /\ SessionIs(session[c])
    BY <1>1, IsOpen
  <2> QED
    BY <1>1, <2>1 DEF SessionIs, SessionFits, TalkInv, Summarized
<1>3. /\ word.tables = [i \in DOMAIN rows |-> rows[i].name] /\ word.tree = tree
      /\ word.outcome = IF prompt.sql = <<>> THEN "asks" ELSE "repeats"
  OBVIOUS
<1>4. other.tables = word.tables /\ other.outcome = "lists"
  <2> DEFINE x == IF prompt.sql = <<>> THEN "asks" ELSE "repeats"
             y == [i \in DOMAIN rows |-> rows[i].name]
             z == [word EXCEPT !.outcome = "lists"]
  <2> HIDE DEF tree, x, y
  <2>1. word = [outcome |-> x, tree |-> tree, tables |-> y]
    BY DEF x, y
  <2> HIDE DEF word
  <2>2. z = [outcome |-> "lists", tree |-> tree, tables |-> y] /\ word.tables = y
    BY <2>1
  <2>3. other = [z EXCEPT !.tree = <<>>]
    BY Zenon
  <2> HIDE DEF z
  <2>4. [z EXCEPT !.tree = <<>>].tables = y /\ [z EXCEPT !.tree = <<>>].outcome = "lists"
    BY <2>2
  <2> QED
    BY <2>2, <2>3, <2>4
<1> HIDE DEF word, other, tree
<1>5. SaidFits(word, catalog, names)
  <2>1. word.outcome = "asks" => prompt.sql = <<>> /\ word.tree = Translate(prompt, rows)
    BY <1>3 DEF tree
  <2> HIDE DEF prompt, rows
  <2> QED
    BY <1>2, <1>3, <2>1, SpeechIs
<1>6. SaidFits(other, catalog, names)
  <2> HIDE DEF prompt, rows
  <2>1. other.outcome # "asks"
    BY <1>4
  <2> QED
    BY <1>4, <1>5, <2>1 DEF SaidFits
<1> QED
  BY <1>1, <1>5, <1>6

(* Every step preserves the invariant of the conversation. *)
LEMMA TalkStep == ASSUME DbInv, TalkInv, "sync" \notin Faults, [ANext]_avars PROVE TalkInv'
<1> USE DEF TalkInv
<1>1. CASE Recover /\ said' = (IF open' THEN said ELSE Silence)
  <2>1. ~open /\ open' = TRUE /\ session' = [c \in Sessions |-> Idle] /\ said' = Silence
    BY <1>1 DEF Recover
  <2> QED
    BY <2>1, SilenceIs DEF Summarized
<1>2. CASE Crash /\ said' = (IF open' THEN said ELSE Silence)
  <2>1. open' = FALSE /\ said' = Silence
    BY <1>2 DEF Crash
  <2> QED
    BY <2>1
<1>3. ASSUME open, open' = open, Keeps, SaidFits(said', catalog, names), NEW c \in Sessions,
             NEW s, session' = [session EXCEPT ![c] = s], Summarized(s, catalog, names)
      PROVE  TalkInv'
  <2>1. session'[c] = s /\ \A d \in Sessions \ {c} : session'[d] = session[d]
    BY <1>3, MoveIs
  <2>2. \A d \in Sessions : Summarized(session'[d], catalog, names)
    BY <1>3, <2>1
  <2>3. SaidFits(said', catalog', names') /\ \A d \in Sessions : Summarized(session'[d], catalog', names')
    BY <1>3, <2>2, DescribesLater DEF Keeps
  <2> QED
    BY <1>3, <2>3 DEF SaidFits, Summarized, Describes
<1>4. ASSUME NEW c \in Sessions, said' = (IF open' THEN said ELSE Silence),
             \/ \E sent \in Statements : Receive(c, sent)
             \/ CreateTable(c) \/ StoreTable(c) \/ LogIndex(c) \/ ScanForIndex(c) \/ RegisterIndex(c)
             \/ Write(c) \/ EnterRow(c) \/ Return(c)
      PROVE  TalkInv'
  <2>1. open /\ open' = open /\ Keeps /\ Quiet(c)
    BY <1>4, EngineStepIs
  <2>2. PICK s : session' = [session EXCEPT ![c] = s] /\ s.at # "chat"
    BY <2>1 DEF Quiet
  <2>3. SaidFits(said', catalog, names) /\ Summarized(s, catalog, names)
    BY <1>4, <2>1, <2>2 DEF Summarized
  <2> QED
    BY <1>3, <2>1, <2>2, <2>3
<1>5. ASSUME NEW c \in Sessions, Speak(c) PROVE TalkInv'
  <2>1. session[c].at = "chat" /\ UNCHANGED <<open, catalog, names>>
    BY <1>5 DEF Speak
  <2>2. open
    BY <2>1, IsOpen
  <2>3. PICK s : Sound(s) /\ session' = [session EXCEPT ![c] = s]
    BY <1>5, SpeakIs
  <2>4. Keeps /\ SaidFits(said', catalog, names) /\ Summarized(s, catalog, names)
    BY <1>5, <2>1, <2>3, SaidBySpeak DEF Keeps, Summarized, Sound
  <2> QED
    BY <1>3, <2>1, <2>2, <2>3, <2>4
<1>6. ASSUME NEW c \in Sessions, NEW prompt \in Prompts, Chat(c, prompt) PROVE TalkInv'
  <2> DEFINE s == [Idle EXCEPT !.at = "chat", !.stmt = prompt, !.rows = Summary]
             panic == [Silence EXCEPT !.outcome = "panicked"]
  <2>1. /\ open /\ session[c].at = "idle" /\ UNCHANGED <<open, catalog, names>>
        /\ \/ session' = [session EXCEPT ![c] = s] /\ said' = said
           \/ session' = session /\ said' = panic
    BY <1>6 DEF Chat, Become
  <2>2. Keeps
    BY <2>1 DEF Keeps
  <2>3. CASE session' = [session EXCEPT ![c] = s] /\ said' = said
    <3>1. s.rows = Summary
      <4> DEFINE u == [Idle EXCEPT !.at = "chat"]
                 w == [u EXCEPT !.stmt = prompt]
      <4>1. u = [at |-> "chat", stmt |-> <<>>, id |-> 0, rows |-> <<>>, seen |-> <<>>]
        BY DEF Idle
      <4>2. s = [w EXCEPT !.rows = Summary]
        BY Zenon
      <4> HIDE DEF u
      <4>3. w = [at |-> "chat", stmt |-> prompt, id |-> 0, rows |-> <<>>, seen |-> <<>>]
        BY <4>1
      <4> HIDE DEF w, s
      <4> QED
        BY <4>2, <4>3
    <3> HIDE DEF s
    <3>2. Summarized(s, catalog, names)
      BY <2>1, <3>1, SummaryIs DEF Summarized
    <3> QED
      BY <1>3, <2>1, <2>2, <2>3, <3>2
  <2>4. CASE session' = session /\ said' = panic
    <3>1. panic.outcome = "panicked" /\ panic.tables = <<>>
      BY DEF Silence
    <3> HIDE DEF panic
    <3>2. SaidFits(panic, catalog, names)
      BY <3>1 DEF SaidFits
    <3>3. session' = [session EXCEPT ![c] = session[c]]
      BY <2>4 DEF DbInv, SessionsAreSound
    <3>4. Summarized(session[c], catalog, names)
      BY <2>1 DEF Summarized
    <3> QED
      BY <1>3, <2>1, <2>2, <2>4, <3>2, <3>3, <3>4
  <2> QED
    BY <2>1, <2>3, <2>4
<1>7. CASE UNCHANGED avars
  <2>1. UNCHANGED <<open, catalog, names, session, said>>
    BY <1>7 DEF avars, vars, volatile
  <2> QED
    BY <2>1 DEF SaidFits, Summarized, Describes
<1>8. CASE Next /\ said' = (IF open' THEN said ELSE Silence)
  BY <1>1, <1>2, <1>4, <1>8 DEF Next
<1> QED
  BY <1>5, <1>6, <1>7, <1>8 DEF ANext

(* What the assistant makes of a prompt is understood: it asks a registered
   table by columns it has, and lists tables that exist. *)
THEOREM AssistantMakesSense == ASSUME "sync" \notin Faults PROVE ASpec => []AssistantIsUnderstood
<1> DEFINE Inv == DbInv /\ TalkInv
<1>1. AInit => Inv
  <2>1. AInit => ~open /\ said = Silence
    BY DEF AInit, Init
  <2>2. AInit => DbInv
    BY DbInit DEF AInit
  <2> QED
    BY <2>1, <2>2 DEF TalkInv
<1>2. Inv /\ [ANext]_avars => Inv'
  BY DbStep, TalkStep
<1>3. Inv => AssistantIsUnderstood
  BY TalkIsUnderstood
<1> QED
  BY <1>1, <1>2, <1>3, PTL DEF ASpec
=============================================================================
