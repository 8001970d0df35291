---------------------------- MODULE MergeProofs ----------------------------
(***************************************************************************)
(* The merge of a parallel decode, proved for any number of rings, chunks, *)
(* workers and channels: nothing is handed to the reconstructor twice, a   *)
(* merge that ended well handed over everything, and what it hands over is *)
(* in order.                                                               *)
(***************************************************************************)
EXTENDS MergeRecords, FiniteSetTheorems, SequenceTheorems, WellFoundedInduction, TLAPS

(***************************************************************************)
(* Sequences.                                                              *)
(***************************************************************************)
\* A set of natural numbers has a least element.
LEMMA NatMin ==
    ASSUME NEW T, T \subseteq Nat, T # {}
    PROVE  \E x \in T : \A y \in T : x <= y
<1>1. \E x \in T : \A y \in T : ~(<<y, x>> \in OpToRel(<, Nat))
    BY NatLessThanWellFounded, WFMin, Zenon
<1>2. \A a, b \in Nat : a < b => <<a, b>> \in OpToRel(<, Nat)
    BY Zenon DEF OpToRel
<1>3. \E x \in T : \A y \in T : ~(y < x)
    BY <1>1, <1>2, Zenon
<1> QED BY <1>3

\* Every pair of q, in the order of q, is in rel.
Ordered(q, rel) == \A i, j \in 1..Len(q) : i < j => <<q[i], q[j]>> \in rel

\* Concatenation keeps an order that holds in both parts and between them.
LEMMA OrderedConcat ==
    ASSUME NEW X, NEW p \in Seq(X), NEW q \in Seq(X), NEW rel,
           Ordered(p, rel), Ordered(q, rel),
           \A i \in 1..Len(p), j \in 1..Len(q) : <<p[i], q[j]>> \in rel
    PROVE  Ordered(p \o q, rel)
<1>0. Len(p) \in Nat /\ Len(q) \in Nat
    OBVIOUS
<1>1. /\ Len(p \o q) = Len(p) + Len(q)
      /\ \A i \in 1..Len(p) + Len(q) : (p \o q)[i] = IF i <= Len(p) THEN p[i] ELSE q[i - Len(p)]
    BY ConcatProperties, Zenon
<1> SUFFICES ASSUME NEW i \in 1..Len(p) + Len(q), NEW j \in 1..Len(p) + Len(q), i < j
             PROVE  <<(p \o q)[i], (p \o q)[j]>> \in rel
    BY <1>1 DEF Ordered
<1>2. CASE j <= Len(p)
  <2>1. i \in 1..Len(p) /\ j \in 1..Len(p) /\ i <= Len(p)
    BY <1>0, <1>2
  <2>2. <<p[i], p[j]>> \in rel
    BY <2>1 DEF Ordered
  <2> QED BY <1>1, <1>2, <2>1, <2>2
<1>3. CASE i <= Len(p) /\ ~(j <= Len(p))
  <2>1. i \in 1..Len(p) /\ j - Len(p) \in 1..Len(q)
    BY <1>0, <1>3
  <2>2. <<p[i], q[j - Len(p)]>> \in rel
    BY <2>1
  <2> QED BY <1>1, <1>3, <2>2
<1>4. CASE ~(i <= Len(p))
  <2>1. i - Len(p) \in 1..Len(q) /\ j - Len(p) \in 1..Len(q) /\ i - Len(p) < j - Len(p) /\ ~(j <= Len(p))
    BY <1>0, <1>4
  <2>2. <<q[i - Len(p)], q[j - Len(p)]>> \in rel
    BY <2>1 DEF Ordered
  <2> QED BY <1>1, <1>4, <2>1, <2>2
<1> QED BY <1>0, <1>2, <1>3, <1>4

\* f is the recursive function behind FlattenSeq.
Flattening(ss, f) == f = [i \in 1..Len(ss) |-> IF i = 1 THEN ss[i] ELSE f[i - 1] \o ss[i]]

\* r has the elements of the first n sequences, in a sequence.
Flattened(X, ss, r, n) ==
    /\ r \in Seq(X)
    /\ \A i \in 1..Len(r) : \E k \in 1..n : \E j \in 1..Len(ss[k]) : r[i] = ss[k][j]
    /\ \A k \in 1..n : \A j \in 1..Len(ss[k]) : \E i \in 1..Len(r) : r[i] = ss[k][j]

\* The order within the sequences and between them.
Rows(ss, n, rel) ==
    /\ \A k \in 1..n : Ordered(ss[k], rel)
    /\ \A k, l \in 1..n : k < l =>
          \A i \in 1..Len(ss[k]), j \in 1..Len(ss[l]) : <<ss[k][i], ss[l][j]>> \in rel

\* Such a function exists: extend the one for n - 1.
LEMMA FlatteningExists ==
    ASSUME NEW X, NEW ss \in Seq(X)
    PROVE  \E f : Flattening(ss, f)
<1> DEFINE Upto(n, f) == f = [i \in 1..n |-> IF i = 1 THEN ss[i] ELSE f[i - 1] \o ss[i]]
           Q == {n \in Nat : ~ \E f : Upto(n, f)}
<1>1. Q = {}
  <2> SUFFICES ASSUME Q # {} PROVE FALSE
    OBVIOUS
  <2>1. PICK n \in Q : \A m \in Q : n <= m
    <3>1. Q \subseteq Nat
      OBVIOUS
    <3> HIDE DEF Q
    <3> QED BY <3>1, NatMin
  <2>2. CASE n = 0
    <3>1. Upto(0, [i \in 1..0 |-> ss[i]])
      OBVIOUS
    <3> HIDE DEF Upto
    <3> QED BY <2>2, <3>1
  <2>3. CASE n # 0
    <3>0. n \in Nat
      OBVIOUS
    <3>1. n \in Nat /\ n - 1 \in Nat /\ n - 1 \notin Q
      <4> HIDE DEF Q
      <4> QED BY <2>1, <2>3, <3>0
    <3>2. PICK g : Upto(n - 1, g)
      BY <3>1
    <3> DEFINE h == [i \in 1..n |-> IF i = 1 THEN ss[i] ELSE g[i - 1] \o ss[i]]
    <3>3. \A i \in 1..(n - 1) : h[i] = g[i]
      <4>1. \A i \in 1..(n - 1) : i \in 1..n
        BY <3>1
      <4> QED BY <3>2, <4>1, Zenon
    <3>4. \A i \in 1..n : i # 1 => h[i - 1] = g[i - 1]
      <4> HIDE DEF h, Upto
      <4> QED BY <3>1, <3>3
    <3>5. h = [i \in 1..n |-> IF i = 1 THEN ss[i] ELSE h[i - 1] \o ss[i]]
      BY <3>4, Zenon
    <3>6. Upto(n, h)
      <4> HIDE DEF h
      <4> QED BY <3>5
    <3> HIDE DEF h, Upto
    <3> QED BY <3>6
  <2> QED BY <2>2, <2>3
<1>2. Len(ss) \in Nat
    OBVIOUS
<1>3. PICK f : Upto(Len(ss), f)
    BY <1>1, <1>2
<1> QED BY <1>3 DEF Flattening

\* One more sequence is appended.
LEMMA AppendRow ==
    ASSUME NEW X, NEW ss \in Seq(Seq(X)), NEW m \in 1..Len(ss), m # 1,
           NEW p, Flattened(X, ss, p, m - 1), NEW q, q = ss[m], NEW r, r = p \o q
    PROVE  /\ Flattened(X, ss, r, m)
           /\ \A rel : Rows(ss, m, rel) /\ Ordered(p, rel) => Ordered(r, rel)
<1>0. m \in Nat /\ q \in Seq(X) /\ p \in Seq(X)
    BY DEF Flattened
<1>1. Len(p) \in Nat /\ Len(q) \in Nat
    BY <1>0
<1>2. /\ r \in Seq(X) /\ Len(r) = Len(p) + Len(q)
      /\ \A i \in 1..Len(p) + Len(q) : r[i] = IF i <= Len(p) THEN p[i] ELSE q[i - Len(p)]
    BY <1>0, ConcatProperties, Zenon
<1>3. ASSUME NEW i \in 1..Len(r)
      PROVE  \E k \in 1..m : \E j \in 1..Len(ss[k]) : r[i] = ss[k][j]
  <2>1. CASE i <= Len(p)
    <3>1. i \in 1..Len(p) /\ r[i] = p[i]
      BY <1>1, <1>2, <2>1
    <3>2. PICK k \in 1..(m - 1) : \E j \in 1..Len(ss[k]) : p[i] = ss[k][j]
      BY <3>1 DEF Flattened
    <3>3. k \in 1..m
      BY <1>0
    <3> QED BY <3>1, <3>2, <3>3
  <2>2. CASE ~(i <= Len(p))
    <3>1. i - Len(p) \in 1..Len(q) /\ r[i] = q[i - Len(p)]
      BY <1>1, <1>2, <2>2
    <3>2. m \in 1..m
      BY <1>0
    <3> QED BY <3>1, <3>2
  <2> QED BY <2>1, <2>2
<1>4. ASSUME NEW k \in 1..m, NEW j \in 1..Len(ss[k])
      PROVE  \E i \in 1..Len(r) : r[i] = ss[k][j]
  <2>1. CASE k = m
    <3>1. j \in 1..Len(q)
      BY <2>1
    <3>2. j + Len(p) \in 1..Len(p) + Len(q) /\ ~(j + Len(p) <= Len(p)) /\ (j + Len(p)) - Len(p) = j
      BY <1>1, <3>1
    <3>3. r[j + Len(p)] = q[j]
      BY <1>2, <3>2
    <3>4. j + Len(p) \in 1..Len(r) /\ r[j + Len(p)] = ss[k][j]
      BY <1>2, <2>1, <3>2, <3>3, Zenon
    <3> QED BY <3>4, Zenon
  <2>2. CASE k # m
    <3>1. k \in 1..(m - 1)
      BY <1>0, <2>2
    <3>2. PICK i \in 1..Len(p) : p[i] = ss[k][j]
      BY <3>1 DEF Flattened
    <3>3. i \in 1..Len(r) /\ r[i] = p[i]
      BY <1>1, <1>2
    <3> QED BY <3>2, <3>3
  <2> QED BY <2>1, <2>2
<1>5. ASSUME NEW rel, Rows(ss, m, rel), Ordered(p, rel)
      PROVE  Ordered(r, rel)
  <2>1. Ordered(q, rel)
    BY <1>0, <1>5 DEF Rows
  <2>2. \A i \in 1..Len(p), j \in 1..Len(q) : <<p[i], q[j]>> \in rel
    <3> SUFFICES ASSUME NEW i \in 1..Len(p), NEW j \in 1..Len(q)
                 PROVE  <<p[i], q[j]>> \in rel
      OBVIOUS
    <3>1. PICK k \in 1..(m - 1) : \E a \in 1..Len(ss[k]) : p[i] = ss[k][a]
      BY DEF Flattened
    <3>2. k \in 1..m /\ m \in 1..m /\ k < m
      BY <1>0
    <3> QED BY <1>5, <3>1, <3>2 DEF Rows
  <2> QED BY <1>0, <1>5, <2>1, <2>2, OrderedConcat
<1> QED BY <1>2, <1>3, <1>4, <1>5 DEF Flattened

\* What that function has up to n, by the least n for which it has not.
LEMMA FlatteningHas ==
    ASSUME NEW X, NEW ss \in Seq(Seq(X)), NEW f, Flattening(ss, f), NEW n \in 1..Len(ss)
    PROVE  Flattened(X, ss, f[n], n) /\ \A rel : Rows(ss, n, rel) => Ordered(f[n], rel)
<1> DEFINE Good(m) == Flattened(X, ss, f[m], m) /\ \A rel : Rows(ss, m, rel) => Ordered(f[m], rel)
           Q == {m \in 1..Len(ss) : ~Good(m)}
<1>0. Len(ss) \in Nat /\ \A k \in 1..Len(ss) : ss[k] \in Seq(X)
    OBVIOUS
<1>1. Q = {}
  <2> SUFFICES ASSUME Q # {} PROVE FALSE
    OBVIOUS
  <2>1. PICK m \in Q : \A k \in Q : m <= k
    <3>1. Q \subseteq Nat
      BY <1>0
    <3> HIDE DEF Q
    <3> QED BY <3>1, NatMin
  <2>0. m \in 1..Len(ss) /\ ~Good(m) /\ m \in Nat
    BY <1>0
  <2>2. CASE m = 1
    <3>1. f[1] = ss[1]
      BY <2>0, <2>2 DEF Flattening
    <3>2. ss[1] \in Seq(X)
      BY <1>0, <2>0, <2>2
    <3>3. Flattened(X, ss, f[1], 1)
      BY <3>1, <3>2 DEF Flattened
    <3>4. \A rel : Rows(ss, 1, rel) => Ordered(f[1], rel)
      BY <3>1 DEF Rows
    <3> QED BY <2>0, <2>2, <3>3, <3>4
  <2>3. CASE m # 1
    <3>1. m - 1 \in 1..Len(ss) /\ m - 1 \notin Q
      <4> HIDE DEF Q
      <4>1. m - 1 \in 1..Len(ss) /\ ~(m <= m - 1)
        BY <1>0, <2>0, <2>3
      <4> QED BY <2>1, <4>1
    <3>2. Good(m - 1)
      BY <3>1, Zenon
    <3>3. f[m] = f[m - 1] \o ss[m]
      BY <2>0, <2>3, Zenon DEF Flattening
    <3>4. /\ Flattened(X, ss, f[m], m)
          /\ \A rel : Rows(ss, m, rel) /\ Ordered(f[m - 1], rel) => Ordered(f[m], rel)
      <4>1. Flattened(X, ss, f[m - 1], m - 1)
        BY <3>2, Zenon
      <4> HIDE DEF Q, Good
      <4>2. m \in 1..Len(ss) /\ m # 1
        BY <2>0, <2>3, Zenon
      <4> DEFINE p == f[m - 1]
      <4>3. Flattened(X, ss, p, m - 1)
        BY <4>1, Zenon
      <4>4. f[m] = p \o ss[m]
        BY <3>3, Zenon
      <4> HIDE DEF p
      <4>5. /\ Flattened(X, ss, p \o ss[m], m)
            /\ \A rel : Rows(ss, m, rel) /\ Ordered(p, rel) => Ordered(p \o ss[m], rel)
        BY <4>2, <4>3, AppendRow, Zenon
      <4> QED BY <4>4, <4>5, Zenon DEF p
    <3>5. ASSUME NEW rel, Rows(ss, m, rel)
          PROVE  Ordered(f[m], rel)
      <4>1. Rows(ss, m - 1, rel)
        <5> HIDE DEF Q, Good
        <5>1. \A k \in 1..(m - 1) : k \in 1..m
          BY <2>0
        <5> QED BY <3>5, <5>1, Zenon DEF Rows
      <4>2. Ordered(f[m - 1], rel)
        BY <3>2, <4>1, Zenon
      <4> QED BY <3>4, <3>5, <4>2, Zenon
    <3> QED BY <2>0, <3>4, <3>5, Zenon
  <2> QED BY <2>2, <2>3
<1> QED BY <1>1, Zenon

\* FlattenSeq has exactly the elements of the sequences, and their order.
LEMMA FlattenHas ==
    ASSUME NEW X, NEW ss \in Seq(Seq(X))
    PROVE  /\ Flattened(X, ss, FlattenSeq(ss), Len(ss))
           /\ \A rel : Rows(ss, Len(ss), rel) => Ordered(FlattenSeq(ss), rel)
<1>0. Len(ss) \in Nat
    OBVIOUS
<1>1. CASE Len(ss) = 0
  <2>1. FlattenSeq(ss) = <<>>
    BY <1>1 DEF FlattenSeq
  <2> QED BY <1>1, <2>1 DEF Ordered, Flattened
<1>2. CASE Len(ss) # 0
  <2> DEFINE g == CHOOSE f : Flattening(ss, f)
  <2>1. FlattenSeq(ss) = g[Len(ss)]
    BY <1>2, Zenon DEF FlattenSeq, Flattening
  <2>2. Flattening(ss, g)
    BY FlatteningExists
  <2>3. Len(ss) \in 1..Len(ss)
    BY <1>0, <1>2
  <2> HIDE DEF g
  <2>4. Flattened(X, ss, g[Len(ss)], Len(ss)) /\ \A rel : Rows(ss, Len(ss), rel) => Ordered(g[Len(ss)], rel)
    BY <2>2, <2>3, FlatteningHas
  <2> QED BY <2>1, <2>4, Zenon
<1> QED BY <1>1, <1>2

(***************************************************************************)
(* Sorting by rank.                                                        *)
(***************************************************************************)
\* Ring and position tell the records of a set apart.
Determined(C) == \A a, b \in C : a.ring = b.ring /\ a.n = b.n => a = b
Rank(C, r) == Cardinality({x \in C : Before(x, r)})

\* Before is a strict order, total where ring and position determine a record.
LEMMA BeforeOrders ==
    ASSUME NEW a \in Records, NEW b \in Records, NEW c \in Records
    PROVE  /\ ~Before(a, a)
           /\ Before(a, b) /\ Before(b, c) => Before(a, c)
           /\ Before(a, b) \/ Before(b, a) \/ (a.ring = b.ring /\ a.n = b.n)
<1>1. /\ a.time \in Nat /\ b.time \in Nat /\ c.time \in Nat
      /\ a.ring \in Nat /\ b.ring \in Nat /\ c.ring \in Nat
      /\ a.n \in Nat /\ b.n \in Nat /\ c.n \in Nat
    BY MergeAssumption DEF Records
<1> QED BY <1>1 DEF Before

\* The rank of a record is below the size of the set, and follows the order.
LEMMA RankGrows ==
    ASSUME NEW C, C \subseteq Records, IsFiniteSet(C), NEW a \in C
    PROVE  /\ Rank(C, a) \in 0..Cardinality(C) - 1
           /\ \A b \in C : Before(a, b) => Rank(C, a) < Rank(C, b)
<1> DEFINE Below(r) == {x \in C : Before(x, r)}
<1>1. ASSUME NEW r \in C
      PROVE  /\ IsFiniteSet(Below(r)) /\ Rank(C, r) = Cardinality(Below(r)) /\ Rank(C, r) \in Nat
             /\ r \notin Below(r) /\ Below(r) \subseteq C
  <2>1. Below(r) \subseteq C /\ Rank(C, r) = Cardinality(Below(r))
    BY Zenon DEF Rank
  <2>2. r \notin Below(r)
    BY BeforeOrders
  <2> HIDE DEF Below
  <2>3. IsFiniteSet(Below(r)) /\ Cardinality(Below(r)) \in Nat
    BY <2>1, FS_Subset, FS_CardinalityType
  <2> QED BY <2>1, <2>2, <2>3
<1>2. ASSUME NEW b \in C, Before(a, b)
      PROVE  Below(a) \union {a} \subseteq Below(b)
  <2> SUFFICES ASSUME NEW x \in C, Before(x, a) PROVE Before(x, b)
    BY <1>2
  <2> QED BY <1>2, BeforeOrders
<1> HIDE DEF Below
<1>3. IsFiniteSet(Below(a) \union {a}) /\ Cardinality(Below(a) \union {a}) = Rank(C, a) + 1
    BY <1>1, FS_AddElement
<1>4. Rank(C, a) + 1 <= Cardinality(C)
  <2>1. Below(a) \union {a} \in SUBSET C
    BY <1>1
  <2> QED BY <1>3, <2>1, FS_Subset
<1>5. ASSUME NEW b \in C, Before(a, b)
      PROVE  Rank(C, a) < Rank(C, b)
  <2>1. Below(a) \union {a} \in SUBSET Below(b)
    BY <1>2, <1>5
  <2>2. Rank(C, a) + 1 <= Cardinality(Below(b))
    BY <1>1, <1>3, <2>1, FS_Subset
  <2> QED BY <1>1, <2>2
<1>6. Cardinality(C) \in Nat
    BY FS_CardinalityType
<1> QED BY <1>1, <1>4, <1>5, <1>6

\* Every rank is somebody's: ranks are an injection into as many numbers.
LEMMA RankHit ==
    ASSUME NEW C, C \subseteq Records, IsFiniteSet(C), Determined(C), NEW i \in 1..Cardinality(C)
    PROVE  \E r \in C : Rank(C, r) = i - 1
<1> DEFINE N == Cardinality(C)
           f == [r \in C |-> Rank(C, r) + 1]
<1>1. N \in Nat /\ IsFiniteSet(1..N) /\ Cardinality(1..N) = N
  <2>1. N \in Nat
    BY FS_CardinalityType
  <2> HIDE DEF N
  <2> QED BY <2>1, FS_Interval
<1>2. f \in [C -> 1..N]
  <2>1. \A r \in C : Rank(C, r) \in 0..N - 1
    BY RankGrows
  <2> HIDE DEF N
  <2>2. \A r \in C : Rank(C, r) + 1 \in 1..N
    BY <1>1, <2>1
  <2> QED BY <2>2, Zenon
<1>3. ASSUME NEW a \in C, NEW b \in C, f[a] = f[b]
      PROVE  a = b
  <2>1. Rank(C, a) = Rank(C, b) /\ Rank(C, a) \in Nat
    <3>1. Rank(C, a) \in 0..N - 1 /\ Rank(C, b) \in 0..N - 1
      BY RankGrows
    <3>2. Rank(C, a) + 1 = Rank(C, b) + 1
      BY <1>3
    <3> HIDE DEF N, f
    <3> QED BY <1>1, <3>1, <3>2
  <2>2. ~Before(a, b) /\ ~Before(b, a)
    BY <2>1, RankGrows
  <2>3. a.ring = b.ring /\ a.n = b.n
    BY <2>2, BeforeOrders
  <2> QED BY <2>3 DEF Determined
<1> HIDE DEF N
<1>4. f \in Injection(C, 1..N)
  <2> HIDE DEF f
  <2> QED BY <1>2, <1>3, Zenon DEF Injection, IsInjective
<1>5. f \in Surjection(C, 1..N)
  <2>1. Cardinality(C) = Cardinality(1..N)
    BY <1>1 DEF N
  <2> HIDE DEF f
  <2> QED BY <1>1, <1>4, <2>1, FS_Injection, Zenon
<1>6. PICK r \in C : f[r] = i
    BY <1>5, Zenon DEF Surjection, N
<1>7. Rank(C, r) \in Nat /\ Rank(C, r) + 1 = i
  <2>1. Rank(C, r) \in 0..N - 1
    BY RankGrows DEF N
  <2> QED BY <1>1, <1>6, <2>1
<1> QED BY <1>7

\* Sorted(C) has the records of C, each later one after the earlier ones.
LEMMA SortedHas ==
    ASSUME NEW C, C \subseteq Records, IsFiniteSet(C), Determined(C)
    PROVE  /\ Sorted(C) \in Seq(Records)
           /\ \A i \in 1..Len(Sorted(C)) : Sorted(C)[i] \in C
           /\ \A r \in C : \E i \in 1..Len(Sorted(C)) : Sorted(C)[i] = r
           /\ \A i, j \in 1..Len(Sorted(C)) : i < j => Before(Sorted(C)[i], Sorted(C)[j])
<1> DEFINE N == Cardinality(C)
           q == Sorted(C)
<1>1. N \in Nat
    BY FS_CardinalityType
<1>2. q = [i \in 1..N |-> CHOOSE r \in C : Rank(C, r) = i - 1]
    BY Zenon DEF Sorted, Rank
<1>3. ASSUME NEW i \in 1..N
      PROVE  q[i] \in C /\ Rank(C, q[i]) = i - 1
  <2>1. q[i] = CHOOSE r \in C : Rank(C, r) = i - 1
    BY <1>2
  <2>2. \E r \in C : Rank(C, r) = i - 1
    BY RankHit
  <2> QED BY <2>1, <2>2, Zenon
<1> HIDE DEF q, N
<1>4. q \in Seq(Records) /\ Len(q) = N
  <2>1. DOMAIN q = 1..N /\ q = [i \in 1..N |-> q[i]]
    BY <1>2
  <2>2. \A i \in 1..N : q[i] \in Records
    BY <1>3
  <2>3. q \in Seq(Records)
    BY <1>1, <2>1, <2>2, IsASeq
  <2> QED BY <1>1, <2>1, <2>3, LenProperties
<1>5. ASSUME NEW r \in C
      PROVE  \E i \in 1..N : q[i] = r
  <2>1. Rank(C, r) \in 0..N - 1
    BY RankGrows DEF N
  <2>2. Rank(C, r) + 1 \in 1..N /\ (Rank(C, r) + 1) - 1 = Rank(C, r)
    BY <1>1, <2>1
  <2>3. q[Rank(C, r) + 1] \in C /\ Rank(C, q[Rank(C, r) + 1]) = Rank(C, r)
    BY <1>3, <2>2
  <2> DEFINE x == q[Rank(C, r) + 1]
  <2> HIDE DEF x
  <2>4. x \in C /\ Rank(C, x) = Rank(C, r) /\ Rank(C, r) \in Nat
    BY <1>1, <2>1, <2>3 DEF x
  <2>5. ~Before(x, r) /\ ~Before(r, x)
    BY <2>4, RankGrows
  <2>6. x = r
    BY <2>4, <2>5, BeforeOrders DEF Determined
  <2> QED BY <2>2, <2>6 DEF x
<1>6. ASSUME NEW i \in 1..N, NEW j \in 1..N, i < j
      PROVE  Before(q[i], q[j])
  <2>1. q[i] \in C /\ q[j] \in C /\ Rank(C, q[i]) = i - 1 /\ Rank(C, q[j]) = j - 1
    BY <1>3
  <2>2. i \in Nat /\ j \in Nat
    BY <1>1
  <2>3. ~Before(q[j], q[i])
    BY <1>6, <2>1, <2>2, RankGrows
  <2>4. q[i] # q[j]
    BY <1>6, <2>1, <2>2
  <2> QED BY <2>1, <2>3, <2>4, BeforeOrders DEF Determined
<1> QED BY <1>3, <1>4, <1>5, <1>6 DEF q

(***************************************************************************)
(* Queues: what each stream has yet to hand over, and what was handed over.*)
(***************************************************************************)
\* merge_records drops sideband of every stream but the first.
KeptFrom(s, x) == s = 1 \/ ~IsSideband(x)

\* No record is another one; a record with a time comes before another of a
\* later time, and before the later ones of its ring.
Differ  == {p \in Records \X Records : p[1] # p[2]}
Agree(x, y) == x.time # 0 /\ y.time # 0 => x.time <= y.time /\ (x.ring = y.ring => x.n < y.n)
InOrder == {p \in Records \X Records : Agree(p[1], p[2])}

\* rel holds along each queue, along out, and from out to what will follow.
Lined(Q, out, rel) ==
    /\ \A s \in DOMAIN Q : Ordered(Q[s], rel)
    /\ Ordered(out, rel)
    /\ \A i \in 1..Len(out), s \in DOMAIN Q : \A j \in 1..Len(Q[s]) :
          KeptFrom(s, Q[s][j]) => <<out[i], Q[s][j]>> \in rel

\* No two queues will hand over the same record.
Separate(Q) ==
    \A s, t \in DOMAIN Q : s # t =>
        \A i \in 1..Len(Q[s]), j \in 1..Len(Q[t]) :
            KeptFrom(s, Q[s][i]) /\ KeptFrom(t, Q[t][j]) => Q[s][i] # Q[t][j]

\* Two queues that will hand over records of one ring have one of them each,
\* and the earlier one is in the queue that wins a tie.
Ties(Q) ==
    \A s, t \in DOMAIN Q : s < t =>
        \A i \in 1..Len(Q[s]), j \in 1..Len(Q[t]) :
            KeptFrom(s, Q[s][i]) /\ KeptFrom(t, Q[t][j]) /\ Q[s][i].ring = Q[t][j].ring
                => i = 1 /\ j = 1 /\ Agree(Q[s][1], Q[t][1])

\* The merge is to hand over the sideband stream, and what is not sideband.
Due(r, x) == r = 0 \/ ~IsSideband(x)

\* Every record of the input that is due was handed over or will be.
Told(Q, out, in) ==
    \A r \in 0..Rings : \A n \in 1..Len(in[r]) : Due(r, in[r][n]) =>
        \/ \E i \in 1..Len(out) : out[i] = in[r][n]
        \/ \E s \in DOMAIN Q : \E i \in 1..Len(Q[s]) : Q[s][i] = in[r][n] /\ KeptFrom(s, in[r][n])

\* What was and will be handed over comes from W.
From(Q, out, W) ==
    /\ \A i \in 1..Len(out) : out[i] \in W
    /\ \A s \in DOMAIN Q : \A i \in 1..Len(Q[s]) : Q[s][i] \in W

\* Each queue of P is a beginning of that of Q.
Cut(P, Q) ==
    /\ DOMAIN P = DOMAIN Q
    /\ \A s \in DOMAIN Q : /\ Len(P[s]) \in Nat /\ Len(Q[s]) \in Nat /\ Len(P[s]) <= Len(Q[s])
                           /\ \A i \in 1..Len(P[s]) : P[s][i] = Q[s][i]

\* Streams that end early leave what they had in order.
LEMMA CutKeeps ==
    ASSUME NEW P, NEW Q, Cut(P, Q), NEW out
    PROVE  /\ \A rel : Lined(Q, out, rel) => Lined(P, out, rel)
           /\ Separate(Q) => Separate(P)
           /\ Ties(Q) => Ties(P)
           /\ \A W : From(Q, out, W) => From(P, out, W)
<1>1. ASSUME NEW s \in DOMAIN P, NEW i \in 1..Len(P[s])
      PROVE  s \in DOMAIN Q /\ i \in 1..Len(Q[s]) /\ P[s][i] = Q[s][i]
    BY DEF Cut
<1>2. DOMAIN P = DOMAIN Q
    BY DEF Cut
<1>3. ASSUME NEW rel, Lined(Q, out, rel)
      PROVE  Lined(P, out, rel)
    BY <1>1, <1>2, <1>3, Zenon DEF Lined, Ordered
<1>4. ASSUME Separate(Q)
      PROVE  Separate(P)
  <2> SUFFICES ASSUME NEW s \in DOMAIN P, NEW t \in DOMAIN P, s # t,
                      NEW i \in 1..Len(P[s]), NEW j \in 1..Len(P[t]),
                      KeptFrom(s, P[s][i]), KeptFrom(t, P[t][j])
               PROVE  P[s][i] # P[t][j]
    BY Zenon DEF Separate
  <2>1. s \in DOMAIN Q /\ i \in 1..Len(Q[s]) /\ P[s][i] = Q[s][i]
    BY <1>1
  <2>2. t \in DOMAIN Q /\ j \in 1..Len(Q[t]) /\ P[t][j] = Q[t][j]
    BY <1>1
  <2>3. KeptFrom(s, Q[s][i]) /\ KeptFrom(t, Q[t][j])
    BY <2>1, <2>2, Zenon
  <2>4. Q[s][i] # Q[t][j]
    BY <1>4, <2>1, <2>2, <2>3, Zenon DEF Separate
  <2> QED BY <2>1, <2>2, <2>4, Zenon
<1>5. ASSUME Ties(Q)
      PROVE  Ties(P)
  <2> SUFFICES ASSUME NEW s \in DOMAIN P, NEW t \in DOMAIN P, s < t,
                      NEW i \in 1..Len(P[s]), NEW j \in 1..Len(P[t]),
                      KeptFrom(s, P[s][i]), KeptFrom(t, P[t][j]), P[s][i].ring = P[t][j].ring
               PROVE  i = 1 /\ j = 1 /\ Agree(P[s][1], P[t][1])
    BY Zenon DEF Ties
  <2>0. /\ s \in DOMAIN Q /\ t \in DOMAIN Q /\ i \in 1..Len(Q[s]) /\ j \in 1..Len(Q[t])
        /\ Q[s][i] = P[s][i] /\ Q[t][j] = P[t][j]
    BY <1>1, <1>2, Zenon
  <2>1. i = 1 /\ j = 1 /\ Agree(Q[s][1], Q[t][1])
    BY <1>5, <2>0, Zenon DEF Ties
  <2> QED BY <1>1, <2>1, Zenon
<1>6. ASSUME NEW W, From(Q, out, W)
      PROVE  From(P, out, W)
    BY <1>1, <1>2, <1>6, Zenon DEF From
<1> QED BY <1>3, <1>4, <1>5, <1>6

\* P is Q without the first record of stream s.
Popped(P, Q, s) ==
    /\ s \in DOMAIN Q /\ DOMAIN P = DOMAIN Q
    /\ Len(Q[s]) \in Nat \ {0} /\ Len(P[s]) = Len(Q[s]) - 1
    /\ \A i \in 1..Len(P[s]) : P[s][i] = Q[s][i + 1]
    /\ \A t \in DOMAIN Q : t # s => P[t] = Q[t]

\* What a record of P was in Q.
LEMMA PoppedAt ==
    ASSUME NEW P, NEW Q, NEW s, Popped(P, Q, s), NEW t \in DOMAIN P, NEW i \in 1..Len(P[t])
    PROVE  /\ t = s => i \in Nat /\ i + 1 \in 1..Len(Q[t]) /\ P[t][i] = Q[t][i + 1]
           /\ t # s => i \in 1..Len(Q[t]) /\ P[t][i] = Q[t][i]
           /\ \E k \in 1..Len(Q[t]) : P[t][i] = Q[t][k]
<1>1. CASE t = s
    BY <1>1 DEF Popped
<1>2. CASE t # s
    BY <1>2 DEF Popped
<1> QED BY <1>1, <1>2

\* The record that is popped goes to the end of out, or nowhere.
Handed(Q, out, next, s) ==
    \/ next = out /\ ~KeptFrom(s, Q[s][1])
    \/ next = Append(out, Q[s][1]) /\ KeptFrom(s, Q[s][1])

\* A record that is in rel with all that will follow can be handed over.
LEMMA PopKeepsLined ==
    ASSUME NEW P, NEW Q, NEW s, Popped(P, Q, s), NEW out \in Seq(Records), NEW next,
           Q[s][1] \in Records, Handed(Q, out, next, s), NEW rel, Lined(Q, out, rel),
           KeptFrom(s, Q[s][1]) =>
               \A t \in DOMAIN Q : t # s => \A j \in 1..Len(Q[t]) :
                   KeptFrom(t, Q[t][j]) => <<Q[s][1], Q[t][j]>> \in rel
    PROVE  Lined(P, next, rel)
<1>1. ASSUME NEW t \in DOMAIN P
      PROVE  Ordered(P[t], rel)
  <2>1. CASE t = s
    <3> SUFFICES ASSUME NEW i \in 1..Len(P[t]), NEW j \in 1..Len(P[t]), i < j
                 PROVE  <<P[t][i], P[t][j]>> \in rel
      BY DEF Ordered
    <3>1. i + 1 \in 1..Len(Q[t]) /\ j + 1 \in 1..Len(Q[t]) /\ i + 1 < j + 1
          /\ P[t][i] = Q[t][i + 1] /\ P[t][j] = Q[t][j + 1]
      BY <2>1, PoppedAt
    <3>2. Ordered(Q[t], rel)
      BY <2>1 DEF Lined, Popped
    <3> QED BY <3>1, <3>2 DEF Ordered
  <2>2. CASE t # s
    BY <2>2, Zenon DEF Lined, Popped
  <2> QED BY <2>1, <2>2
<1>2. ASSUME NEW i \in 1..Len(out), NEW t \in DOMAIN P, NEW j \in 1..Len(P[t]), KeptFrom(t, P[t][j])
      PROVE  <<out[i], P[t][j]>> \in rel
  <2>1. t \in DOMAIN Q
    BY Zenon DEF Popped
  <2>2. PICK k \in 1..Len(Q[t]) : P[t][j] = Q[t][k]
    BY PoppedAt
  <2> QED BY <1>2, <2>1, <2>2, Zenon DEF Lined
<1>3. CASE next = out /\ ~KeptFrom(s, Q[s][1])
    BY <1>1, <1>2, <1>3, Zenon DEF Lined
<1>4. CASE next = Append(out, Q[s][1]) /\ KeptFrom(s, Q[s][1])
  <2> DEFINE x == Q[s][1]
  <2>1. Len(next) = Len(out) + 1 /\ Len(out) \in Nat /\ next[Len(out) + 1] = x
        /\ \A i \in 1..Len(out) : next[i] = out[i]
    BY <1>4
  <2>2. s \in DOMAIN Q /\ 1 \in 1..Len(Q[s])
    BY DEF Popped
  <2>3. ASSUME NEW t \in DOMAIN P, NEW j \in 1..Len(P[t]), KeptFrom(t, P[t][j])
        PROVE  <<x, P[t][j]>> \in rel
    <3>1. CASE t = s
      <4>1. j + 1 \in 1..Len(Q[t]) /\ 1 < j + 1 /\ P[t][j] = Q[t][j + 1]
        BY <3>1, PoppedAt
      <4>2. Ordered(Q[t], rel)
        BY <2>2, <3>1, Zenon DEF Lined
      <4> QED BY <2>2, <3>1, <4>1, <4>2, Zenon DEF Ordered
    <3>2. CASE t # s
      <4>1. t \in DOMAIN Q /\ j \in 1..Len(Q[t]) /\ P[t][j] = Q[t][j]
        BY <3>2, PoppedAt, Zenon DEF Popped
      <4> QED BY <1>4, <2>3, <3>2, <4>1, Zenon
    <3> QED BY <3>1, <3>2
  <2>4. \A i \in 1..Len(out) : <<out[i], x>> \in rel
    BY <1>4, <2>2, Zenon DEF Lined
  <2>5. Ordered(out, rel)
    BY Zenon DEF Lined
  <2> HIDE DEF x
  <2>6. Ordered(next, rel)
    <3> SUFFICES ASSUME NEW i \in 1..Len(next), NEW j \in 1..Len(next), i < j
                 PROVE  <<next[i], next[j]>> \in rel
      BY DEF Ordered
    <3>1. i \in 1..Len(out)
      BY <2>1
    <3>2. CASE j \in 1..Len(out)
      BY <2>1, <2>5, <3>1, <3>2 DEF Ordered
    <3>3. CASE j \notin 1..Len(out)
      <4>1. j = Len(out) + 1
        BY <2>1, <3>3
      <4> QED BY <2>1, <2>4, <3>1, <4>1
    <3> QED BY <3>2, <3>3
  <2>7. ASSUME NEW i \in 1..Len(next), NEW t \in DOMAIN P, NEW j \in 1..Len(P[t]), KeptFrom(t, P[t][j])
        PROVE  <<next[i], P[t][j]>> \in rel
    <3>1. i \in 1..Len(out) \/ i = Len(out) + 1
      BY <2>1
    <3>2. CASE i \in 1..Len(out)
      BY <1>2, <2>1, <2>7, <3>2
    <3>3. CASE i = Len(out) + 1
      BY <2>1, <2>3, <2>7, <3>3
    <3> QED BY <3>1, <3>2, <3>3
  <2> QED BY <1>1, <2>6, <2>7, Zenon DEF Lined
<1> QED BY <1>3, <1>4, Zenon DEF Handed

\* Popping takes nothing away but the record that is popped.
LEMMA PopKeepsOthers ==
    ASSUME NEW P, NEW Q, NEW s, Popped(P, Q, s), NEW out \in Seq(Records), NEW next,
           Q[s][1] \in Records, Handed(Q, out, next, s)
    PROVE  /\ Separate(Q) => Separate(P)
           /\ Ties(Q) => Ties(P)
           /\ \A W : From(Q, out, W) => From(P, next, W)
           /\ \A in : Told(Q, out, in) => Told(P, next, in)
<1>0. DOMAIN P = DOMAIN Q /\ s \in DOMAIN Q /\ 1 \in 1..Len(Q[s])
    BY DEF Popped
<1>1. ASSUME NEW t \in DOMAIN P, NEW i \in 1..Len(P[t])
      PROVE  \E k \in 1..Len(Q[t]) : P[t][i] = Q[t][k]
    BY PoppedAt
<1>2. /\ Len(out) \in Nat /\ next \in Seq(Records)
      /\ \A i \in 1..Len(out) : i \in 1..Len(next) /\ next[i] = out[i]
      /\ \A i \in 1..Len(next) : i \in 1..Len(out) \/ (next[i] = Q[s][1] /\ KeptFrom(s, Q[s][1]))
      /\ KeptFrom(s, Q[s][1]) => \E i \in 1..Len(next) : next[i] = Q[s][1]
  <2>1. CASE next = out /\ ~KeptFrom(s, Q[s][1])
    BY <2>1
  <2>2. CASE next = Append(out, Q[s][1]) /\ KeptFrom(s, Q[s][1])
    <3>1. /\ Len(next) = Len(out) + 1 /\ Len(out) \in Nat /\ next[Len(out) + 1] = Q[s][1]
          /\ next \in Seq(Records) /\ \A i \in 1..Len(out) : next[i] = out[i]
      BY <2>2
    <3>2. Len(out) + 1 \in 1..Len(next)
      BY <3>1
    <3> QED BY <2>2, <3>1, <3>2
  <2> QED BY <2>1, <2>2, Zenon DEF Handed
<1>3. ASSUME Separate(Q)
      PROVE  Separate(P)
  <2> SUFFICES ASSUME NEW t \in DOMAIN P, NEW u \in DOMAIN P, t # u,
                      NEW i \in 1..Len(P[t]), NEW j \in 1..Len(P[u]),
                      KeptFrom(t, P[t][i]), KeptFrom(u, P[u][j])
               PROVE  P[t][i] # P[u][j]
    BY Zenon DEF Separate
  <2>1. PICK k \in 1..Len(Q[t]) : P[t][i] = Q[t][k]
    BY <1>1
  <2>2. PICK l \in 1..Len(Q[u]) : P[u][j] = Q[u][l]
    BY <1>1
  <2> QED BY <1>0, <1>3, <2>1, <2>2, Zenon DEF Separate
<1>4. ASSUME Ties(Q)
      PROVE  Ties(P)
  <2> SUFFICES ASSUME NEW t \in DOMAIN P, NEW u \in DOMAIN P, t < u,
                      NEW i \in 1..Len(P[t]), NEW j \in 1..Len(P[u]),
                      KeptFrom(t, P[t][i]), KeptFrom(u, P[u][j]), P[t][i].ring = P[u][j].ring
               PROVE  i = 1 /\ j = 1 /\ Agree(P[t][1], P[u][1])
    BY Zenon DEF Ties
  <2>1. t # s
    <3> SUFFICES ASSUME t = s PROVE FALSE
      OBVIOUS
    <3>1. i \in Nat /\ i + 1 \in 1..Len(Q[t]) /\ P[t][i] = Q[t][i + 1]
      BY PoppedAt
    <3>2. PICK l \in 1..Len(Q[u]) : P[u][j] = Q[u][l]
      BY <1>1
    <3>5. KeptFrom(t, Q[t][i + 1]) /\ KeptFrom(u, Q[u][l]) /\ Q[t][i + 1].ring = Q[u][l].ring
      BY <3>1, <3>2, Zenon
    <3>3. i + 1 = 1
      BY <1>0, <1>4, <3>1, <3>5, Zenon DEF Ties
    <3>4. i \in 1..Len(P[t])
      OBVIOUS
    <3> QED BY <3>1, <3>3, <3>4
  <2>2. u # s
    <3> SUFFICES ASSUME u = s PROVE FALSE
      OBVIOUS
    <3>1. j \in Nat /\ j + 1 \in 1..Len(Q[u]) /\ P[u][j] = Q[u][j + 1]
      BY PoppedAt
    <3>2. PICK l \in 1..Len(Q[t]) : P[t][i] = Q[t][l]
      BY <1>1
    <3>5. KeptFrom(u, Q[u][j + 1]) /\ KeptFrom(t, Q[t][l]) /\ Q[t][l].ring = Q[u][j + 1].ring
      BY <3>1, <3>2, Zenon
    <3>3. j + 1 = 1
      BY <1>0, <1>4, <3>1, <3>5, Zenon DEF Ties
    <3>4. j \in 1..Len(P[u])
      OBVIOUS
    <3> QED BY <3>1, <3>3, <3>4
  <2>3. P[t] = Q[t] /\ P[u] = Q[u]
    BY <1>0, <2>1, <2>2, Zenon DEF Popped
  <2>4. i \in 1..Len(Q[t]) /\ j \in 1..Len(Q[u]) /\ KeptFrom(t, Q[t][i]) /\ KeptFrom(u, Q[u][j])
        /\ Q[t][i].ring = Q[u][j].ring
    BY <2>3, Zenon
  <2>5. i = 1 /\ j = 1 /\ Agree(Q[t][1], Q[u][1])
    BY <1>0, <1>4, <2>4, Zenon DEF Ties
  <2> QED BY <2>3, <2>5, Zenon
<1>5. ASSUME NEW W, From(Q, out, W)
      PROVE  From(P, next, W)
  <2>1. ASSUME NEW i \in 1..Len(next)
        PROVE  next[i] \in W
    <3>1. Q[s][1] \in W
      BY <1>0, <1>5, Zenon DEF From
    <3>2. CASE i \in 1..Len(out)
      BY <1>2, <1>5, <3>2, Zenon DEF From
    <3> QED BY <1>2, <3>1, <3>2, Zenon
  <2>2. ASSUME NEW t \in DOMAIN P, NEW i \in 1..Len(P[t])
        PROVE  P[t][i] \in W
    BY <1>0, <1>1, <1>5, Zenon DEF From
  <2> QED BY <2>1, <2>2, Zenon DEF From
<1>6. ASSUME NEW in, Told(Q, out, in)
      PROVE  Told(P, next, in)
  <2> SUFFICES ASSUME NEW r \in 0..Rings, NEW n \in 1..Len(in[r]), Due(r, in[r][n]),
                      ~ \E i \in 1..Len(next) : next[i] = in[r][n]
               PROVE  \E t \in DOMAIN P : \E i \in 1..Len(P[t]) :
                         P[t][i] = in[r][n] /\ KeptFrom(t, in[r][n])
    BY Zenon DEF Told
  <2>1. ~ \E i \in 1..Len(out) : out[i] = in[r][n]
    BY <1>2, Zenon
  <2>5. PICK t \in DOMAIN Q : \E i \in 1..Len(Q[t]) : Q[t][i] = in[r][n] /\ KeptFrom(t, in[r][n])
    BY <1>6, <2>1, Zenon DEF Told
  <2>2. PICK i \in 1..Len(Q[t]) : Q[t][i] = in[r][n] /\ KeptFrom(t, in[r][n])
    BY <2>5
  <2>3. CASE t # s
    BY <1>0, <2>2, <2>3, Zenon DEF Popped
  <2>4. CASE t = s
    <3>1. i # 1
      BY <1>2, <2>2, <2>4, Zenon
    <3>2. i - 1 \in 1..Len(P[s]) /\ (i - 1) + 1 = i
      BY <2>4, <3>1 DEF Popped
    <3>3. P[s][i - 1] = Q[s][i]
      <4>1. \A k \in 1..Len(P[s]) : P[s][k] = Q[s][k + 1]
        BY Zenon DEF Popped
      <4> QED BY <3>2, <4>1
    <3> QED BY <1>0, <2>2, <2>4, <3>2, <3>3, Zenon
  <2> QED BY <2>3, <2>4
<1> QED BY <1>3, <1>4, <1>5, <1>6

(***************************************************************************)
(* Streams: what the steps of the producers and of the merge do to queues. *)
(***************************************************************************)
\* What stream s has yet to hand over: its head, its channel, its producer.
HeadOf(s) == IF heads[s] = NoHead THEN <<>> ELSE <<heads[s]>>
Rest(s)   == HeadOf(s) \o (chan[s] \o unsent[s])
Queues    == [s \in DOMAIN unsent |-> Rest(s)]

Typed ==
    /\ DOMAIN unsent \subseteq Nat
    /\ unsent \in [DOMAIN unsent -> Seq(Records)]
    /\ chan \in [DOMAIN unsent -> Seq(Records)]
    /\ \A s \in DOMAIN unsent : Len(chan[s]) <= ChannelCap
    /\ heads \in [DOMAIN unsent -> Records \union {NoHead}]
    /\ want \in Seq(DOMAIN unsent)
    /\ merging \in BOOLEAN /\ failed \in BOOLEAN
    /\ sunk \in Seq(Records)

\* A stream without a head is being asked for one, or has ended.
Pipes ==
    /\ \A i, j \in 1..Len(want) : i # j => want[i] # want[j]
    /\ \A i \in 1..Len(want) : heads[want[i]] = NoHead
    /\ \A s \in DOMAIN unsent :
          heads[s] = NoHead /\ (\A i \in 1..Len(want) : want[i] # s) => chan[s] = <<>> /\ unsent[s] = <<>>

\* NoHead is no record.
LEMMA NoHeadIsNone == NoHead \notin Records
<1>1. NoHead.n = 0 /\ 0 \notin 1..MaxChunks
    BY MergeAssumption DEF NoHead
<1> QED BY <1>1 DEF Records

\* What Typed says of one stream.
LEMMA StreamTyped ==
    ASSUME Typed, NEW s \in DOMAIN unsent
    PROVE  /\ s \in Nat /\ unsent[s] \in Seq(Records) /\ chan[s] \in Seq(Records)
           /\ heads[s] \in Records \union {NoHead} /\ HeadOf(s) \in Seq(Records)
           /\ Rest(s) \in Seq(Records) /\ DOMAIN chan = DOMAIN unsent /\ DOMAIN heads = DOMAIN unsent
<1>1. /\ s \in Nat /\ unsent[s] \in Seq(Records) /\ chan[s] \in Seq(Records)
      /\ heads[s] \in Records \union {NoHead} /\ DOMAIN chan = DOMAIN unsent /\ DOMAIN heads = DOMAIN unsent
    BY DEF Typed
<1>2. HeadOf(s) \in Seq(Records)
    BY <1>1 DEF HeadOf
<1>3. chan[s] \o unsent[s] \in Seq(Records)
    BY <1>1, ConcatProperties
<1>4. Rest(s) \in Seq(Records)
    BY <1>2, <1>3, ConcatProperties DEF Rest
<1> QED BY <1>1, <1>2, <1>4

\* Passing a record on from one sequence to the next keeps their concatenation.
LEMMA PassOn ==
    ASSUME NEW X, NEW a \in Seq(X), NEW b \in Seq(X), b # <<>>
    PROVE  Append(a, Head(b)) \o Tail(b) = a \o b
<1>1. Head(b) \in X /\ Tail(b) \in Seq(X) /\ Len(Tail(b)) = Len(b) - 1 /\ Len(b) \in Nat /\ Len(a) \in Nat
      /\ (\A i \in 1..Len(Tail(b)) : Tail(b)[i] = b[i + 1]) /\ Head(b) = b[1] /\ Len(b) > 0
    BY HeadTailProperties
<1> DEFINE c == Append(a, Head(b))
           d == Tail(b)
<1>2. c \in Seq(X) /\ Len(c) = Len(a) + 1 /\ (\A i \in 1..Len(a) : c[i] = a[i]) /\ c[Len(a) + 1] = b[1]
    BY <1>1, AppendProperties
<1>3. d \in Seq(X) /\ Len(d) = Len(b) - 1 /\ \A i \in 1..Len(d) : d[i] = b[i + 1]
    BY <1>1
<1> HIDE DEF c, d
<1>4. /\ c \o d \in Seq(X) /\ Len(c \o d) = Len(c) + Len(d)
      /\ \A i \in 1..Len(c) + Len(d) : (c \o d)[i] = IF i <= Len(c) THEN c[i] ELSE d[i - Len(c)]
    BY <1>2, <1>3, ConcatProperties
<1>5. /\ a \o b \in Seq(X) /\ Len(a \o b) = Len(a) + Len(b)
      /\ \A i \in 1..Len(a) + Len(b) : (a \o b)[i] = IF i <= Len(a) THEN a[i] ELSE b[i - Len(a)]
    BY ConcatProperties
<1>6. Len(c \o d) = Len(a \o b)
    BY <1>1, <1>2, <1>3, <1>4, <1>5
<1>7. ASSUME NEW i \in 1..Len(c \o d)
      PROVE  (c \o d)[i] = (a \o b)[i]
  <2>0. i \in 1..Len(a) + Len(b) /\ i \in 1..Len(c) + Len(d)
    BY <1>4, <1>5, <1>6
  <2>1. CASE i <= Len(a)
    <3>1. i \in 1..Len(a) /\ i <= Len(c)
      BY <1>1, <1>2, <2>0, <2>1
    <3>2. (c \o d)[i] = c[i] /\ (a \o b)[i] = a[i] /\ c[i] = a[i]
      BY <1>2, <1>4, <1>5, <2>0, <2>1, <3>1
    <3> QED BY <3>2
  <2>2. CASE i = Len(a) + 1
    <3>1. i <= Len(c) /\ ~(i <= Len(a)) /\ i - Len(a) = 1
      BY <1>1, <1>2, <2>2
    <3>2. (c \o d)[i] = c[i] /\ (a \o b)[i] = b[1]
      BY <1>4, <1>5, <2>0, <3>1
    <3> QED BY <1>2, <2>2, <3>2
  <2>3. CASE i > Len(a) + 1
    <3>1. ~(i <= Len(c)) /\ ~(i <= Len(a)) /\ i - Len(c) \in 1..Len(d) /\ (i - Len(c)) + 1 = i - Len(a)
      BY <1>1, <1>2, <1>3, <2>0, <2>3
    <3>2. (c \o d)[i] = d[i - Len(c)] /\ (a \o b)[i] = b[i - Len(a)]
      BY <1>4, <1>5, <2>0, <3>1
    <3> QED BY <1>3, <3>1, <3>2
  <2> QED BY <1>1, <2>0, <2>1, <2>2, <2>3
<1>8. c \o d = a \o b
    BY <1>4, <1>5, <1>6, <1>7, SeqEqual
<1> QED BY <1>8 DEF c, d

\* A producer sends: the record moves into the channel.
LEMMA SendMoves ==
    ASSUME Typed, Pipes, NEW s \in DOMAIN unsent, Send(s)
    PROVE  Typed' /\ Pipes' /\ Queues' = Queues
<1>1. unsent[s] # <<>> /\ UNCHANGED <<heads, want, merging, failed, sunk>>
      /\ chan' = [chan EXCEPT ![s] = Append(@, Head(unsent[s]))] /\ unsent' = [unsent EXCEPT ![s] = Tail(@)]
      /\ Len(chan[s]) < ChannelCap
    BY DEF Send
<1>2. unsent[s] \in Seq(Records) /\ chan[s] \in Seq(Records) /\ DOMAIN chan = DOMAIN unsent
    BY StreamTyped
<1>3. Head(unsent[s]) \in Records /\ Tail(unsent[s]) \in Seq(Records)
    BY <1>1, <1>2
<1>4. Append(chan[s], Head(unsent[s])) \in Seq(Records)
      /\ Len(Append(chan[s], Head(unsent[s]))) = Len(chan[s]) + 1
    BY <1>2, <1>3
<1>5. DOMAIN unsent' = DOMAIN unsent /\ DOMAIN chan' = DOMAIN unsent
      /\ unsent'[s] = Tail(unsent[s]) /\ chan'[s] = Append(chan[s], Head(unsent[s]))
      /\ \A t \in DOMAIN unsent : t # s => unsent'[t] = unsent[t] /\ chan'[t] = chan[t]
    BY <1>1, <1>2
<1>6. Typed'
  <2>1. unsent' \in [DOMAIN unsent -> Seq(Records)] /\ chan' \in [DOMAIN unsent -> Seq(Records)]
    BY <1>1, <1>3, <1>4 DEF Typed
  <2>2. \A t \in DOMAIN unsent : Len(chan'[t]) <= ChannelCap
    <3>1. Len(chan'[s]) <= ChannelCap
      BY <1>1, <1>2, <1>4, <1>5, MergeAssumption
    <3> QED BY <1>5, <3>1 DEF Typed
  <2> QED BY <1>1, <1>5, <2>1, <2>2, Zenon DEF Typed
<1>7. Pipes'
  <2>1. ASSUME NEW t \in DOMAIN unsent, heads[t] = NoHead, \A i \in 1..Len(want) : want[i] # t
        PROVE  chan'[t] = <<>> /\ unsent'[t] = <<>>
    <3>1. chan[t] = <<>> /\ unsent[t] = <<>>
      BY <2>1, Zenon DEF Pipes
    <3>2. t # s
      BY <1>1, <3>1, Zenon
    <3> QED BY <1>5, <3>1, <3>2, Zenon
  <2>2. want' = want /\ heads' = heads /\ DOMAIN unsent' = DOMAIN unsent
    BY <1>1, <1>5, Zenon
  <2>3. /\ \A i, j \in 1..Len(want) : i # j => want[i] # want[j]
        /\ \A i \in 1..Len(want) : heads[want[i]] = NoHead
    BY Zenon DEF Pipes
  <2> QED BY <2>1, <2>2, <2>3, Zenon DEF Pipes
<1>8. \A t \in DOMAIN unsent : Rest(t)' = Rest(t)
  <2>1. chan'[s] \o unsent'[s] = chan[s] \o unsent[s]
    BY <1>1, <1>2, <1>5, PassOn
  <2>2. \A t \in DOMAIN unsent : chan'[t] \o unsent'[t] = chan[t] \o unsent[t]
    BY <1>5, <2>1, Zenon
  <2> QED BY <1>1, <2>2, Zenon DEF Rest, HeadOf
<1> QED BY <1>5, <1>6, <1>7, <1>8, Zenon DEF Queues

\* The same sequence with the brackets the other way.
LEMMA RestSplit ==
    ASSUME Typed, NEW s \in DOMAIN unsent
    PROVE  Rest(s) = (HeadOf(s) \o chan[s]) \o unsent[s]
<1> DEFINE h == HeadOf(s)
           c == chan[s]
           u == unsent[s]
<1>1. h \in Seq(Records) /\ c \in Seq(Records) /\ u \in Seq(Records)
    BY StreamTyped, Zenon
<1>2. Rest(s) = h \o (c \o u)
    BY Zenon DEF Rest
<1> HIDE DEF h, c, u
<1>3. (h \o c) \o u = h \o (c \o u)
    BY <1>1, ConcatAssociative
<1> QED BY <1>2, <1>3, Zenon DEF h, c, u

\* A producer ends before it sent everything: its queue is cut short.
LEMMA FailureCuts ==
    ASSUME Typed, Pipes, NEW s \in DOMAIN unsent,
           unsent' = [unsent EXCEPT ![s] = <<>>], UNCHANGED <<chan, heads, want, sunk>>,
           merging' \in BOOLEAN, failed' \in BOOLEAN
    PROVE  Typed' /\ Pipes' /\ Cut(Queues', Queues)
<1>1. /\ DOMAIN unsent' = DOMAIN unsent /\ unsent'[s] = <<>>
      /\ \A t \in DOMAIN unsent : t # s => unsent'[t] = unsent[t]
    OBVIOUS
<1>2. Typed'
  <2>1. unsent' \in [DOMAIN unsent -> Seq(Records)]
    BY DEF Typed
  <2>2. UNCHANGED <<chan, heads, want, sunk>>
    OBVIOUS
  <2> QED BY <1>1, <2>1, <2>2, Zenon DEF Typed
<1>3. Pipes'
  <2>1. ASSUME NEW t \in DOMAIN unsent, heads[t] = NoHead, \A i \in 1..Len(want) : want[i] # t
        PROVE  chan[t] = <<>> /\ unsent'[t] = <<>>
    <3>1. chan[t] = <<>> /\ unsent[t] = <<>>
      BY <2>1, Zenon DEF Pipes
    <3> QED BY <1>1, <3>1, Zenon
  <2>2. UNCHANGED <<chan, heads, want, sunk>>
    OBVIOUS
  <2> QED BY <1>1, <2>1, <2>2 DEF Pipes
<1>4. \A t \in DOMAIN unsent : t # s => Rest(t)' = Rest(t)
    BY <1>1, Zenon DEF Rest, HeadOf
<1>5. /\ Len(Rest(s)') \in Nat /\ Len(Rest(s)) \in Nat /\ Len(Rest(s)') <= Len(Rest(s))
      /\ \A i \in 1..Len(Rest(s)') : Rest(s)'[i] = Rest(s)[i]
  <2> DEFINE p == HeadOf(s) \o chan[s]
             u == unsent[s]
  <2>1. HeadOf(s) \in Seq(Records) /\ chan[s] \in Seq(Records) /\ u \in Seq(Records) /\ p \in Seq(Records)
    <3>1. HeadOf(s) \in Seq(Records) /\ chan[s] \in Seq(Records) /\ unsent[s] \in Seq(Records)
      BY StreamTyped
    <3> QED BY <3>1, ConcatProperties
  <2>2. Rest(s) = p \o u
    BY RestSplit, Zenon
  <2>3. Rest(s)' = p
    <3>1. Rest(s)' = HeadOf(s) \o (chan[s] \o <<>>)
      BY <1>1, Zenon DEF Rest, HeadOf
    <3> QED BY <2>1, <3>1, ConcatEmptySeq
  <2> HIDE DEF p, u
  <2>4. /\ Len(p) \in Nat /\ Len(u) \in Nat /\ Len(p \o u) = Len(p) + Len(u)
        /\ \A i \in 1..Len(p) + Len(u) : (p \o u)[i] = IF i <= Len(p) THEN p[i] ELSE u[i - Len(p)]
    BY <2>1, ConcatProperties
  <2>5. Len(p) <= Len(p \o u) /\ Len(p \o u) \in Nat
    BY <2>4
  <2>6. \A i \in 1..Len(p) : p[i] = (p \o u)[i]
    BY <2>4
  <2> QED BY <2>2, <2>3, <2>4, <2>5, <2>6, Zenon
<1>6. DOMAIN Queues = DOMAIN unsent /\ DOMAIN Queues' = DOMAIN unsent
      /\ \A t \in DOMAIN unsent : Queues[t] = Rest(t) /\ Queues'[t] = Rest(t)'
    BY <1>1 DEF Queues
<1>7. \A t \in DOMAIN unsent : Len(Rest(t)) \in Nat
    BY StreamTyped
<1>8. ASSUME NEW t \in DOMAIN unsent
      PROVE  /\ Len(Queues'[t]) \in Nat /\ Len(Queues[t]) \in Nat /\ Len(Queues'[t]) <= Len(Queues[t])
             /\ \A i \in 1..Len(Queues'[t]) : Queues'[t][i] = Queues[t][i]
  <2>1. CASE t = s
    BY <1>5, <1>6, <2>1, Zenon
  <2>2. CASE t # s
    <3>1. Queues'[t] = Queues[t] /\ Len(Queues[t]) \in Nat
      BY <1>4, <1>6, <1>7, <2>2, Zenon
    <3>2. Len(Queues[t]) <= Len(Queues[t])
      BY <3>1
    <3> QED BY <3>1, <3>2, Zenon
  <2> QED BY <2>1, <2>2
<1> QED BY <1>2, <1>3, <1>6, <1>8, Zenon DEF Cut

\* The merge takes a record from a channel: it becomes the head.
LEMMA TakesHeadMoves ==
    ASSUME Typed, Pipes, TakesHead
    PROVE  Typed' /\ Pipes' /\ Queues' = Queues
<1>0. PICK s : s = Head(want)
    OBVIOUS
<1>1. want # <<>> /\ want' = Tail(want) /\ UNCHANGED <<unsent, merging, failed, sunk>>
      /\ (chan[s] # <<>> \/ unsent[s] = <<>>)
    BY <1>0, Zenon DEF TakesHead
<1>2. /\ s = want[1] /\ s \in DOMAIN unsent /\ Len(want) \in Nat /\ want' \in Seq(DOMAIN unsent)
      /\ Len(want') = Len(want) - 1 /\ Len(want) > 0
      /\ \A i \in 1..Len(want') : want'[i] = want[i + 1]
    BY <1>0, <1>1 DEF Typed
<1>3. /\ chan[s] # <<>> => /\ heads' = [heads EXCEPT ![s] = Head(chan[s])]
                          /\ chan' = [chan EXCEPT ![s] = Tail(@)]
      /\ chan[s] = <<>> => heads' = [heads EXCEPT ![s] = NoHead] /\ chan' = chan
    BY <1>0, Zenon DEF TakesHead
<1>4. /\ unsent[s] \in Seq(Records) /\ chan[s] \in Seq(Records) /\ Len(chan[s]) \in Nat
      /\ DOMAIN chan = DOMAIN unsent /\ DOMAIN heads = DOMAIN unsent
    BY <1>2, StreamTyped
<1>5. heads[s] = NoHead
  <2>1. 1 \in 1..Len(want)
    BY <1>2
  <2> QED BY <1>2, <2>1, Zenon DEF Pipes
<1>6. chan[s] # <<>> => /\ Head(chan[s]) \in Records /\ Tail(chan[s]) \in Seq(Records)
                        /\ Len(Tail(chan[s])) = Len(chan[s]) - 1
    BY <1>4
<1>7. /\ DOMAIN heads' = DOMAIN unsent /\ DOMAIN chan' = DOMAIN unsent
      /\ \A t \in DOMAIN unsent : t # s => heads'[t] = heads[t] /\ chan'[t] = chan[t]
      /\ chan[s] # <<>> => heads'[s] = Head(chan[s]) /\ chan'[s] = Tail(chan[s])
      /\ chan[s] = <<>> => heads'[s] = NoHead /\ chan'[s] = <<>>
    BY <1>2, <1>3, <1>4
<1>8. Typed'
  <2>1. chan' \in [DOMAIN unsent -> Seq(Records)]
    BY <1>3, <1>6 DEF Typed
  <2>2. heads' \in [DOMAIN unsent -> Records \union {NoHead}]
    BY <1>3, <1>6 DEF Typed
  <2>3. \A t \in DOMAIN unsent : Len(chan'[t]) <= ChannelCap
    <3>1. Len(chan'[s]) <= ChannelCap
      <4>1. Len(chan[s]) <= ChannelCap
        BY <1>2 DEF Typed
      <4>2. CASE chan[s] = <<>>
        BY <1>7, <4>1, <4>2
      <4>3. CASE chan[s] # <<>>
        <5>1. Len(chan'[s]) = Len(chan[s]) - 1
          BY <1>6, <1>7, <4>3, Zenon
        <5> QED BY <1>4, <4>1, <5>1, MergeAssumption
      <4> QED BY <4>2, <4>3
    <3> QED BY <1>7, <3>1 DEF Typed
  <2> QED BY <1>1, <1>2, <2>1, <2>2, <2>3, Zenon DEF Typed
<1>9. Pipes'
  <2>1. \A i \in 1..Len(want') : i + 1 \in 1..Len(want) /\ i + 1 # 1 /\ want'[i] = want[i + 1]
    BY <1>2
  <2>2. ASSUME NEW i \in 1..Len(want'), NEW j \in 1..Len(want'), i # j
        PROVE  want'[i] # want'[j]
    <3>1. i + 1 # j + 1
      BY <1>2, <2>2
    <3> QED BY <2>1, <3>1 DEF Pipes
  <2>3. ASSUME NEW i \in 1..Len(want')
        PROVE  heads'[want'[i]] = NoHead
    <3>1. 1 \in 1..Len(want)
      BY <1>2
    <3>2. want'[i] # s /\ heads[want'[i]] = NoHead
      BY <1>2, <2>1, <3>1 DEF Pipes
    <3>3. want'[i] \in DOMAIN unsent
      BY <1>2
    <3> QED BY <1>7, <3>2, <3>3, Zenon
  <2>4. ASSUME NEW t \in DOMAIN unsent, heads'[t] = NoHead, \A i \in 1..Len(want') : want'[i] # t
        PROVE  chan'[t] = <<>> /\ unsent[t] = <<>>
    <3>1. CASE t = s
      BY <1>1, <1>6, <1>7, <2>4, <3>1, NoHeadIsNone, Zenon
    <3>2. CASE t # s
      <4>1. ASSUME NEW i \in 1..Len(want)
            PROVE  want[i] # t
        <5>1. CASE i = 1
          BY <1>2, <3>2, <5>1
        <5>2. CASE i # 1
          <6>1. i - 1 \in 1..Len(want') /\ (i - 1) + 1 = i
            BY <1>2, <5>2
          <6>2. want'[i - 1] = want[i]
            BY <1>2, <6>1
          <6> QED BY <2>4, <6>1, <6>2, Zenon
        <5> QED BY <5>1, <5>2
      <4>2. chan[t] = <<>> /\ unsent[t] = <<>>
        BY <1>7, <2>4, <3>2, <4>1, Zenon DEF Pipes
      <4> QED BY <1>7, <3>2, <4>2, Zenon
    <3> QED BY <3>1, <3>2
  <2> QED BY <1>1, <2>2, <2>3, <2>4, Zenon DEF Pipes
<1>10. Rest(s)' = Rest(s)
  <2>1. CASE chan[s] = <<>>
    BY <1>1, <1>5, <1>7, <2>1 DEF Rest, HeadOf
  <2>2. CASE chan[s] # <<>>
    <3> DEFINE c == chan[s]
               u == unsent[s]
               h == Head(c)
    <3>0. c \in Seq(Records) /\ u \in Seq(Records) /\ c # <<>> /\ h \in Records /\ Tail(c) \in Seq(Records)
      BY <1>4, <1>6, <2>2
    <3>1. Rest(s)' = <<h>> \o (Tail(c) \o u)
      <4>1. HeadOf(s)' = <<h>>
        BY <1>6, <1>7, <2>2, NoHeadIsNone DEF HeadOf
      <4> QED BY <1>1, <1>7, <2>2, <4>1 DEF Rest
    <3>2. Rest(s) = <<>> \o (c \o u)
      BY <1>5, Zenon DEF Rest, HeadOf
    <3> HIDE DEF c, u
    <3>3. <<h>> \o Tail(c) = c
      <4>1. Append(<<>>, Head(c)) \o Tail(c) = <<>> \o c
        BY <3>0, PassOn
      <4>2. Append(<<>>, Head(c)) = <<h>> /\ <<>> \o c = c
        BY <3>0, ConcatEmptySeq
      <4> QED BY <4>1, <4>2, Zenon
    <3>4. <<h>> \o (Tail(c) \o u) = c \o u
      <4>1. <<h>> \in Seq(Records)
        BY <3>0
      <4> QED BY <3>0, <3>3, <4>1, ConcatAssociative
    <3>5. <<>> \o (c \o u) = c \o u
      BY <3>0, ConcatProperties, ConcatEmptySeq
    <3> QED BY <3>1, <3>2, <3>4, <3>5, Zenon
  <2> QED BY <2>1, <2>2
<1>11. \A t \in DOMAIN unsent : Rest(t)' = Rest(t)
  <2> SUFFICES ASSUME NEW t \in DOMAIN unsent, t # s PROVE Rest(t)' = Rest(t)
    BY <1>10, Zenon
  <2>1. heads'[t] = heads[t] /\ chan'[t] = chan[t] /\ unsent'[t] = unsent[t]
    BY <1>1, <1>7
  <2> QED BY <2>1, Zenon DEF Rest, HeadOf
<1> QED BY <1>1, <1>8, <1>9, <1>11, Zenon DEF Queues

\* The merge pops a head: the queue loses its first record, which is handed
\* over where merge_records keeps it.
LEMMA PopsPops ==
    ASSUME Typed, Pipes, NEW s \in DOMAIN heads, Pops(s)
    PROVE  /\ Typed' /\ Pipes'
           /\ Popped(Queues', Queues, s) /\ Queues[s][1] = heads[s] /\ heads[s] \in Records
           /\ Handed(Queues, sunk, sunk', s)
<1>0. DOMAIN heads = DOMAIN unsent /\ s \in DOMAIN unsent
    BY StreamTyped DEF Typed
<1>1. /\ heads[s] # NoHead /\ heads' = [heads EXCEPT ![s] = NoHead] /\ want = <<>> /\ want' = <<s>>
      /\ UNCHANGED <<unsent, chan, merging, failed>>
      /\ sunk' = IF Kept(s) THEN Append(sunk, heads[s]) ELSE sunk
    BY DEF Pops, Ready
<1>2. heads[s] \in Records
    BY <1>0, <1>1, StreamTyped
<1>3. heads'[s] = NoHead /\ DOMAIN heads' = DOMAIN unsent
      /\ \A t \in DOMAIN unsent : t # s => heads'[t] = heads[t]
    BY <1>0, <1>1
<1>4. Typed'
  <2>1. heads' \in [DOMAIN unsent -> Records \union {NoHead}]
    BY <1>1 DEF Typed
  <2>2. want' \in Seq(DOMAIN unsent)
    BY <1>0, <1>1
  <2>3. sunk' \in Seq(Records)
    BY <1>1, <1>2 DEF Typed
  <2> QED BY <1>1, <2>1, <2>2, <2>3, Zenon DEF Typed
<1>5. Pipes'
  <2>1. Len(want') = 1 /\ want'[1] = s
    BY <1>1
  <2>2. \A i \in 1..Len(want') : want'[i] = s /\ i = 1
    BY <2>1
  <2>3. 1 \in 1..Len(want') /\ Len(want) = 0
    BY <1>1, <2>1
  <2>4. ASSUME NEW t \in DOMAIN unsent, heads'[t] = NoHead, \A i \in 1..Len(want') : want'[i] # t
        PROVE  chan[t] = <<>> /\ unsent[t] = <<>>
    <3>1. t # s
      BY <2>1, <2>3, <2>4, Zenon
    <3>2. heads[t] = NoHead /\ \A i \in 1..Len(want) : want[i] # t
      BY <1>3, <2>3, <2>4, <3>1
    <3> QED BY <3>2, Zenon DEF Pipes
  <2> QED BY <1>1, <1>3, <2>2, <2>4 DEF Pipes
<1>6. \A t \in DOMAIN unsent : t # s => Rest(t)' = Rest(t)
    BY <1>1, <1>3, Zenon DEF Rest, HeadOf
<1>7. /\ Len(Rest(s)) \in Nat \ {0} /\ Len(Rest(s)') = Len(Rest(s)) - 1 /\ Rest(s)[1] = heads[s]
      /\ \A i \in 1..Len(Rest(s)') : Rest(s)'[i] = Rest(s)[i + 1]
  <2> DEFINE l == chan[s] \o unsent[s]
             h == heads[s]
  <2>1. l \in Seq(Records) /\ h \in Records
    <3>1. chan[s] \in Seq(Records) /\ unsent[s] \in Seq(Records)
      BY <1>0, StreamTyped
    <3> QED BY <1>2, <3>1, ConcatProperties
  <2>2. Rest(s) = <<h>> \o l
    BY <1>1, Zenon DEF Rest, HeadOf
  <2>3. Rest(s)' = <<>> \o l
    <3>1. HeadOf(s)' = <<>>
      BY <1>3, Zenon DEF HeadOf
    <3> QED BY <1>1, <3>1, Zenon DEF Rest
  <2> HIDE DEF l, h
  <2>4. <<>> \o l = l
    BY <2>1, ConcatEmptySeq
  <2>5. /\ Len(l) \in Nat /\ Len(<<h>> \o l) = 1 + Len(l)
        /\ \A i \in 1..1 + Len(l) : (<<h>> \o l)[i] = IF i <= 1 THEN <<h>>[i] ELSE l[i - 1]
    <3>1. <<h>> \in Seq(Records) /\ Len(<<h>>) = 1 /\ Len(l) \in Nat
      BY <2>1
    <3> QED BY <2>1, <3>1, ConcatProperties
  <2>6. \A i \in 1..Len(l) : l[i] = (<<h>> \o l)[i + 1]
    <3> SUFFICES ASSUME NEW i \in 1..Len(l) PROVE l[i] = (<<h>> \o l)[i + 1]
      OBVIOUS
    <3>1. i + 1 \in 1..1 + Len(l) /\ ~(i + 1 <= 1) /\ (i + 1) - 1 = i
      BY <2>5
    <3> QED BY <2>5, <3>1
  <2>7. (<<h>> \o l)[1] = h
    <3>1. 1 \in 1..1 + Len(l) /\ 1 <= 1
      BY <2>5
    <3>2. (<<h>> \o l)[1] = <<h>>[1]
      BY <2>5, <3>1, Zenon
    <3> QED BY <3>2
  <2>8. Len(<<h>> \o l) \in Nat \ {0} /\ Len(l) = Len(<<h>> \o l) - 1
    BY <2>5
  <2>9. Rest(s)' = l
    BY <2>3, <2>4, Zenon
  <2> QED BY <2>2, <2>6, <2>7, <2>8, <2>9, Zenon DEF h
<1>8. DOMAIN Queues = DOMAIN unsent /\ DOMAIN Queues' = DOMAIN unsent
      /\ \A t \in DOMAIN unsent : Queues[t] = Rest(t) /\ Queues'[t] = Rest(t)'
    BY <1>1, Zenon DEF Queues
<1>9. Popped(Queues', Queues, s) /\ Queues[s][1] = heads[s]
    BY <1>0, <1>6, <1>7, <1>8, Zenon DEF Popped
<1>10. Handed(Queues, sunk, sunk', s)
    BY <1>1, <1>9, Zenon DEF Handed, Kept, KeptFrom
<1> QED BY <1>2, <1>4, <1>5, <1>9, <1>10

\* The first record of a queue is its stream's head.
LEMMA FirstIsHead ==
    ASSUME Typed, NEW s \in DOMAIN unsent, heads[s] # NoHead
    PROVE  Len(Rest(s)) \in Nat \ {0} /\ Rest(s)[1] = heads[s] /\ heads[s] \in Records
<1> DEFINE l == chan[s] \o unsent[s]
           h == heads[s]
<1>0. heads[s] \in Records
    BY StreamTyped
<1>1. l \in Seq(Records) /\ <<h>> \in Seq(Records) /\ Len(<<h>>) = 1
  <2>1. chan[s] \in Seq(Records) /\ unsent[s] \in Seq(Records)
    BY StreamTyped
  <2> QED BY <1>0, <2>1, ConcatProperties
<1>2. Rest(s) = <<h>> \o l
    BY Zenon DEF Rest, HeadOf
<1>3. <<h>>[1] = h
    OBVIOUS
<1> HIDE DEF l, h
<1>4. /\ Len(l) \in Nat /\ Len(<<h>> \o l) = 1 + Len(l)
      /\ \A i \in 1..1 + Len(l) : (<<h>> \o l)[i] = IF i <= 1 THEN <<h>>[i] ELSE l[i - 1]
    BY <1>1, ConcatProperties
<1>5. 1 \in 1..1 + Len(l) /\ 1 <= 1 /\ Len(<<h>> \o l) \in Nat \ {0}
    BY <1>4
<1>6. (<<h>> \o l)[1] = h
    BY <1>3, <1>4, <1>5, Zenon
<1> QED BY <1>0, <1>2, <1>5, <1>6, Zenon DEF h

\* A stream that has no head and is not asked for one has nothing left.
LEMMA EndedIsEmpty ==
    ASSUME Typed, Pipes, want = <<>>, NEW s \in DOMAIN unsent, heads[s] = NoHead
    PROVE  Rest(s) = <<>>
<1>1. \A i \in 1..Len(want) : want[i] # s
    OBVIOUS
<1>2. chan[s] = <<>> /\ unsent[s] = <<>>
    BY <1>1, Zenon DEF Pipes
<1>3. Rest(s) = <<>> \o (<<>> \o <<>>)
    BY <1>2, Zenon DEF Rest, HeadOf
<1> QED BY <1>3

\* When a head is popped every queue that is not empty has its head in the
\* heap, and the head that is popped is not later than that one.
LEMMA PoppedIsLeast ==
    ASSUME Typed, Pipes, NEW s \in DOMAIN unsent, Pops(s),
           NEW t \in DOMAIN unsent, Len(Queues[t]) > 0
    PROVE  /\ Queues[t][1] = heads[t] /\ heads[t] \in Records /\ 1 \in 1..Len(Queues[t])
           /\ \/ heads[s].time < heads[t].time
              \/ heads[s].time = heads[t].time /\ s <= t
<1>1. Queues[t] = Rest(t)
    BY DEF Queues
<1>2. want = <<>> /\ IsNext(s)
    BY DEF Pops
<1>3. heads[t] # NoHead
  <2> SUFFICES ASSUME heads[t] = NoHead PROVE FALSE
    OBVIOUS
  <2>1. Rest(t) = <<>>
    BY <1>2, EndedIsEmpty
  <2> QED BY <1>1, <2>1
<1>4. t \in Ready
    BY <1>3, StreamTyped DEF Ready
<1>5. Len(Rest(t)) \in Nat \ {0} /\ Rest(t)[1] = heads[t] /\ heads[t] \in Records
    BY <1>3, FirstIsHead
<1>6. 1 \in 1..Len(Rest(t))
    BY <1>5
<1> QED BY <1>1, <1>2, <1>4, <1>5, <1>6, Zenon DEF IsNext

\* So a popped record is in order with all that is still to come.
LEMMA PoppedInOrder ==
    ASSUME Typed, Pipes, Lined(Queues, sunk, InOrder), Ties(Queues),
           NEW s \in DOMAIN unsent, Pops(s), KeptFrom(s, Queues[s][1]),
           NEW t \in DOMAIN unsent, t # s, NEW j \in 1..Len(Queues[t]), KeptFrom(t, Queues[t][j])
    PROVE  <<Queues[s][1], Queues[t][j]>> \in InOrder
<1> DEFINE x == Queues[s][1]
           y == Queues[t][j]
           z == Queues[t][1]
<1>0. s \in Nat /\ t \in Nat /\ DOMAIN Queues = DOMAIN unsent
    BY DEF Typed, Queues
<1>1. Queues[t] \in Seq(Records) /\ Queues[s] \in Seq(Records)
    BY StreamTyped DEF Queues
<1>2. Len(Queues[t]) > 0 /\ y \in Records
    BY <1>1
<1>3. Len(Queues[s]) > 0 /\ Queues[s][1] = heads[s] /\ heads[s] \in Records
  <2>1. heads[s] # NoHead
    BY DEF Pops, Ready
  <2> QED BY <2>1, FirstIsHead DEF Queues
<1>4. x \in Records /\ z \in Records /\ 1 \in 1..Len(Queues[t]) /\ 1 \in 1..Len(Queues[s])
      /\ (x.time < z.time \/ (x.time = z.time /\ s <= t))
  <2>1. z = heads[t] /\ heads[t] \in Records /\ 1 \in 1..Len(Queues[t])
        /\ (heads[s].time < heads[t].time \/ (heads[s].time = heads[t].time /\ s <= t))
    BY <1>2, PoppedIsLeast
  <2>2. 1 \in 1..Len(Queues[s])
    BY <1>1, <1>3
  <2> QED BY <1>3, <2>1, <2>2, Zenon
<1>5. y = z \/ Agree(z, y)
  <2>1. CASE j = 1
    BY <2>1
  <2>2. CASE j # 1
    <3>1. 1 < j
      BY <1>1, <2>2
    <3>2. Ordered(Queues[t], InOrder)
      BY <1>0, Zenon DEF Lined
    <3>3. <<z, y>> \in InOrder
      BY <1>4, <3>1, <3>2, Zenon DEF Ordered
    <3> HIDE DEF y, z
    <3> QED BY <3>3 DEF InOrder
  <2> QED BY <2>1, <2>2
<1>6. s < t /\ x.ring = y.ring => j = 1 /\ Agree(x, z)
    BY <1>0, <1>4, Zenon DEF Ties
<1>7. t < s /\ x.ring = y.ring => j = 1 /\ Agree(z, x)
  <2> SUFFICES ASSUME t < s, y.ring = x.ring PROVE j = 1 /\ Agree(z, x)
    BY Zenon
  <2> QED BY <1>0, <1>4, Zenon DEF Ties
<1>8. j = 1 => y = z
    OBVIOUS
<1> HIDE DEF x, y, z
<1>9. /\ x.time \in Nat /\ y.time \in Nat /\ z.time \in Nat /\ x.n \in Nat /\ y.n \in Nat /\ z.n \in Nat
    BY <1>2, <1>4 DEF Records
<1>10. Agree(x, y)
    BY <1>0, <1>4, <1>5, <1>6, <1>7, <1>8, <1>9 DEF Agree
<1>11. <<x, y>> \in InOrder
    BY <1>2, <1>4, <1>10 DEF InOrder
<1> QED BY <1>11, Zenon DEF x, y

(***************************************************************************)
(* The inductive invariant.                                                *)
(***************************************************************************)
\* Sideband of a ring of the trace, an overflow, is dropped from the workers'
\* streams: with it a merge does not hand over everything.
Hides == decoder = "libipt" /\ Overflows
\* Each chunk has a decode worker of its own, or perf script decodes.
OneWorkerPerChunk == decoder = "libipt" => Len(Items(rings)) <= Parallelism

Apart   == Lined(Queues, sunk, Differ) /\ Separate(Queues)
InTurn  == OneWorkerPerChunk => Lined(Queues, sunk, InOrder) /\ Ties(Queues)
Nothing == \A s \in DOMAIN unsent : Rest(s) = <<>>
AllTold == /\ ~failed => Told(Queues, sunk, rings)
           /\ ~merging /\ ~failed => Nothing
           /\ From(Queues, sunk, Wanted)

IInv == Typed /\ Pipes /\ Apart /\ AllTold /\ InTurn

\* A step that moves records along the streams only.
LEMMA MoveKeeps ==
    ASSUME IInv, Typed', Pipes', Queues' = Queues, sunk' = sunk, UNCHANGED input,
           failed => failed', ~merging' /\ ~failed' => Nothing'
    PROVE  IInv'
<1>1. Wanted' = Wanted /\ (OneWorkerPerChunk' <=> OneWorkerPerChunk) /\ rings' = rings
    BY DEF input, Wanted, OneWorkerPerChunk
<1>2. Apart'
  <2>1. Apart
    BY DEF IInv
  <2> QED BY <2>1, Zenon DEF Apart
<1>3. InTurn'
  <2>1. InTurn
    BY DEF IInv
  <2> QED BY <1>1, <2>1, Zenon DEF InTurn
<1>4. AllTold'
  <2>1. AllTold
    BY DEF IInv
  <2> QED BY <1>1, <2>1, Zenon DEF AllTold
<1> QED BY <1>2, <1>3, <1>4 DEF IInv

\* A step that ends a stream early and fails the decode.
LEMMA CutKeepsInv ==
    ASSUME IInv, Typed', Pipes', Cut(Queues', Queues), sunk' = sunk, UNCHANGED input, failed'
    PROVE  IInv'
<1>1. Wanted' = Wanted /\ (OneWorkerPerChunk' <=> OneWorkerPerChunk)
    BY DEF input, Wanted, OneWorkerPerChunk
<1>2. Apart'
  <2>1. Apart
    BY DEF IInv
  <2>2. Lined(Queues', sunk, Differ) /\ Separate(Queues')
    BY <2>1, CutKeeps, Zenon DEF Apart
  <2>3. DOMAIN Queues' = DOMAIN Queues'
    OBVIOUS
  <2> QED BY <2>2, Zenon DEF Apart, Lined, Separate
<1>3. InTurn'
  <2>1. InTurn
    BY DEF IInv
  <2>2. OneWorkerPerChunk => Lined(Queues', sunk, InOrder) /\ Ties(Queues')
    BY <2>1, CutKeeps, Zenon DEF InTurn
  <2> QED BY <1>1, <2>2, Zenon DEF InTurn, Lined, Ties
<1>4. AllTold'
  <2>1. From(Queues, sunk, Wanted)
    BY DEF IInv, AllTold
  <2>2. From(Queues', sunk, Wanted)
    BY <2>1, CutKeeps, Zenon
  <2> QED BY <1>1, <2>2, Zenon DEF AllTold, From
<1> QED BY <1>2, <1>3, <1>4 DEF IInv

\* Popping the least head.
LEMMA PopKeepsInv ==
    ASSUME IInv, NEW s \in DOMAIN heads, Pops(s)
    PROVE  IInv'
<1>0. Typed /\ Pipes /\ Apart /\ AllTold /\ InTurn
    BY DEF IInv
<1>1. /\ Typed' /\ Pipes'
      /\ Popped(Queues', Queues, s) /\ Queues[s][1] \in Records /\ Handed(Queues, sunk, sunk', s)
  <2>1. /\ Typed' /\ Pipes'
        /\ Popped(Queues', Queues, s) /\ Queues[s][1] = heads[s] /\ heads[s] \in Records
        /\ Handed(Queues, sunk, sunk', s)
    BY <1>0, PopsPops
  <2> QED BY <2>1, Zenon
<1>2. sunk \in Seq(Records) /\ DOMAIN heads = DOMAIN unsent /\ DOMAIN Queues = DOMAIN unsent
    BY <1>0 DEF Typed, Queues
<1>3. UNCHANGED input /\ merging' = merging /\ merging = TRUE /\ failed' = failed
    BY <1>0 DEF Pops, Typed
<1>4. Wanted' = Wanted /\ (OneWorkerPerChunk' <=> OneWorkerPerChunk) /\ rings' = rings
    BY <1>3 DEF input, Wanted, OneWorkerPerChunk
<1>5. /\ Separate(Queues) => Separate(Queues')
      /\ Ties(Queues) => Ties(Queues')
      /\ \A W : From(Queues, sunk, W) => From(Queues', sunk', W)
      /\ \A in : Told(Queues, sunk, in) => Told(Queues', sunk', in)
    BY <1>1, <1>2, PopKeepsOthers
<1>6. Lined(Queues', sunk', Differ)
  <2>1. Lined(Queues, sunk, Differ) /\ Separate(Queues)
    BY <1>0 DEF Apart
  <2>2. ASSUME KeptFrom(s, Queues[s][1]), NEW t \in DOMAIN Queues, t # s, NEW j \in 1..Len(Queues[t]),
               KeptFrom(t, Queues[t][j])
        PROVE  <<Queues[s][1], Queues[t][j]>> \in Differ
    <3>1. s \in DOMAIN Queues /\ 1 \in 1..Len(Queues[s])
      BY <1>1 DEF Popped
    <3>2. Queues[s][1] # Queues[t][j]
      BY <2>1, <2>2, <3>1, Zenon DEF Separate
    <3>3. Queues[t] \in Seq(Records)
      BY <1>0, <1>2, StreamTyped DEF Queues
    <3>4. Queues[t][j] \in Records
      BY <3>3
    <3> QED BY <1>1, <3>2, <3>4 DEF Differ
  <2> QED BY <1>1, <1>2, <2>1, <2>2, PopKeepsLined
<1>7. OneWorkerPerChunk => Lined(Queues', sunk', InOrder)
  <2> SUFFICES ASSUME OneWorkerPerChunk PROVE Lined(Queues', sunk', InOrder)
    OBVIOUS
  <2>1. Lined(Queues, sunk, InOrder) /\ Ties(Queues)
    BY <1>0 DEF InTurn
  <2>2. ASSUME KeptFrom(s, Queues[s][1]), NEW t \in DOMAIN Queues, t # s, NEW j \in 1..Len(Queues[t]),
               KeptFrom(t, Queues[t][j])
        PROVE  <<Queues[s][1], Queues[t][j]>> \in InOrder
    BY <1>0, <1>2, <2>1, <2>2, PoppedInOrder
  <2> QED BY <1>1, <1>2, <2>1, <2>2, PopKeepsLined
<1>8. Apart'
    BY <1>0, <1>5, <1>6, Zenon DEF Apart, Lined, Separate
<1>9. InTurn'
    BY <1>0, <1>4, <1>5, <1>7, Zenon DEF InTurn, Lined, Ties
<1>10. AllTold'
  <2>1. From(Queues', sunk', Wanted)
    BY <1>0, <1>5, Zenon DEF AllTold
  <2>2. (From(Queues, sunk, Wanted))'
    BY <1>4, <2>1, Zenon DEF From
  <2>3. ~failed => Told(Queues', sunk', rings)
    BY <1>0, <1>5, Zenon DEF AllTold
  <2>4. (~failed => Told(Queues, sunk, rings))'
    BY <1>3, <1>4, <2>3, Zenon DEF Told
  <2> QED BY <1>3, <2>2, <2>4 DEF AllTold
<1> QED BY <1>1, <1>8, <1>9, <1>10, Zenon DEF IInv

\* Every step keeps it.
LEMMA StepKeepsInv == IInv /\ [Next]_vars => IInv'
<1> SUFFICES ASSUME IInv, [Next]_vars PROVE IInv'
    OBVIOUS
<1>0. Typed /\ Pipes /\ AllTold
    BY DEF IInv
<1>1. CASE UNCHANGED vars
  <2>1. Typed' /\ Pipes' /\ Queues' = Queues /\ sunk' = sunk /\ UNCHANGED input /\ failed' = failed
        /\ merging' = merging
    BY <1>0, <1>1, Zenon DEF vars, input, Typed, Pipes, Queues, Rest, HeadOf
  <2>2. Nothing => Nothing'
    BY <1>1, Zenon DEF vars, Nothing, Rest, HeadOf
  <2>3. ~merging' /\ ~failed' => Nothing'
    BY <1>0, <2>1, <2>2, Zenon DEF AllTold
  <2> QED BY <2>1, <2>3, MoveKeeps, Zenon
<1>2. CASE TakesHead
  <2>1. Typed' /\ Pipes' /\ Queues' = Queues
    BY <1>0, <1>2, TakesHeadMoves
  <2>2. sunk' = sunk /\ UNCHANGED input /\ failed' = failed /\ merging' /\ merging
    BY <1>0, <1>2 DEF TakesHead, input, Typed
  <2> QED BY <2>1, <2>2, MoveKeeps, Zenon
<1>3. CASE MergeEnds
  <2>1. Typed' /\ Pipes' /\ Queues' = Queues /\ sunk' = sunk /\ UNCHANGED input /\ failed' = failed
        /\ want = <<>> /\ Ready = {} /\ UNCHANGED <<unsent, chan, heads>>
    <3>1. merging' = FALSE /\ UNCHANGED <<input, unsent, chan, heads, want, failed, sunk>>
          /\ want = <<>> /\ Ready = {}
      BY <1>3 DEF MergeEnds
    <3>2. merging' \in BOOLEAN
      BY <3>1
    <3>4. UNCHANGED <<unsent, chan, heads, want, failed, sunk>>
      BY <3>1
    <3>5. Typed'
      BY <1>0, <3>2, <3>4, Zenon DEF Typed
    <3>6. Pipes'
      BY <1>0, <3>4, Zenon DEF Pipes
    <3>3. Typed' /\ Pipes' /\ Queues' = Queues
      BY <3>4, <3>5, <3>6, Zenon DEF Queues, Rest, HeadOf
    <3> QED BY <3>1, <3>3, Zenon
  <2>2. \A s \in DOMAIN unsent : Rest(s) = <<>>
    <3> SUFFICES ASSUME NEW s \in DOMAIN unsent PROVE Rest(s) = <<>>
      OBVIOUS
    <3>1. heads[s] = NoHead
      BY <1>0, <2>1, StreamTyped DEF Ready
    <3> QED BY <1>0, <2>1, <3>1, EndedIsEmpty
  <2>3. Nothing'
    BY <2>1, <2>2, Zenon DEF Nothing, Rest, HeadOf
  <2> QED BY <2>1, <2>3, MoveKeeps, Zenon
<1>4. ASSUME NEW s \in DOMAIN heads, Pops(s)
      PROVE  IInv'
    BY <1>4, PopKeepsInv
<1>5. ASSUME NEW s \in DOMAIN heads, SinkRefuses(s)
      PROVE  IInv'
  <2>1. merging' = FALSE /\ failed' = TRUE /\ UNCHANGED <<input, unsent, chan, heads, want, sunk>>
    BY <1>5 DEF SinkRefuses
  <2>2. merging' \in BOOLEAN /\ failed' \in BOOLEAN /\ failed'
    BY <2>1
  <2>3. Typed' /\ Pipes' /\ Queues' = Queues
    BY <1>0, <2>1, <2>2, Zenon DEF Typed, Pipes, Queues, Rest, HeadOf
  <2> QED BY <2>1, <2>2, <2>3, MoveKeeps, Zenon
<1>6. ASSUME NEW s \in DOMAIN unsent, Send(s)
      PROVE  IInv'
  <2>1. Typed' /\ Pipes' /\ Queues' = Queues
    BY <1>0, <1>6, SendMoves
  <2>2. sunk' = sunk /\ UNCHANGED input /\ failed' = failed /\ merging' /\ merging
    BY <1>0, <1>6 DEF Send, input, Typed
  <2> QED BY <2>1, <2>2, MoveKeeps, Zenon
<1>7. ASSUME NEW s \in DOMAIN unsent, SendFails(s)
      PROVE  IInv'
  <2>1. ~merging /\ unsent[s] # <<>> /\ unsent' = [unsent EXCEPT ![s] = <<>>]
        /\ UNCHANGED <<input, chan, heads, want, merging, failed, sunk>>
    BY <1>7 DEF SendFails
  <2>2. merging' \in BOOLEAN /\ failed' \in BOOLEAN /\ (failed' <=> failed)
    BY <1>0, <2>1 DEF Typed
  <2>3. Typed' /\ Pipes' /\ Cut(Queues', Queues)
    BY <1>0, <2>1, <2>2, FailureCuts
  <2>4. failed'
    <3> SUFFICES ASSUME ~failed PROVE FALSE
      BY <2>2
    <3>1. Rest(s) = <<>>
      BY <1>0, <2>1, Zenon DEF AllTold, Nothing
    <3>2. HeadOf(s) \in Seq(Records) /\ chan[s] \in Seq(Records) /\ unsent[s] \in Seq(Records)
      BY <1>0, StreamTyped
    <3>3. HeadOf(s) \o chan[s] \in Seq(Records)
      BY <3>2, ConcatProperties
    <3>4. (HeadOf(s) \o chan[s]) \o unsent[s] = <<>>
      BY <1>0, <3>1, RestSplit, Zenon
    <3> QED BY <2>1, <3>2, <3>3, <3>4, ConcatEqualIffEmpty
  <2> QED BY <2>1, <2>3, <2>4, CutKeepsInv DEF input
<1>8. ASSUME NEW s \in DOMAIN unsent, ProducerFails(s)
      PROVE  IInv'
  <2>1. unsent' = [unsent EXCEPT ![s] = <<>>] /\ failed' = TRUE
        /\ UNCHANGED <<input, chan, heads, want, merging, sunk>>
    BY <1>8 DEF ProducerFails
  <2>2. merging' \in BOOLEAN /\ failed' \in BOOLEAN /\ failed'
    BY <1>0, <2>1 DEF Typed
  <2>3. Typed' /\ Pipes' /\ Cut(Queues', Queues)
    BY <1>0, <2>1, <2>2, FailureCuts
  <2> QED BY <2>1, <2>2, <2>3, CutKeepsInv DEF input
<1> QED BY <1>1, <1>2, <1>3, <1>4, <1>5, <1>6, <1>7, <1>8, Zenon DEF Next, Merger, Producer, Joined

(***************************************************************************)
(* The input, and how it is dealt.                                         *)
(***************************************************************************)
\* Rings of records that know their ring and place; times do not fall along
\* a ring, and ring 0 is the sideband.
Recorded(in) ==
    /\ in \in [0..Rings -> Seq(Records)]
    /\ \A r \in 0..Rings : \A n \in 1..Len(in[r]) : in[r][n].ring = r /\ in[r][n].n = n
    /\ \A n \in 1..Len(in[0]) : IsSideband(in[0][n])
    /\ \A r \in 0..Rings : Ordered(in[r], InOrder)

\* No record of a traced ring is taken for sideband.
Plain(in) == \A r \in 1..Rings : \A n \in 1..Len(in[r]) : ~IsSideband(in[r][n])

\* What Tagged makes of a history.
LEMMA TaggedHas ==
    ASSUME NEW r \in 0..Rings, NEW h \in Histories
    PROVE  /\ Tagged(r, h) \in Seq(Records)
           /\ \A n \in 1..Len(Tagged(r, h)) :
                 /\ Tagged(r, h)[n].ring = r /\ Tagged(r, h)[n].n = n
                 /\ r = 0 => IsSideband(Tagged(r, h)[n])
                 /\ r # 0 /\ ~h[n].lost => ~IsSideband(Tagged(r, h)[n])
           /\ Ordered(Tagged(r, h), InOrder)
           /\ Len(Tagged(r, h)) = Len(h)
<1>1. PICK m \in 0..MaxChunks : h \in [1..m -> Chunks]
    BY DEF Histories, BoundedSeq, SeqOf
<1>2. m \in Nat /\ h \in Seq(Chunks) /\ Len(h) = m
    BY <1>1, MergeAssumption
<1>3. \A i \in 1..m : /\ h[i].time \in 0..MaxTime /\ h[i].lost \in BOOLEAN
    BY <1>1 DEF Chunks
<1>4. \A i, j \in 1..m : i < j /\ h[j].time # 0 => h[i].time <= h[j].time
    BY <1>2 DEF Histories
<1> DEFINE k(i) == IF h[i].lost THEN "lost" ELSE IF r = 0 THEN "task" ELSE "sample"
           e(i) == [ring |-> r, n |-> i, time |-> h[i].time, kind |-> k(i)]
           q == Tagged(r, h)
<1>5. q = [i \in 1..m |-> e(i)]
    BY <1>2, Zenon DEF Tagged
<1>6. ASSUME NEW i \in 1..m
      PROVE  e(i) \in Records
  <2>1. i \in 1..MaxChunks
    BY <1>1, MergeAssumption
  <2>2. k(i) \in Kinds
    BY DEF Kinds
  <2> HIDE DEF k
  <2> QED BY <1>3, <2>1, <2>2 DEF Records
<1>7. q \in Seq(Records) /\ Len(q) = m
  <2> HIDE DEF e, q
  <2>1. q \in Seq(Records)
    BY <1>2, <1>5, <1>6, IsASeq
  <2> QED BY <1>2, <1>5, <2>1, LenProperties
<1>8. ASSUME NEW i \in 1..m
      PROVE  /\ q[i].ring = r /\ q[i].n = i /\ q[i].time = h[i].time
             /\ r = 0 => IsSideband(q[i])
             /\ r # 0 /\ ~h[i].lost => ~IsSideband(q[i])
             /\ q[i] \in Records
  <2>1. q[i] = e(i)
    <3> HIDE DEF e, q
    <3> QED BY <1>5
  <2>2. e(i).ring = r /\ e(i).n = i /\ e(i).time = h[i].time /\ e(i).kind = k(i)
    BY Zenon
  <2>3. /\ r = 0 => k(i) \in {"task", "lost"}
        /\ r # 0 /\ ~h[i].lost => k(i) \notin {"task", "lost"}
    OBVIOUS
  <2> HIDE DEF e, q, k
  <2> QED BY <1>6, <2>1, <2>2, <2>3 DEF IsSideband
<1> HIDE DEF e, q
<1>9. Ordered(q, InOrder)
  <2> SUFFICES ASSUME NEW i \in 1..Len(q), NEW j \in 1..Len(q), i < j
               PROVE  <<q[i], q[j]>> \in InOrder
    BY DEF Ordered
  <2>1. q[i].time = h[i].time /\ q[j].time = h[j].time /\ q[i].n = i /\ q[j].n = j
        /\ q[i] \in Records /\ q[j] \in Records
    BY <1>7, <1>8
  <2>2. Agree(q[i], q[j])
    BY <1>4, <1>7, <2>1 DEF Agree
  <2> QED BY <2>1, <2>2 DEF InOrder
<1> QED BY <1>2, <1>7, <1>8, <1>9 DEF q

\* The input of a decode.
LEMMA InputRecorded == Init => Recorded(rings) /\ (~Hides => Plain(rings))
<1> SUFFICES ASSUME Init PROVE Recorded(rings) /\ (~Hides => Plain(rings))
    OBVIOUS
<1>1. PICK h \in [0..Rings -> Histories] :
         /\ \A r \in 0..Rings : LossKnown(r, h[r])
         /\ rings = [r \in 0..Rings |-> Tagged(r, h[r])]
    BY DEF Init
<1>2. \A r \in 0..Rings : h[r] \in Histories /\ rings[r] = Tagged(r, h[r])
    BY <1>1
<1>3. ASSUME NEW r \in 0..Rings
      PROVE  /\ rings[r] \in Seq(Records)
             /\ \A n \in 1..Len(rings[r]) :
                   /\ rings[r][n].ring = r /\ rings[r][n].n = n
                   /\ r = 0 => IsSideband(rings[r][n])
                   /\ r # 0 /\ ~h[r][n].lost => ~IsSideband(rings[r][n])
             /\ Ordered(rings[r], InOrder)
             /\ Len(rings[r]) = Len(h[r])
    BY <1>2, TaggedHas
<1>4. 0 \in 0..Rings /\ \A r \in 1..Rings : r \in 0..Rings /\ r # 0
    BY MergeAssumption
<1>5. rings \in [0..Rings -> Seq(Records)]
    BY <1>1, <1>2, <1>3, Zenon
<1>6. Recorded(rings)
  <2>1. \A n \in 1..Len(rings[0]) : IsSideband(rings[0][n])
    BY <1>3, <1>4
  <2>2. \A r \in 0..Rings : /\ Ordered(rings[r], InOrder)
                           /\ \A n \in 1..Len(rings[r]) : rings[r][n].ring = r /\ rings[r][n].n = n
    BY <1>3
  <2> QED BY <1>5, <2>1, <2>2, Zenon DEF Recorded
<1>7. ASSUME ~Hides, NEW r \in 1..Rings, NEW n \in 1..Len(rings[r])
      PROVE  ~IsSideband(rings[r][n])
  <2>1. ~h[r][n].lost
    <3>1. n \in 1..Len(h[r])
      BY <1>3, <1>4
    <3>2. \A i \in 1..Len(h[r]) : ~h[r][i].lost
      BY <1>1, <1>4, <1>7, Zenon DEF LossKnown, Hides
    <3> QED BY <3>1, <3>2
  <2> QED BY <1>3, <1>4, <2>1, Zenon
<1> QED BY <1>6, <1>7 DEF Plain

\* Round robin: item k goes to worker Owner(items, k).
Owner(items, k) == ((k - 1) % Workers(items)) + 1

LEMMA OwnerIsWorker ==
    ASSUME NEW X, NEW items \in Seq(X), NEW k \in 1..Len(items)
    PROVE  /\ Workers(items) \in Nat \ {0} /\ Owner(items, k) \in 1..Workers(items)
           /\ Len(items) <= Parallelism => Owner(items, k) = k
<1> DEFINE W == Workers(items)
<1>0. Len(items) \in Nat /\ k \in Nat \ {0} /\ k <= Len(items)
    OBVIOUS
<1>1. W \in Nat \ {0} /\ (Len(items) <= Parallelism => W = Len(items))
    BY <1>0, MergeAssumption DEF Workers
<1> HIDE DEF W
<1>2. (k - 1) % W \in 0..W - 1
    BY <1>0, <1>1
<1>3. Owner(items, k) = ((k - 1) % W) + 1
    BY Zenon DEF Owner, W
<1>4. Owner(items, k) \in 1..W
    BY <1>1, <1>2, <1>3
<1>5. ASSUME Len(items) <= Parallelism
      PROVE  Owner(items, k) = k
  <2>1. W = Len(items)
    BY <1>1, <1>5
  <2>2. k - 1 \in 0..W - 1
    BY <1>0, <2>1
  <2>3. (k - 1) % W = k - 1
    BY <1>1, <2>2
  <2> QED BY <1>0, <1>3, <2>3
<1> QED BY <1>1, <1>4, <1>5 DEF W

\* A worker is given nothing at all when there is nothing to give.
LEMMA WorkersExist ==
    ASSUME NEW X, NEW items \in Seq(X)
    PROVE  Workers(items) \in Nat \ {0}
BY MergeAssumption DEF Workers

\* A worker's stream has the records of its items, in their order.
LEMMA DealtHas ==
    ASSUME NEW X, NEW items \in Seq(Seq(X)), NEW w
    PROVE  /\ FlattenSeq(Dealt(items, w)) \in Seq(X)
           /\ \A i \in 1..Len(FlattenSeq(Dealt(items, w))) :
                 \E k \in 1..Len(items) : /\ Owner(items, k) = w
                                          /\ \E j \in 1..Len(items[k]) : FlattenSeq(Dealt(items, w))[i] = items[k][j]
           /\ \A k \in 1..Len(items) : Owner(items, k) = w =>
                 \A j \in 1..Len(items[k]) :
                    \E i \in 1..Len(FlattenSeq(Dealt(items, w))) : FlattenSeq(Dealt(items, w))[i] = items[k][j]
           /\ \A rel : Rows(items, Len(items), rel) => Ordered(FlattenSeq(Dealt(items, w)), rel)
<1> DEFINE d == Dealt(items, w)
           q == FlattenSeq(d)
<1>0. Len(items) \in Nat /\ \A k \in 1..Len(items) : items[k] \in Seq(X)
    OBVIOUS
<1>1. d = [k \in 1..Len(items) |-> IF Owner(items, k) = w THEN items[k] ELSE <<>>]
    BY Zenon DEF Dealt, Owner
<1>2. d \in Seq(Seq(X)) /\ Len(d) = Len(items)
      /\ \A k \in 1..Len(items) : d[k] = IF Owner(items, k) = w THEN items[k] ELSE <<>>
  <2> DEFINE e(k) == IF Owner(items, k) = w THEN items[k] ELSE <<>>
  <2>1. \A k \in 1..Len(items) : e(k) \in Seq(X)
    BY <1>0
  <2>2. d = [k \in 1..Len(items) |-> e(k)]
    BY <1>1
  <2> HIDE DEF d, e
  <2>3. d \in Seq(Seq(X))
    BY <1>0, <2>1, <2>2, IsASeq
  <2>4. Len(d) = Len(items)
    BY <1>0, <2>2, <2>3, LenProperties
  <2> QED BY <1>1, <2>3, <2>4
<1> HIDE DEF d
<1>3. Flattened(X, d, q, Len(items)) /\ \A rel : Rows(d, Len(items), rel) => Ordered(q, rel)
    BY <1>2, FlattenHas
<1> HIDE DEF q
<1>4. ASSUME NEW k \in 1..Len(items), NEW j \in 1..Len(d[k])
      PROVE  Owner(items, k) = w /\ d[k] = items[k]
  <2>1. d[k] # <<>>
    OBVIOUS
  <2> QED BY <1>2, <2>1, Zenon
<1>5. ASSUME NEW i \in 1..Len(q)
      PROVE  \E k \in 1..Len(items) : Owner(items, k) = w /\ \E j \in 1..Len(items[k]) : q[i] = items[k][j]
  <2>1. PICK k \in 1..Len(items) : \E j \in 1..Len(d[k]) : q[i] = d[k][j]
    BY <1>3, Zenon DEF Flattened
  <2> QED BY <1>4, <2>1
<1>6. ASSUME NEW k \in 1..Len(items), Owner(items, k) = w, NEW j \in 1..Len(items[k])
      PROVE  \E i \in 1..Len(q) : q[i] = items[k][j]
  <2>1. d[k] = items[k]
    BY <1>2, <1>6, Zenon
  <2>2. j \in 1..Len(d[k])
    BY <2>1
  <2> QED BY <1>3, <2>1, <2>2 DEF Flattened
<1>7. ASSUME NEW rel, Rows(items, Len(items), rel)
      PROVE  Ordered(q, rel)
  <2>1. ASSUME NEW k \in 1..Len(items)
        PROVE  Ordered(d[k], rel)
    <3> SUFFICES ASSUME NEW i \in 1..Len(d[k]), NEW j \in 1..Len(d[k]), i < j
                 PROVE  <<d[k][i], d[k][j]>> \in rel
      BY DEF Ordered
    <3>1. d[k] = items[k]
      BY <1>4
    <3>2. Ordered(items[k], rel)
      BY <1>7, Zenon DEF Rows
    <3>3. i \in 1..Len(items[k]) /\ j \in 1..Len(items[k])
      BY <3>1
    <3> QED BY <3>1, <3>2, <3>3 DEF Ordered
  <2>2. ASSUME NEW k \in 1..Len(items), NEW l \in 1..Len(items), k < l,
               NEW i \in 1..Len(d[k]), NEW j \in 1..Len(d[l])
        PROVE  <<d[k][i], d[l][j]>> \in rel
    <3>1. d[k] = items[k] /\ d[l] = items[l]
      BY <1>4
    <3>2. i \in 1..Len(items[k]) /\ j \in 1..Len(items[l])
      BY <3>1
    <3>3. <<items[k][i], items[l][j]>> \in rel
      BY <1>7, <2>2, <3>2, Zenon DEF Rows
    <3> QED BY <3>1, <3>3, Zenon
  <2>3. Rows(d, Len(items), rel)
    BY <2>1, <2>2, Zenon DEF Rows
  <2> QED BY <1>3, <2>3, Zenon
<1> QED BY <1>3, <1>5, <1>6, <1>7, Zenon DEF Flattened, q, d

\* x is a record of ring r of the input.
Of(in, r, x) == r \in 0..Rings /\ x.n \in 1..Len(in[r]) /\ x = in[r][x.n]

LEMMA OfRecorded ==
    ASSUME NEW in, Recorded(in), NEW r \in 0..Rings
    PROVE  /\ in[r] \in Seq(Records)
           /\ \A n \in 1..Len(in[r]) : /\ Of(in, r, in[r][n]) /\ in[r][n] \in Records
                                       /\ in[r][n].ring = r /\ in[r][n].n = n
           /\ \A x : Of(in, r, x) => x \in Records /\ x.ring = r /\ (r = 0 => IsSideband(x))
           /\ Ordered(in[r], Differ) /\ Ordered(in[r], InOrder)
<1>1. in[r] \in Seq(Records) /\ Ordered(in[r], InOrder)
    BY DEF Recorded
<1>2. ASSUME NEW n \in 1..Len(in[r])
      PROVE  /\ Of(in, r, in[r][n]) /\ in[r][n] \in Records /\ in[r][n].ring = r /\ in[r][n].n = n
             /\ r = 0 => IsSideband(in[r][n])
  <2>1. in[r][n].ring = r /\ in[r][n].n = n /\ (r = 0 => IsSideband(in[r][n]))
    BY Zenon DEF Recorded
  <2>2. in[r][n] \in Records
    BY <1>1
  <2>3. Of(in, r, in[r][n])
    BY <2>1, Zenon DEF Of
  <2> QED BY <2>1, <2>2, <2>3
<1>3. \A x : Of(in, r, x) => x \in Records /\ x.ring = r /\ (r = 0 => IsSideband(x))
    BY <1>2, Zenon DEF Of
<1>4. Ordered(in[r], Differ)
  <2> SUFFICES ASSUME NEW i \in 1..Len(in[r]), NEW j \in 1..Len(in[r]), i < j
               PROVE  <<in[r][i], in[r][j]>> \in Differ
    BY DEF Ordered
  <2>1. in[r][i].n = i /\ in[r][j].n = j /\ in[r][i] \in Records /\ in[r][j] \in Records /\ i # j
    BY <1>1, <1>2
  <2>2. in[r][i] # in[r][j]
    BY <2>1, Zenon
  <2> QED BY <2>1, <2>2 DEF Differ
<1> QED BY <1>1, <1>2, <1>3, <1>4

\* Chunks of one ring are in order, chunks of two rings are not the same.
Chunkwise == {p \in Seq(Records) \X Seq(Records) :
                p[1][1] # p[2][1] /\ (p[1][1].ring = p[2][1].ring => Agree(p[1][1], p[2][1]))}

\* The chunks of all rings: each once, those of one ring in order.
LEMMA ItemsHave ==
    ASSUME NEW in, Recorded(in)
    PROVE  /\ Items(in) \in Seq(Seq(Records))
           /\ \A k \in 1..Len(Items(in)) :
                 \E r \in 1..Rings : \E n \in 1..Len(in[r]) : Items(in)[k] = <<in[r][n]>>
           /\ \A r \in 1..Rings : \A n \in 1..Len(in[r]) :
                 \E k \in 1..Len(Items(in)) : Items(in)[k] = <<in[r][n]>>
           /\ Ordered(Items(in), Chunkwise)
<1> DEFINE row(r) == [i \in 1..Len(in[r]) |-> <<in[r][i]>>]
           ss == [r \in 1..Rings |-> row(r)]
           q == Items(in)
<1>0. \A r \in 1..Rings : r \in 0..Rings
    BY MergeAssumption
<1>1. ASSUME NEW r \in 1..Rings
      PROVE  /\ in[r] \in Seq(Records) /\ Len(in[r]) \in Nat
             /\ \A n \in 1..Len(in[r]) : in[r][n] \in Records /\ in[r][n].ring = r /\ in[r][n].n = n
             /\ Ordered(in[r], InOrder)
  <2>1. /\ in[r] \in Seq(Records) /\ Ordered(in[r], InOrder)
        /\ \A n \in 1..Len(in[r]) : in[r][n] \in Records /\ in[r][n].ring = r /\ in[r][n].n = n
    BY <1>0, OfRecorded
  <2> QED BY <2>1
<1>2. ASSUME NEW r \in 1..Rings
      PROVE  /\ row(r) \in Seq(Seq(Records)) /\ Len(row(r)) = Len(in[r])
             /\ \A n \in 1..Len(in[r]) : row(r)[n] = <<in[r][n]>> /\ row(r)[n] \in Seq(Records) /\ row(r)[n][1] = in[r][n]
  <2>1. \A n \in 1..Len(in[r]) : <<in[r][n]>> \in Seq(Records)
    BY <1>1
  <2>2. row(r) \in Seq(Seq(Records))
    BY <1>1, <2>1, IsASeq
  <2>3. Len(row(r)) = Len(in[r])
    BY <1>1, <2>2, LenProperties
  <2>4. \A n \in 1..Len(in[r]) : row(r)[n] = <<in[r][n]>> /\ <<in[r][n]>>[1] = in[r][n]
    BY <1>1
  <2> QED BY <2>1, <2>2, <2>3, <2>4, Zenon
<1>3. q = FlattenSeq(ss)
    BY Zenon DEF Items
<1> HIDE DEF row
<1>4. ss \in Seq(Seq(Seq(Records))) /\ Len(ss) = Rings /\ \A r \in 1..Rings : ss[r] = row(r)
  <2>1. ss \in Seq(Seq(Seq(Records)))
    BY <1>2, MergeAssumption, IsASeq
  <2>2. Len(ss) = Rings
    BY <2>1, MergeAssumption, LenProperties
  <2> QED BY <2>1, <2>2
<1> HIDE DEF ss, q
<1>5. Flattened(Seq(Records), ss, q, Rings) /\ \A rel : Rows(ss, Rings, rel) => Ordered(q, rel)
    BY <1>3, <1>4, FlattenHas
<1>6. ASSUME NEW k \in 1..Len(q)
      PROVE  \E r \in 1..Rings : \E n \in 1..Len(in[r]) : q[k] = <<in[r][n]>>
  <2>1. PICK r \in 1..Rings : \E n \in 1..Len(ss[r]) : q[k] = ss[r][n]
    BY <1>5, Zenon DEF Flattened
  <2>2. PICK n \in 1..Len(ss[r]) : q[k] = ss[r][n]
    BY <2>1
  <2>3. n \in 1..Len(in[r]) /\ ss[r][n] = <<in[r][n]>>
    BY <1>2, <1>4
  <2> QED BY <2>2, <2>3, Zenon
<1>7. ASSUME NEW r \in 1..Rings, NEW n \in 1..Len(in[r])
      PROVE  \E k \in 1..Len(q) : q[k] = <<in[r][n]>>
  <2>1. n \in 1..Len(ss[r]) /\ ss[r][n] = <<in[r][n]>>
    BY <1>2, <1>4
  <2>2. \E k \in 1..Len(q) : q[k] = ss[r][n]
    BY <1>5, <2>1, Zenon DEF Flattened
  <2> QED BY <2>1, <2>2, Zenon
<1>8. Rows(ss, Rings, Chunkwise)
  <2>1. ASSUME NEW r \in 1..Rings, NEW i \in 1..Len(ss[r])
        PROVE  /\ i \in 1..Len(in[r]) /\ ss[r][i] \in Seq(Records) /\ ss[r][i][1] = in[r][i]
               /\ in[r][i].ring = r /\ in[r][i].n = i /\ ss[r][i][1].ring = r
    <3>1. i \in 1..Len(in[r])
      BY <1>2, <1>4
    <3> QED BY <1>1, <1>2, <1>4, <3>1
  <2>2. ASSUME NEW r \in 1..Rings
        PROVE  Ordered(ss[r], Chunkwise)
    <3> SUFFICES ASSUME NEW i \in 1..Len(ss[r]), NEW j \in 1..Len(ss[r]), i < j
                 PROVE  <<ss[r][i], ss[r][j]>> \in Chunkwise
      BY DEF Ordered
    <3>0. i \in 1..Len(in[r]) /\ j \in 1..Len(in[r]) /\ i # j
      BY <1>1, <2>1
    <3>1. <<in[r][i], in[r][j]>> \in InOrder
      <4>1. Ordered(in[r], InOrder)
        BY <1>1
      <4> QED BY <3>0, <4>1 DEF Ordered
    <3>2. Agree(in[r][i], in[r][j])
      <4> DEFINE x == in[r][i]
                 y == in[r][j]
      <4>1. <<x, y>> \in InOrder
        BY <3>1
      <4> HIDE DEF x, y
      <4>2. Agree(x, y)
        BY <4>1 DEF InOrder
      <4> QED BY <4>2 DEF x, y
    <3>3. in[r][i] # in[r][j]
      BY <2>1, <3>0, Zenon
    <3>4. /\ ss[r][i] \in Seq(Records) /\ ss[r][i][1] = in[r][i]
          /\ ss[r][j] \in Seq(Records) /\ ss[r][j][1] = in[r][j]
      BY <2>1
    <3> DEFINE a == ss[r][i]
               b == ss[r][j]
    <3>5. a \in Seq(Records) /\ b \in Seq(Records) /\ a[1] # b[1] /\ Agree(a[1], b[1])
      BY <3>2, <3>3, <3>4, Zenon
    <3> HIDE DEF a, b
    <3>6. <<a, b>> \in Chunkwise
      BY <3>5 DEF Chunkwise
    <3> QED BY <3>6 DEF a, b
  <2>3. ASSUME NEW r \in 1..Rings, NEW t \in 1..Rings, r < t, NEW i \in 1..Len(ss[r]), NEW j \in 1..Len(ss[t])
        PROVE  <<ss[r][i], ss[t][j]>> \in Chunkwise
    <3> DEFINE a == ss[r][i]
               b == ss[t][j]
    <3>1. a \in Seq(Records) /\ b \in Seq(Records) /\ a[1].ring = r /\ b[1].ring = t
      BY <2>1
    <3>2. r # t
      BY <2>3, MergeAssumption
    <3> HIDE DEF a, b
    <3>3. a[1] # b[1] /\ ~(a[1].ring = b[1].ring)
      BY <3>1, <3>2, Zenon
    <3>4. <<a, b>> \in Chunkwise
      BY <3>1, <3>3 DEF Chunkwise
    <3> QED BY <3>4 DEF a, b
  <2> QED BY <2>2, <2>3, Zenon DEF Rows
<1>9. q \in Seq(Seq(Records)) /\ Ordered(q, Chunkwise)
    BY <1>5, <1>8, Zenon DEF Flattened
<1> QED BY <1>6, <1>7, <1>9, Zenon DEF q

(***************************************************************************)
(* The streams a merge starts with.                                        *)
(***************************************************************************)
\* What the streams Q made of the input have to satisfy: what IInv says of
\* queues when nothing was handed over yet.
FairStart(Q, in) ==
    /\ DOMAIN Q \subseteq Nat /\ Q \in Seq(Seq(Records))
    /\ \A s \in DOMAIN Q : Ordered(Q[s], Differ)
    /\ Separate(Q)
    /\ Told(Q, <<>>, in)
    /\ \A s \in DOMAIN Q : \A i \in 1..Len(Q[s]) : \E r \in 0..Rings : Of(in, r, Q[s][i])
OrderedStart(Q) == (\A s \in DOMAIN Q : Ordered(Q[s], InOrder)) /\ Ties(Q)

\* A decode worker's stream: the chunks dealt to it.
LEMMA WorkerHas ==
    ASSUME NEW in, Recorded(in), NEW w
    PROVE  LET K == Items(in)
               q == FlattenSeq(Dealt(K, w))
           IN  /\ q \in Seq(Records) /\ Ordered(q, Differ)
               /\ \A i \in 1..Len(q) : \E k \in 1..Len(K) : Owner(K, k) = w /\ q[i] = K[k][1]
               /\ \A k \in 1..Len(K) : Owner(K, k) = w => \E i \in 1..Len(q) : q[i] = K[k][1]
               /\ Len(K) <= Parallelism => \A i, j \in 1..Len(q) : i = j
<1> DEFINE K == Items(in)
           q == FlattenSeq(Dealt(K, w))
<1>1. K \in Seq(Seq(Records)) /\ Ordered(K, Chunkwise)
    BY ItemsHave
<1>2. ASSUME NEW k \in 1..Len(K)
      PROVE  Len(K[k]) = 1 /\ K[k][1] \in Records
  <2>1. PICK r \in 1..Rings : \E n \in 1..Len(in[r]) : K[k] = <<in[r][n]>>
    BY ItemsHave
  <2>2. PICK n \in 1..Len(in[r]) : K[k] = <<in[r][n]>>
    BY <2>1
  <2>3. r \in 0..Rings
    BY MergeAssumption
  <2>4. in[r][n] \in Records
    BY <2>3, OfRecorded
  <2> HIDE DEF K
  <2> QED BY <2>2, <2>4
<1> HIDE DEF K
<1>3. ASSUME NEW k \in 1..Len(K), NEW j \in 1..Len(K[k])
      PROVE  j = 1
  <2>1. Len(K[k]) = 1
    BY <1>2
  <2>2. j \in 1..1
    BY <2>1, Zenon
  <2> QED BY <2>2
<1>4. \A k \in 1..Len(K) : 1 \in 1..Len(K[k])
    BY <1>2
<1>5. Rows(K, Len(K), Differ)
  <2>1. ASSUME NEW k \in 1..Len(K)
        PROVE  Ordered(K[k], Differ)
    BY <1>2 DEF Ordered
  <2>2. ASSUME NEW k \in 1..Len(K), NEW l \in 1..Len(K), k < l, NEW i \in 1..Len(K[k]), NEW j \in 1..Len(K[l])
        PROVE  <<K[k][i], K[l][j]>> \in Differ
    <3>1. i = 1 /\ j = 1
      BY <1>3
    <3>2. <<K[k], K[l]>> \in Chunkwise
      BY <1>1, <2>2, Zenon DEF Ordered
    <3> DEFINE a == K[k]
               b == K[l]
    <3>3. <<a, b>> \in Chunkwise /\ a[1] \in Records /\ b[1] \in Records
      BY <1>2, <3>2
    <3> HIDE DEF a, b
    <3>4. a[1] # b[1]
      BY <3>3 DEF Chunkwise
    <3>5. <<a[1], b[1]>> \in Differ
      BY <3>3, <3>4 DEF Differ
    <3> QED BY <3>1, <3>5, Zenon DEF a, b
  <2> QED BY <2>1, <2>2, Zenon DEF Rows
<1>6. /\ q \in Seq(Records)
      /\ \A i \in 1..Len(q) : \E k \in 1..Len(K) : /\ Owner(K, k) = w
                                                 /\ \E j \in 1..Len(K[k]) : q[i] = K[k][j]
      /\ \A k \in 1..Len(K) : Owner(K, k) = w =>
            \A j \in 1..Len(K[k]) : \E i \in 1..Len(q) : q[i] = K[k][j]
      /\ \A rel : Rows(K, Len(K), rel) => Ordered(q, rel)
    BY <1>1, DealtHas, Zenon
<1> HIDE DEF q
<1>7. Ordered(q, Differ)
    BY <1>5, <1>6, Zenon
<1>8. \A i \in 1..Len(q) : \E k \in 1..Len(K) : Owner(K, k) = w /\ q[i] = K[k][1]
  <2> SUFFICES ASSUME NEW i \in 1..Len(q)
               PROVE  \E k \in 1..Len(K) : Owner(K, k) = w /\ q[i] = K[k][1]
    OBVIOUS
  <2>1. PICK k \in 1..Len(K) : Owner(K, k) = w /\ \E j \in 1..Len(K[k]) : q[i] = K[k][j]
    BY <1>6, Zenon
  <2>2. PICK j \in 1..Len(K[k]) : q[i] = K[k][j]
    BY <2>1
  <2> QED BY <1>3, <2>1, <2>2, Zenon
<1>9. \A k \in 1..Len(K) : Owner(K, k) = w => \E i \in 1..Len(q) : q[i] = K[k][1]
    BY <1>4, <1>6, Zenon
<1>10. ASSUME Len(K) <= Parallelism, NEW i \in 1..Len(q), NEW j \in 1..Len(q), i < j
       PROVE  FALSE
  <2>1. PICK k \in 1..Len(K) : Owner(K, k) = w /\ q[i] = K[k][1]
    BY <1>8
  <2>2. PICK l \in 1..Len(K) : Owner(K, l) = w /\ q[j] = K[l][1]
    BY <1>8
  <2>3. k = w /\ l = w
    BY <1>1, <1>10, <2>1, <2>2, OwnerIsWorker
  <2>4. <<q[i], q[j]>> \in Differ
    BY <1>7, <1>10, Zenon DEF Ordered
  <2> DEFINE x == q[i]
             y == q[j]
  <2>5. <<x, y>> \in Differ /\ x = y
    BY <2>1, <2>2, <2>3, <2>4
  <2> HIDE DEF x, y
  <2> QED BY <2>5 DEF Differ
<1>11. Len(K) <= Parallelism => \A i, j \in 1..Len(q) : i = j
  <2> SUFFICES ASSUME Len(K) <= Parallelism, NEW i \in 1..Len(q), NEW j \in 1..Len(q), i # j
               PROVE  FALSE
    OBVIOUS
  <2>1. i < j \/ j < i
    BY <1>6
  <2> QED BY <1>10, <2>1
<1> QED BY <1>6, <1>7, <1>8, <1>9, <1>11, Zenon DEF K, q

\* Decode workers: the sideband stream and one stream per worker.
LEMMA NativeStart ==
    ASSUME NEW in, Recorded(in)
    PROVE  /\ FairStart(NativeStreams(in), in)
           /\ Len(Items(in)) <= Parallelism => OrderedStart(NativeStreams(in))
<1> DEFINE K == Items(in)
           W == Workers(K)
           F(w) == FlattenSeq(Dealt(K, w))
           q == [w \in 1..W |-> F(w)]
           Q == NativeStreams(in)
<1>1. K \in Seq(Seq(Records)) /\ Ordered(K, Chunkwise) /\ Len(K) \in Nat
  <2>1. K \in Seq(Seq(Records)) /\ Ordered(K, Chunkwise)
    BY ItemsHave
  <2> HIDE DEF K
  <2> QED BY <2>1
<1>2. ASSUME NEW k \in 1..Len(K)
      PROVE  \E r \in 1..Rings : Of(in, r, K[k][1]) /\ K[k][1] \in Records /\ K[k][1].ring = r
  <2>1. PICK r \in 1..Rings : \E n \in 1..Len(in[r]) : K[k] = <<in[r][n]>>
    BY ItemsHave
  <2>2. PICK n \in 1..Len(in[r]) : K[k] = <<in[r][n]>>
    BY <2>1
  <2>3. r \in 0..Rings
    BY MergeAssumption
  <2>4. in[r][n] \in Records /\ Of(in, r, in[r][n]) /\ in[r][n].ring = r
    BY <2>3, OfRecorded
  <2>5. K[k][1] = in[r][n]
    BY <2>2
  <2> QED BY <2>4, <2>5, Zenon
<1>3. ASSUME NEW k \in 1..Len(K), NEW l \in 1..Len(K), k < l
      PROVE  K[k][1] # K[l][1] /\ (K[k][1].ring = K[l][1].ring => Agree(K[k][1], K[l][1]))
  <2> DEFINE a == K[k]
             b == K[l]
  <2>1. <<a, b>> \in Chunkwise
    BY <1>1, <1>3, Zenon DEF Ordered
  <2> HIDE DEF a, b
  <2>2. a[1] # b[1] /\ (a[1].ring = b[1].ring => Agree(a[1], b[1]))
    BY <2>1 DEF Chunkwise
  <2> QED BY <2>2, Zenon DEF a, b
<1>4. W \in Nat \ {0} /\ \A k \in 1..Len(K) : Owner(K, k) \in 1..W
  <2>1. W \in Nat \ {0}
    BY <1>1, WorkersExist
  <2>2. \A k \in 1..Len(K) : Owner(K, k) \in 1..W
    BY <1>1, OwnerIsWorker
  <2> QED BY <2>1, <2>2
<1>5. Len(K) <= Parallelism => \A k \in 1..Len(K) : Owner(K, k) = k
    BY <1>1, OwnerIsWorker
<1>6. ASSUME NEW w
      PROVE  /\ F(w) \in Seq(Records) /\ Ordered(F(w), Differ)
             /\ \A i \in 1..Len(F(w)) : \E k \in 1..Len(K) : Owner(K, k) = w /\ F(w)[i] = K[k][1]
             /\ \A k \in 1..Len(K) : Owner(K, k) = w => \E i \in 1..Len(F(w)) : F(w)[i] = K[k][1]
             /\ Len(K) <= Parallelism => \A i, j \in 1..Len(F(w)) : i = j
    BY WorkerHas, Zenon
<1>7. Q = <<in[0]>> \o q
    BY Zenon DEF NativeStreams
<1> HIDE DEF K, W, F, Q
<1>8. /\ in[0] \in Seq(Records) /\ Ordered(in[0], Differ) /\ Ordered(in[0], InOrder)
      /\ \A n \in 1..Len(in[0]) : Of(in, 0, in[0][n]) /\ in[0][n] \in Records /\ in[0][n].ring = 0
  <2>1. 0 \in 0..Rings
    BY MergeAssumption
  <2> QED BY <2>1, OfRecorded
<1>9. q \in Seq(Seq(Records)) /\ Len(q) = W /\ \A w \in 1..W : q[w] = F(w)
  <2>1. \A w \in 1..W : F(w) \in Seq(Records)
    BY <1>6
  <2>2. q \in Seq(Seq(Records))
    BY <1>4, <2>1, IsASeq
  <2>3. Len(q) = W
    BY <1>4, <2>2, LenProperties
  <2> QED BY <2>2, <2>3
<1> HIDE DEF q
<1>10. /\ Q \in Seq(Seq(Records)) /\ DOMAIN Q = 1..W + 1 /\ Q[1] = in[0]
       /\ \A s \in DOMAIN Q : s # 1 => s - 1 \in 1..W /\ Q[s] = F(s - 1)
       /\ \A w \in 1..W : w + 1 \in DOMAIN Q /\ w + 1 # 1 /\ Q[w + 1] = F(w)
  <2>1. <<in[0]>> \in Seq(Seq(Records)) /\ Len(<<in[0]>>) = 1 /\ <<in[0]>>[1] = in[0]
    BY <1>8
  <2> DEFINE p == <<in[0]>>
  <2>2. p \in Seq(Seq(Records)) /\ Len(p) = 1 /\ p[1] = in[0] /\ Q = p \o q
    BY <1>7, <2>1
  <2> HIDE DEF p
  <2>3. /\ Q \in Seq(Seq(Records)) /\ Len(Q) = 1 + W
        /\ \A i \in 1..1 + W : Q[i] = IF i <= 1 THEN p[i] ELSE q[i - 1]
    <3>1. /\ p \o q \in Seq(Seq(Records)) /\ Len(p \o q) = Len(p) + Len(q)
          /\ \A i \in 1..Len(p) + Len(q) : (p \o q)[i] = IF i <= Len(p) THEN p[i] ELSE q[i - Len(p)]
      BY <1>9, <2>2, ConcatProperties, Zenon
    <3> QED BY <1>9, <2>2, <3>1, Zenon
  <2>4. DOMAIN Q = 1..W + 1
    BY <1>4, <2>3, LenProperties
  <2>5. Q[1] = in[0]
    <3>1. 1 \in 1..1 + W /\ 1 <= 1
      BY <1>4
    <3> QED BY <2>2, <2>3, <3>1, Zenon
  <2>6. ASSUME NEW s \in 1..W + 1, s # 1
        PROVE  s - 1 \in 1..W /\ Q[s] = F(s - 1)
    <3>1. s \in 1..1 + W /\ ~(s <= 1) /\ s - 1 \in 1..W
      BY <1>4, <2>6
    <3> QED BY <1>9, <2>3, <3>1, Zenon
  <2>7. ASSUME NEW w \in 1..W
        PROVE  w + 1 \in 1..W + 1 /\ w + 1 # 1 /\ Q[w + 1] = F(w)
    <3>1. w + 1 \in 1..W + 1 /\ w + 1 # 1 /\ (w + 1) - 1 = w
      BY <1>4
    <3>2. Q[w + 1] = F((w + 1) - 1)
      BY <2>6, <3>1
    <3> QED BY <3>1, <3>2, Zenon
  <2> QED BY <2>3, <2>4, <2>5, <2>6, <2>7
<1>11. ASSUME NEW s \in DOMAIN Q, s # 1, NEW i \in 1..Len(Q[s])
       PROVE  \E k \in 1..Len(K) : Owner(K, k) = s - 1 /\ Q[s][i] = K[k][1]
  <2>1. Q[s] = F(s - 1)
    BY <1>10, <1>11, Zenon
  <2>2. \A j \in 1..Len(F(s - 1)) : \E k \in 1..Len(K) : Owner(K, k) = s - 1 /\ F(s - 1)[j] = K[k][1]
    BY <1>6, Zenon
  <2> QED BY <2>1, <2>2, Zenon
<1>12. ASSUME NEW i \in 1..Len(Q[1])
       PROVE  Of(in, 0, Q[1][i]) /\ Q[1][i] \in Records /\ Q[1][i].ring = 0
    BY <1>8, <1>10
<1>13. \A s \in DOMAIN Q : s \in Nat /\ Q[s] \in Seq(Records)
    BY <1>4, <1>10
<1>14. \A s \in DOMAIN Q : Ordered(Q[s], Differ)
  <2> SUFFICES ASSUME NEW s \in DOMAIN Q PROVE Ordered(Q[s], Differ)
    OBVIOUS
  <2>1. CASE s = 1
    BY <1>8, <1>10, <2>1, Zenon
  <2>2. CASE s # 1
    <3>1. Q[s] = F(s - 1)
      BY <1>10, <2>2, Zenon
    <3>2. Ordered(F(s - 1), Differ)
      BY <1>6, Zenon
    <3> QED BY <3>1, <3>2, Zenon
  <2> QED BY <2>1, <2>2
<1>15. \A s \in DOMAIN Q : \A i \in 1..Len(Q[s]) : \E r \in 0..Rings : Of(in, r, Q[s][i])
  <2> SUFFICES ASSUME NEW s \in DOMAIN Q, NEW i \in 1..Len(Q[s])
               PROVE  \E r \in 0..Rings : Of(in, r, Q[s][i])
    OBVIOUS
  <2>0. 0 \in 0..Rings /\ \A r \in 1..Rings : r \in 0..Rings
    BY MergeAssumption
  <2>1. CASE s = 1
    BY <1>12, <2>0, <2>1
  <2>2. CASE s # 1
    <3>1. PICK k \in 1..Len(K) : Owner(K, k) = s - 1 /\ Q[s][i] = K[k][1]
      BY <1>11, <2>2
    <3>2. PICK r \in 1..Rings : Of(in, r, K[k][1])
      BY <1>2
    <3> QED BY <2>0, <3>1, <3>2, Zenon
  <2> QED BY <2>1, <2>2
\* Where two streams can meet: never, and in order when every worker has one chunk.
<1>16. ASSUME NEW s \in DOMAIN Q, NEW t \in DOMAIN Q, s < t, NEW i \in 1..Len(Q[s]), NEW j \in 1..Len(Q[t])
       PROVE  /\ Q[s][i] # Q[t][j]
              /\ Len(K) <= Parallelism /\ Q[s][i].ring = Q[t][j].ring => Agree(Q[s][i], Q[t][j]) /\ s # 1
  <2>1. t # 1 /\ s \in Nat /\ t \in Nat /\ s - 1 # t - 1
    BY <1>4, <1>10, <1>16
  <2>2. PICK l \in 1..Len(K) : Owner(K, l) = t - 1 /\ Q[t][j] = K[l][1]
    BY <1>11, <2>1
  <2>3. PICK r \in 1..Rings : Of(in, r, K[l][1]) /\ K[l][1] \in Records /\ K[l][1].ring = r
    BY <1>2
  <2>4. CASE s = 1
    <3>1. Q[s][i].ring = 0
      BY <1>12, <2>4
    <3>2. Q[t][j].ring # 0
      BY <2>2, <2>3, MergeAssumption
    <3> QED BY <3>1, <3>2, Zenon
  <2>5. CASE s # 1
    <3>1. PICK k \in 1..Len(K) : Owner(K, k) = s - 1 /\ Q[s][i] = K[k][1]
      BY <1>11, <2>5
    <3>2. k # l
      BY <2>1, <2>2, <3>1, Zenon
    <3>3. k < l \/ l < k
      BY <1>1, <3>2
    <3>4. Q[s][i] # Q[t][j]
      BY <1>3, <2>2, <3>1, <3>3
    <3>5. ASSUME Len(K) <= Parallelism, Q[s][i].ring = Q[t][j].ring
          PROVE  Agree(Q[s][i], Q[t][j])
      <4>1. k = s - 1 /\ l = t - 1
        BY <1>5, <2>2, <3>1, <3>5
      <4>2. k < l
        BY <1>16, <2>1, <4>1
      <4>3. Agree(K[k][1], K[l][1])
        BY <1>3, <2>2, <3>1, <3>5, <4>2, Zenon
      <4> QED BY <2>2, <3>1, <4>3, Zenon
    <3> QED BY <2>5, <3>4, <3>5
  <2> QED BY <2>4, <2>5
<1>17. Separate(Q)
  <2> SUFFICES ASSUME NEW s \in DOMAIN Q, NEW t \in DOMAIN Q, s # t,
                      NEW i \in 1..Len(Q[s]), NEW j \in 1..Len(Q[t])
               PROVE  Q[s][i] # Q[t][j]
    BY Zenon DEF Separate
  <2>1. s < t \/ t < s
    BY <1>13
  <2> QED BY <1>16, <2>1, Zenon
<1>18. Told(Q, <<>>, in)
  <2> SUFFICES ASSUME NEW r \in 0..Rings, NEW n \in 1..Len(in[r]), Due(r, in[r][n])
               PROVE  \E s \in DOMAIN Q : \E i \in 1..Len(Q[s]) : Q[s][i] = in[r][n] /\ KeptFrom(s, in[r][n])
    BY Zenon DEF Told
  <2>1. CASE r = 0
    <3>1. 1 \in DOMAIN Q /\ n \in 1..Len(Q[1]) /\ Q[1][n] = in[r][n]
      BY <1>4, <1>10, <2>1
    <3>2. KeptFrom(1, in[r][n])
      BY DEF KeptFrom
    <3> QED BY <3>1, <3>2, Zenon
  <2>2. CASE r # 0
    <3>1. r \in 1..Rings
      BY <2>2, MergeAssumption
    <3>2. PICK k \in 1..Len(K) : K[k] = <<in[r][n]>>
      BY <3>1, ItemsHave DEF K
    <3>3. K[k][1] = in[r][n]
      BY <3>2
    <3>4. PICK w \in 1..W : Owner(K, k) = w
      BY <1>4
    <3>5. PICK i \in 1..Len(F(w)) : F(w)[i] = K[k][1]
      BY <1>6, <3>4
    <3>6. w + 1 \in DOMAIN Q /\ Q[w + 1] = F(w)
      BY <1>10
    <3>7. KeptFrom(w + 1, in[r][n])
      BY <2>2 DEF KeptFrom, Due
    <3> QED BY <3>3, <3>5, <3>6, <3>7, Zenon
  <2> QED BY <2>1, <2>2
<1>19. FairStart(Q, in)
  <2>1. DOMAIN Q \subseteq Nat
    BY <1>13
  <2> QED BY <1>10, <1>14, <1>15, <1>17, <1>18, <2>1, Zenon DEF FairStart
<1>20. ASSUME Len(K) <= Parallelism
       PROVE  OrderedStart(Q)
  <2>1. ASSUME NEW s \in DOMAIN Q, s # 1, NEW i \in 1..Len(Q[s]), NEW j \in 1..Len(Q[s])
        PROVE  i = j
    <3>1. Q[s] = F(s - 1)
      BY <1>10, <2>1, Zenon
    <3>2. \A a, b \in 1..Len(F(s - 1)) : a = b
      BY <1>6, <1>20, Zenon
    <3> QED BY <3>1, <3>2, Zenon
  <2>2. ASSUME NEW s \in DOMAIN Q
        PROVE  Ordered(Q[s], InOrder)
    <3>1. CASE s = 1
      BY <1>8, <1>10, <3>1
    <3>2. CASE s # 1
      <4>1. ASSUME NEW i \in 1..Len(Q[s]), NEW j \in 1..Len(Q[s]), i < j
            PROVE  FALSE
        <5>1. i = j
          BY <2>1, <3>2
        <5>2. i \in Nat /\ j \in Nat
          BY <1>13
        <5> QED BY <4>1, <5>1, <5>2
      <4> QED BY <4>1, Zenon DEF Ordered
    <3> QED BY <3>1, <3>2
  <2>3. Ties(Q)
    <3> SUFFICES ASSUME NEW s \in DOMAIN Q, NEW t \in DOMAIN Q, s < t,
                        NEW i \in 1..Len(Q[s]), NEW j \in 1..Len(Q[t]), Q[s][i].ring = Q[t][j].ring
                 PROVE  i = 1 /\ j = 1 /\ Agree(Q[s][1], Q[t][1])
      BY Zenon DEF Ties
    <3>1. Agree(Q[s][i], Q[t][j]) /\ s # 1
      BY <1>16, <1>20, Zenon
    <3>2. t # 1
      BY <1>4, <1>10, <3>1
    <3>3. 1 \in 1..Len(Q[s]) /\ 1 \in 1..Len(Q[t])
      BY <1>13
    <3>4. i = 1 /\ j = 1
      BY <2>1, <3>1, <3>2, <3>3
    <3> QED BY <3>1, <3>4, Zenon
  <2> QED BY <2>2, <2>3, Zenon DEF OrderedStart
<1> QED BY <1>19, <1>20, Zenon DEF Q, K

\* The elements of a sequence are finitely many.
LEMMA ToSetHas ==
    ASSUME NEW X, NEW q \in Seq(X)
    PROVE  /\ IsFiniteSet(ToSet(q)) /\ ToSet(q) \subseteq X
           /\ \A x : x \in ToSet(q) <=> \E i \in 1..Len(q) : q[i] = x
<1>1. Len(q) \in Nat /\ DOMAIN q = 1..Len(q) /\ q \in [1..Len(q) -> X]
    OBVIOUS
<1>2. \A x : x \in ToSet(q) <=> \E i \in 1..Len(q) : q[i] = x
    BY <1>1, Zenon DEF ToSet
<1>3. ToSet(q) \subseteq X
    BY <1>1, <1>2
<1>4. q \in Surjection(1..Len(q), ToSet(q))
  <2>1. q \in [1..Len(q) -> ToSet(q)]
    BY <1>1, <1>2
  <2> QED BY <1>2, <2>1 DEF Surjection
<1>5. IsFiniteSet(1..Len(q))
    BY <1>1, FS_Interval
<1> QED BY <1>2, <1>3, <1>4, <1>5, FS_Surjection

\* Sorting by time, ring and place agrees with the order of each ring.
LEMMA BeforeAgrees ==
    ASSUME NEW in, Recorded(in), NEW r \in 0..Rings, NEW s \in 0..Rings,
           NEW x, NEW y, Of(in, r, x), Of(in, s, y), Before(x, y)
    PROVE  <<x, y>> \in Differ /\ <<x, y>> \in InOrder
<1>1. x \in Records /\ y \in Records /\ x.ring = r /\ y.ring = s
    BY OfRecorded
<1>2. /\ x.time \in Nat /\ y.time \in Nat /\ x.n \in Nat /\ y.n \in Nat
      /\ x.n \in 1..Len(in[r]) /\ x = in[r][x.n] /\ y.n \in 1..Len(in[s]) /\ y = in[s][y.n]
    BY <1>1, MergeAssumption DEF Records, Of
<1>3. x # y
    BY <1>1, BeforeOrders
<1>4. x.time <= y.time
    BY <1>2 DEF Before
<1>5. ASSUME x.time # 0, y.time # 0, r = s, ~(x.n < y.n)
      PROVE  FALSE
  <2>1. x.n # y.n
    BY <1>2, <1>3, <1>5, Zenon
  <2>2. y.n < x.n
    BY <1>2, <1>5, <2>1
  <2>3. <<y, x>> \in InOrder
    <3>1. Ordered(in[r], InOrder)
      BY OfRecorded
    <3> QED BY <1>2, <1>5, <2>2, <3>1, Zenon DEF Ordered
  <2>4. y.time <= x.time
    BY <1>5, <2>3 DEF InOrder, Agree
  <2> QED BY <1>1, <1>2, <1>4, <1>5, <2>2, <2>4 DEF Before
<1>6. Agree(x, y)
    BY <1>1, <1>4, <1>5 DEF Agree
<1> QED BY <1>1, <1>3, <1>6 DEF Differ, InOrder

\* What a script child prints: the records of its CPUs and of the sideband.
LEMMA ChildHas ==
    ASSUME NEW in, Recorded(in), NEW w
    PROVE  LET cpus == [r \in 1..Rings |-> in[r]]
               C == ToSet(FlattenSeq(Dealt(cpus, w))) \union ToSet(in[0])
           IN  /\ C \subseteq Records /\ IsFiniteSet(C) /\ Determined(C)
               /\ \A x \in C : Of(in, 0, x) \/ \E r \in 1..Rings : Owner(cpus, r) = w /\ Of(in, r, x)
               /\ \A n \in 1..Len(in[0]) : in[0][n] \in C
               /\ \A r \in 1..Rings : Owner(cpus, r) = w => \A n \in 1..Len(in[r]) : in[r][n] \in C
<1> DEFINE cpus == [r \in 1..Rings |-> in[r]]
           f == FlattenSeq(Dealt(cpus, w))
           z == in[0]
           C == ToSet(f) \union ToSet(z)
<1>0. 0 \in 0..Rings /\ Rings \in Nat /\ \A r \in 1..Rings : r \in 0..Rings
    BY MergeAssumption
<1>1. z \in Seq(Records) /\ \A n \in 1..Len(z) : Of(in, 0, z[n])
    BY <1>0, OfRecorded
<1>2. \A r \in 1..Rings : in[r] \in Seq(Records) /\ \A n \in 1..Len(in[r]) : Of(in, r, in[r][n])
    BY <1>0, OfRecorded
<1>3. cpus \in Seq(Seq(Records)) /\ Len(cpus) = Rings /\ \A r \in 1..Rings : cpus[r] = in[r]
  <2>1. cpus \in Seq(Seq(Records))
    BY <1>0, <1>2, IsASeq
  <2> QED BY <1>0, <2>1, LenProperties
<1> HIDE DEF cpus, z
<1>4. /\ f \in Seq(Records)
      /\ \A i \in 1..Len(f) : \E r \in 1..Len(cpus) : /\ Owner(cpus, r) = w
                                                      /\ \E j \in 1..Len(cpus[r]) : f[i] = cpus[r][j]
      /\ \A r \in 1..Len(cpus) : Owner(cpus, r) = w =>
            \A j \in 1..Len(cpus[r]) : \E i \in 1..Len(f) : f[i] = cpus[r][j]
      /\ \A rel : Rows(cpus, Len(cpus), rel) => Ordered(f, rel)
    BY <1>3, DealtHas, Zenon
<1> HIDE DEF f
<1>5. /\ IsFiniteSet(ToSet(f)) /\ ToSet(f) \subseteq Records
      /\ \A x : x \in ToSet(f) <=> \E i \in 1..Len(f) : f[i] = x
    BY <1>4, ToSetHas
<1>6. /\ IsFiniteSet(ToSet(z)) /\ ToSet(z) \subseteq Records
      /\ \A x : x \in ToSet(z) <=> \E i \in 1..Len(z) : z[i] = x
    BY <1>1, ToSetHas
<1>7. C \subseteq Records /\ IsFiniteSet(C)
    BY <1>5, <1>6, FS_Union
<1>8. ASSUME NEW x \in C
      PROVE  Of(in, 0, x) \/ \E r \in 1..Rings : Owner(cpus, r) = w /\ Of(in, r, x)
  <2>1. CASE x \in ToSet(z)
    BY <1>1, <1>6, <2>1, Zenon
  <2>2. CASE x \in ToSet(f)
    <3>1. PICK i \in 1..Len(f) : f[i] = x
      BY <1>5, <2>2, Zenon
    <3>2. PICK r \in 1..Len(cpus) : Owner(cpus, r) = w /\ \E j \in 1..Len(cpus[r]) : f[i] = cpus[r][j]
      BY <1>4
    <3>3. r \in 1..Rings /\ cpus[r] = in[r]
      BY <1>3
    <3>4. PICK j \in 1..Len(in[r]) : f[i] = in[r][j]
      BY <3>2, <3>3, Zenon
    <3>5. Of(in, r, x)
      BY <1>2, <3>1, <3>3, <3>4, Zenon
    <3> QED BY <3>2, <3>3, <3>5, Zenon
  <2> QED BY <2>1, <2>2
<1>9. Determined(C)
  <2> SUFFICES ASSUME NEW a \in C, NEW b \in C, a.ring = b.ring, a.n = b.n
               PROVE  a = b
    BY Zenon DEF Determined
  <2>1. PICK r \in 0..Rings : Of(in, r, a)
    BY <1>0, <1>8
  <2>2. PICK s \in 0..Rings : Of(in, s, b)
    BY <1>0, <1>8
  <2>3. a.ring = r /\ b.ring = s
    BY <2>1, <2>2, OfRecorded
  <2> QED BY <2>1, <2>2, <2>3, Zenon DEF Of
<1>10. \A n \in 1..Len(z) : z[n] \in C
    BY <1>6, Zenon
<1>11. ASSUME NEW r \in 1..Rings, Owner(cpus, r) = w, NEW n \in 1..Len(in[r])
       PROVE  in[r][n] \in C
  <2>0. r \in 1..Len(cpus) /\ cpus[r] = in[r]
    BY <1>3
  <2>2. \A j \in 1..Len(cpus[r]) : \E i \in 1..Len(f) : f[i] = cpus[r][j]
    BY <1>4, <1>11, <2>0, Zenon
  <2>1. \E i \in 1..Len(f) : f[i] = in[r][n]
    BY <2>0, <2>2
  <2> QED BY <1>5, <2>1, Zenon
<1> HIDE DEF C
<1>12. /\ C \subseteq Records /\ IsFiniteSet(C) /\ Determined(C)
       /\ \A x \in C : Of(in, 0, x) \/ \E r \in 1..Rings : Owner(cpus, r) = w /\ Of(in, r, x)
       /\ \A n \in 1..Len(z) : z[n] \in C
       /\ \A r \in 1..Rings : Owner(cpus, r) = w => \A n \in 1..Len(in[r]) : in[r][n] \in C
    BY <1>7, <1>8, <1>9, <1>10, <1>11, Zenon
<1> QED BY <1>12, Zenon DEF C, cpus, f, z

\* Script children: each one's stream is sorted, and a record that is kept is
\* in one of them.
LEMMA ScriptStart ==
    ASSUME NEW in, Recorded(in)
    PROVE  FairStart(ScriptStreams(in), in) /\ OrderedStart(ScriptStreams(in))
<1> DEFINE cpus == [r \in 1..Rings |-> in[r]]
           W == Workers(cpus)
           C(w) == ToSet(FlattenSeq(Dealt(cpus, w))) \union ToSet(in[0])
           Q == ScriptStreams(in)
<1>0. 0 \in 0..Rings /\ Rings \in Nat /\ \A r \in 1..Rings : r \in 0..Rings /\ r # 0
    BY MergeAssumption
<1>1. cpus \in Seq(Seq(Records)) /\ Len(cpus) = Rings
  <2>1. \A r \in 1..Rings : in[r] \in Seq(Records)
    BY <1>0, OfRecorded
  <2>2. cpus \in Seq(Seq(Records))
    BY <1>0, <2>1, IsASeq
  <2> QED BY <1>0, <2>2, LenProperties
<1>2. ASSUME NEW w
      PROVE  /\ C(w) \subseteq Records /\ IsFiniteSet(C(w)) /\ Determined(C(w))
             /\ \A x \in C(w) : Of(in, 0, x) \/ \E r \in 1..Rings : Owner(cpus, r) = w /\ Of(in, r, x)
             /\ \A n \in 1..Len(in[0]) : in[0][n] \in C(w)
             /\ \A r \in 1..Rings : Owner(cpus, r) = w => \A n \in 1..Len(in[r]) : in[r][n] \in C(w)
    BY ChildHas, Zenon
<1>3. Q = [w \in 1..W |-> Sorted(C(w))]
    BY Zenon DEF ScriptStreams
<1> HIDE DEF cpus, C, Q
<1>4. W \in Nat \ {0} /\ \A r \in 1..Rings : Owner(cpus, r) \in 1..W
  <2>1. W \in Nat \ {0}
    BY <1>1, WorkersExist
  <2>2. \A r \in 1..Rings : Owner(cpus, r) \in 1..W
    BY <1>1, OwnerIsWorker
  <2> QED BY <2>1, <2>2
<1> HIDE DEF W
<1>5. ASSUME NEW w
      PROVE  /\ Sorted(C(w)) \in Seq(Records)
             /\ \A i \in 1..Len(Sorted(C(w))) : Sorted(C(w))[i] \in C(w)
             /\ \A x \in C(w) : \E i \in 1..Len(Sorted(C(w))) : Sorted(C(w))[i] = x
             /\ \A i, j \in 1..Len(Sorted(C(w))) : i < j => Before(Sorted(C(w))[i], Sorted(C(w))[j])
    BY <1>2, SortedHas
<1>6. DOMAIN Q = 1..W /\ \A w \in 1..W : Q[w] = Sorted(C(w))
    BY <1>3
<1>7. \A s \in DOMAIN Q : /\ s \in Nat /\ Q[s] \in Seq(Records)
                          /\ \A i \in 1..Len(Q[s]) : Q[s][i] \in C(s)
                          /\ \A x \in C(s) : \E i \in 1..Len(Q[s]) : Q[s][i] = x
                          /\ \A i, j \in 1..Len(Q[s]) : i < j => Before(Q[s][i], Q[s][j])
  <2> SUFFICES ASSUME NEW s \in DOMAIN Q
               PROVE  /\ s \in Nat /\ Q[s] \in Seq(Records)
                      /\ \A i \in 1..Len(Q[s]) : Q[s][i] \in C(s)
                      /\ \A x \in C(s) : \E i \in 1..Len(Q[s]) : Q[s][i] = x
                      /\ \A i, j \in 1..Len(Q[s]) : i < j => Before(Q[s][i], Q[s][j])
    BY Zenon
  <2>1. s \in Nat
    BY <1>4, <1>6
  <2>2. Q[s] = Sorted(C(s))
    BY <1>6, Zenon
  <2> QED BY <1>5, <2>1, <2>2, Zenon
<1>8. Q \in Seq(Seq(Records))
  <2>1. \A w \in 1..W : Sorted(C(w)) \in Seq(Records)
    BY <1>5
  <2> QED BY <1>3, <1>4, <2>1, IsASeq
<1>9. ASSUME NEW s, NEW x \in C(s)
      PROVE  \E r \in 0..Rings : Of(in, r, x)
    BY <1>0, <1>2, <1>9, Zenon
<1>10. ASSUME NEW s \in DOMAIN Q, NEW i \in 1..Len(Q[s]), NEW j \in 1..Len(Q[s]), i < j
       PROVE  <<Q[s][i], Q[s][j]>> \in Differ /\ <<Q[s][i], Q[s][j]>> \in InOrder
  <2> DEFINE x == Q[s][i]
             y == Q[s][j]
  <2>1. Before(x, y) /\ x \in C(s) /\ y \in C(s)
    BY <1>7, <1>10, Zenon
  <2> HIDE DEF x, y
  <2>2. PICK r \in 0..Rings : Of(in, r, x)
    BY <1>9, <2>1, Zenon
  <2>3. PICK t \in 0..Rings : Of(in, t, y)
    BY <1>9, <2>1, Zenon
  <2>4. <<x, y>> \in Differ /\ <<x, y>> \in InOrder
    BY <2>1, <2>2, <2>3, BeforeAgrees
  <2> QED BY <2>4, Zenon DEF x, y
\* A record kept of a stream after the first is of a CPU of that stream.
<1>11. ASSUME NEW s \in DOMAIN Q, NEW i \in 1..Len(Q[s]), KeptFrom(s, Q[s][i])
       PROVE  \/ s = 1 /\ Q[s][i].ring = 0
              \/ \E r \in 1..Rings : Owner(cpus, r) = s /\ Q[s][i].ring = r
  <2> DEFINE x == Q[s][i]
  <2>1. x \in C(s) /\ (s = 1 \/ ~IsSideband(x))
    BY <1>7, <1>11, Zenon DEF KeptFrom
  <2> HIDE DEF x
  <2>2. CASE Of(in, 0, x)
    <3>1. \A y : Of(in, 0, y) => y \in Records /\ y.ring = 0 /\ (0 = 0 => IsSideband(y))
      BY <1>0, OfRecorded, Zenon
    <3> QED BY <2>1, <2>2, <3>1, Zenon DEF x
  <2>3. CASE \E r \in 1..Rings : Owner(cpus, r) = s /\ Of(in, r, x)
    <3>1. PICK r \in 1..Rings : Owner(cpus, r) = s /\ Of(in, r, x)
      BY <2>3
    <3>0. r \in 0..Rings
      BY <1>0
    <3>2. \A y : Of(in, r, y) => y \in Records /\ y.ring = r /\ (r = 0 => IsSideband(y))
      BY <3>0, OfRecorded, Zenon
    <3> QED BY <3>1, <3>2, Zenon DEF x
  <2> QED BY <1>2, <2>1, <2>2, <2>3, Zenon
<1>12. ASSUME NEW s \in DOMAIN Q, NEW t \in DOMAIN Q, s # t,
              NEW i \in 1..Len(Q[s]), NEW j \in 1..Len(Q[t]), KeptFrom(s, Q[s][i]), KeptFrom(t, Q[t][j])
       PROVE  Q[s][i].ring # Q[t][j].ring
  <2>1. \/ s = 1 /\ Q[s][i].ring = 0
        \/ \E r \in 1..Rings : Owner(cpus, r) = s /\ Q[s][i].ring = r
    BY <1>11, <1>12, Zenon
  <2>2. \/ t = 1 /\ Q[t][j].ring = 0
        \/ \E r \in 1..Rings : Owner(cpus, r) = t /\ Q[t][j].ring = r
    BY <1>11, <1>12, Zenon
  <2> DEFINE a == Q[s][i].ring
             b == Q[t][j].ring
  <2>3. (s = 1 /\ a = 0) \/ \E r \in 1..Rings : Owner(cpus, r) = s /\ a = r
    BY <2>1
  <2>4. (t = 1 /\ b = 0) \/ \E r \in 1..Rings : Owner(cpus, r) = t /\ b = r
    BY <2>2
  <2> HIDE DEF a, b
  <2>5. a # b
    BY <1>0, <1>12, <2>3, <2>4
  <2> QED BY <2>5, Zenon DEF a, b
<1>13. Separate(Q) /\ Ties(Q)
  <2>1. Separate(Q)
    BY <1>12, Zenon DEF Separate
  <2>2. \A s, t \in DOMAIN Q : s < t => s # t
    BY <1>7
  <2>3. Ties(Q)
    BY <1>12, <2>2, Zenon DEF Ties
  <2> QED BY <2>1, <2>3
<1>14. Told(Q, <<>>, in)
  <2> SUFFICES ASSUME NEW r \in 0..Rings, NEW n \in 1..Len(in[r]), Due(r, in[r][n])
               PROVE  \E s \in DOMAIN Q : \E i \in 1..Len(Q[s]) : Q[s][i] = in[r][n] /\ KeptFrom(s, in[r][n])
    BY Zenon DEF Told
  <2>1. CASE r = 0
    <3>1. 1 \in DOMAIN Q /\ in[r][n] \in C(1)
      BY <1>2, <1>4, <1>6, <2>1
    <3>2. KeptFrom(1, in[r][n])
      BY DEF KeptFrom
    <3> QED BY <1>7, <3>1, <3>2, Zenon
  <2>2. CASE r # 0
    <3>1. r \in 1..Rings
      BY <1>0, <2>2
    <3>2. Owner(cpus, r) \in DOMAIN Q /\ in[r][n] \in C(Owner(cpus, r))
      BY <1>2, <1>4, <1>6, <3>1, Zenon
    <3>3. KeptFrom(Owner(cpus, r), in[r][n])
      BY <2>2, Zenon DEF KeptFrom, Due
    <3> QED BY <1>7, <3>2, <3>3, Zenon
  <2> QED BY <2>1, <2>2
<1>15. FairStart(Q, in)
  <2>1. DOMAIN Q \subseteq Nat
    BY <1>7
  <2>2. \A s \in DOMAIN Q : Ordered(Q[s], Differ)
    BY <1>10, Zenon DEF Ordered
  <2>3. \A s \in DOMAIN Q : \A i \in 1..Len(Q[s]) : \E r \in 0..Rings : Of(in, r, Q[s][i])
    BY <1>7, <1>9, Zenon
  <2> QED BY <1>8, <1>13, <1>14, <2>1, <2>2, <2>3, Zenon DEF FairStart
<1>16. OrderedStart(Q)
  <2>1. \A s \in DOMAIN Q : Ordered(Q[s], InOrder)
    BY <1>10, Zenon DEF Ordered
  <2> QED BY <1>13, <2>1, Zenon DEF OrderedStart
<1> QED BY <1>15, <1>16, Zenon DEF Q

(***************************************************************************)
(* The theorems.                                                           *)
(***************************************************************************)
LEMMA InitInv == Init => IInv
<1> SUFFICES ASSUME Init PROVE IInv
    OBVIOUS
<1>1. Recorded(rings)
    BY InputRecorded
<1>2. /\ unsent = Streams(rings)
      /\ chan = [s \in DOMAIN unsent |-> <<>>] /\ heads = [s \in DOMAIN unsent |-> NoHead]
      /\ want = [s \in 1..Len(unsent) |-> s] /\ merging = TRUE /\ failed = FALSE /\ sunk = <<>>
    BY DEF Init
<1>3. FairStart(unsent, rings) /\ (OneWorkerPerChunk => OrderedStart(unsent))
  <2>1. CASE decoder = "libipt"
    <3>1. unsent = NativeStreams(rings)
      BY <1>2, <2>1, Zenon DEF Streams
    <3>2. FairStart(unsent, rings) /\ (Len(Items(rings)) <= Parallelism => OrderedStart(unsent))
      BY <1>1, <3>1, NativeStart, Zenon
    <3> QED BY <2>1, <3>2, Zenon DEF OneWorkerPerChunk
  <2>2. CASE decoder # "libipt"
    <3>1. unsent = ScriptStreams(rings)
      BY <1>2, <2>2, Zenon DEF Streams
    <3> QED BY <1>1, <3>1, ScriptStart, Zenon
  <2> QED BY <2>1, <2>2, Zenon
<1>4. /\ unsent \in Seq(Seq(Records)) /\ DOMAIN unsent = 1..Len(unsent) /\ Len(unsent) \in Nat
      /\ \A s \in DOMAIN unsent : s \in Nat /\ unsent[s] \in Seq(Records)
  <2>1. unsent \in Seq(Seq(Records))
    BY <1>3, Zenon DEF FairStart
  <2> QED BY <2>1
<1>5. Queues = unsent
  <2>1. ASSUME NEW s \in DOMAIN unsent
        PROVE  Rest(s) = unsent[s]
    <3>1. HeadOf(s) = <<>> /\ chan[s] = <<>>
      BY <1>2, Zenon DEF HeadOf
    <3>2. Rest(s) = <<>> \o (<<>> \o unsent[s])
      BY <3>1, Zenon DEF Rest
    <3> QED BY <1>4, <3>2
  <2>2. unsent = [s \in DOMAIN unsent |-> unsent[s]]
    BY <1>4
  <2>3. Queues = [s \in DOMAIN unsent |-> unsent[s]]
    BY <2>1, Zenon DEF Queues
  <2> QED BY <2>2, <2>3, Zenon
<1>6. Typed
  <2>1. unsent \in [DOMAIN unsent -> Seq(Records)]
    BY <1>4
  <2>2. chan \in [DOMAIN unsent -> Seq(Records)] /\ heads \in [DOMAIN unsent -> Records \union {NoHead}]
    BY <1>2
  <2>3. \A s \in DOMAIN unsent : Len(chan[s]) <= ChannelCap
    <3>1. ASSUME NEW s \in DOMAIN unsent PROVE Len(chan[s]) = 0
      BY <1>2
    <3> QED BY <3>1, MergeAssumption
  <2>4. want \in Seq(DOMAIN unsent)
    BY <1>2, <1>4, IsASeq
  <2>5. sunk \in Seq(Records)
    BY <1>2
  <2>6. merging \in BOOLEAN /\ failed \in BOOLEAN
    BY <1>2
  <2>7. DOMAIN unsent \subseteq Nat
    BY <1>4
  <2> QED BY <2>1, <2>2, <2>3, <2>4, <2>5, <2>6, <2>7, Zenon DEF Typed
<1>7. Pipes
  <2>1. Len(want) = Len(unsent) /\ \A i \in 1..Len(unsent) : want[i] = i
    BY <1>2, <1>4
  <2>2. \A i, j \in 1..Len(want) : i # j => want[i] # want[j]
    BY <2>1, Zenon
  <2>3. \A i \in 1..Len(want) : heads[want[i]] = NoHead
    BY <1>2, <1>4, <2>1, Zenon
  <2>4. \A s \in DOMAIN unsent : \E i \in 1..Len(want) : want[i] = s
    BY <1>4, <2>1, Zenon
  <2> QED BY <2>2, <2>3, <2>4, Zenon DEF Pipes
<1>8. \A rel : Ordered(sunk, rel)
    BY <1>2 DEF Ordered
<1>9. ASSUME NEW rel, \A s \in DOMAIN unsent : Ordered(unsent[s], rel)
      PROVE  Lined(Queues, sunk, rel)
  <2>1. \A i \in 1..Len(sunk) : FALSE
    BY <1>2
  <2> QED BY <1>5, <1>8, <1>9, <2>1, Zenon DEF Lined
<1>10. Apart
    BY <1>3, <1>5, <1>9, Zenon DEF Apart, FairStart
<1>11. InTurn
    BY <1>3, <1>5, <1>9, Zenon DEF InTurn, OrderedStart
<1>12. AllTold
  <2>1. Told(Queues, sunk, rings)
    BY <1>1, <1>2, <1>3, <1>5, Zenon DEF FairStart
  <2>2. ASSUME NEW s \in DOMAIN unsent, NEW i \in 1..Len(unsent[s])
        PROVE  unsent[s][i] \in Wanted
    <3>1. PICK r \in 0..Rings : Of(rings, r, unsent[s][i])
      BY <1>3, Zenon DEF FairStart
    <3>2. rings[r] \in Seq(Records)
      BY <1>1, OfRecorded
    <3>3. unsent[s][i] \in ToSet(rings[r])
      BY <3>1, <3>2, ToSetHas, Zenon DEF Of
    <3> QED BY <3>3, Zenon DEF Wanted
  <2>3. From(Queues, sunk, Wanted)
    <3>1. \A i \in 1..Len(sunk) : FALSE
      BY <1>2
    <3> QED BY <1>5, <2>2, <3>1, Zenon DEF From
  <2>4. merging
    BY <1>2
  <2> QED BY <2>1, <2>3, <2>4, Zenon DEF AllTold
<1> QED BY <1>6, <1>7, <1>10, <1>11, <1>12, Zenon DEF IInv

\* What the steps of spawn_native_streams, run_script_stream_parallel and
\* merge_records keep.
THEOREM InvHolds == Spec => []IInv
<1>1. Init => IInv
    BY InitInv
<1>2. IInv /\ [Next]_vars => IInv'
    BY StepKeepsInv
<1> QED BY <1>1, <1>2, PTL DEF Spec

\* No step touches the input.
LEMMA InputHolds == Spec => [](Recorded(rings) /\ (~Hides => Plain(rings)))
<1>1. Init => Recorded(rings) /\ (~Hides => Plain(rings))
    BY InputRecorded
<1>2. (Recorded(rings) /\ (~Hides => Plain(rings))) /\ [Next]_vars
        => (Recorded(rings) /\ (~Hides => Plain(rings)))'
  <2>1. [Next]_vars => rings' = rings /\ decoder' = decoder
    BY Zenon DEF Next, Merger, TakesHead, MergeEnds, Pops, SinkRefuses, Joined,
                 Producer, Send, SendFails, ProducerFails, vars, input
  <2> QED BY <2>1, Zenon DEF Recorded, Plain, Hides
<1> QED BY <1>1, <1>2, PTL DEF Spec

\* Channels stay within their capacity and streams hold records, for any
\* number of rings, workers and chunks.
THEOREM MergeTypes == Spec => []TypeOK
<1>1. ASSUME IInv PROVE TypeOK
  <2>1. Typed
    BY <1>1 DEF IInv
  <2>2. \A s \in DOMAIN unsent : unsent[s] \in Seq(Records) /\ chan[s] \in Seq(Records)
    BY <2>1, StreamTyped
  <2>3. DOMAIN chan = DOMAIN unsent /\ DOMAIN heads = DOMAIN unsent
    BY <2>1 DEF Typed
  <2>4. \A s \in DOMAIN heads : heads[s] \in Records \union {NoHead}
    BY <2>1, <2>3, Zenon DEF Typed
  <2>5. want \in Seq(DOMAIN unsent) /\ merging \in BOOLEAN /\ failed \in BOOLEAN /\ sunk \in Seq(Records)
    BY <2>1, Zenon DEF Typed
  <2>6. \A s \in DOMAIN chan : Len(chan[s]) <= ChannelCap
    BY <2>1, <2>3, Zenon DEF Typed
  <2> QED BY <2>2, <2>4, <2>5, <2>6, Zenon DEF TypeOK
<1>2. IInv => TypeOK
    BY <1>1
<1> QED BY <1>2, InvHolds, PTL

\* merge_records hands no record to the reconstructor twice: whatever the
\* decoder, the workers, the failures and the overflows.
NothingTwice == \A i, j \in 1..Len(sunk) : sunk[i] = sunk[j] => i = j
LEMMA InvNothingTwice == IInv => NothingTwice
<1> SUFFICES ASSUME IInv PROVE NothingTwice
    OBVIOUS
<1>1. Ordered(sunk, Differ) /\ sunk \in Seq(Records)
    BY Zenon DEF IInv, Typed, Apart, Lined
<1>2. ASSUME NEW i \in 1..Len(sunk), NEW j \in 1..Len(sunk), i < j
      PROVE  sunk[i] # sunk[j]
  <2>1. <<sunk[i], sunk[j]>> \in Differ
    BY <1>1, <1>2, Zenon DEF Ordered
  <2> QED BY <2>1 DEF Differ
<1>3. \A i, j \in 1..Len(sunk) : i # j => i < j \/ j < i
    BY <1>1
<1> QED BY <1>2, <1>3, Zenon DEF NothingTwice

THEOREM NothingTwiceHolds == Spec => []NothingTwice
<1>1. IInv => NothingTwice
    BY InvNothingTwice
<1> QED BY <1>1, InvHolds, PTL

\* The records of the rings that are due.
DueRecords == UNION {{x \in ToSet(rings[r]) : Due(r, x)} : r \in 0..Rings}

\* A decode that ended without an error handed over what was due and nothing
\* that is not in the input.
LEMMA InvDueIsSunk ==
    ASSUME IInv, Recorded(rings), ~merging, ~failed
    PROVE  DueRecords \subseteq ToSet(sunk) /\ ToSet(sunk) \subseteq Wanted
<1>1. /\ Told(Queues, sunk, rings) /\ From(Queues, sunk, Wanted)
      /\ \A s \in DOMAIN unsent : Rest(s) = <<>>
    BY Zenon DEF IInv, AllTold, Nothing
<1>2. DOMAIN Queues = DOMAIN unsent /\ \A s \in DOMAIN Queues : Queues[s] = <<>>
    BY <1>1, Zenon DEF Queues
<1>3. sunk \in Seq(Records)
    BY Zenon DEF IInv, Typed
<1>4. \A x : x \in ToSet(sunk) <=> \E i \in 1..Len(sunk) : sunk[i] = x
    BY <1>3, ToSetHas
<1>5. \A s \in DOMAIN Queues : \A i \in 1..Len(Queues[s]) : FALSE
    BY <1>2
<1>6. ASSUME NEW r \in 0..Rings, NEW x \in ToSet(rings[r]), Due(r, x)
      PROVE  x \in ToSet(sunk)
  <2>1. rings[r] \in Seq(Records)
    BY OfRecorded
  <2>2. PICK n \in 1..Len(rings[r]) : rings[r][n] = x
    BY <2>1, ToSetHas, Zenon
  <2>3. \E i \in 1..Len(sunk) : sunk[i] = rings[r][n]
    BY <1>1, <1>5, <1>6, <2>2, Zenon DEF Told
  <2> QED BY <1>4, <2>2, <2>3, Zenon
<1>7. \A x \in DueRecords : x \in ToSet(sunk)
    BY <1>6, Zenon DEF DueRecords
<1>8. \A x \in ToSet(sunk) : x \in Wanted
    BY <1>1, <1>4, Zenon DEF From
<1> QED BY <1>7, <1>8

\* A decode that ended without an error handed over every sample and error of
\* every ring and the whole sideband stream, and nothing else: whatever the
\* decoder, the number of rings, workers and channels, and the pace of their
\* threads (spawn_native_streams and run_script_stream_parallel with
\* merge_records).
THEOREM NothingLost ==
    Spec => [](~merging /\ ~failed => DueRecords \subseteq ToSet(sunk) /\ ToSet(sunk) \subseteq Wanted)
<1>1. IInv /\ Recorded(rings) =>
        (~merging /\ ~failed => DueRecords \subseteq ToSet(sunk) /\ ToSet(sunk) \subseteq Wanted)
    BY InvDueIsSunk, Zenon
<1> QED BY <1>1, InvHolds, InputHolds, PTL

\* The same without exception where no PT overflow can hide in a worker's
\* stream, which the merge takes for sideband: every record of the rings, once.
THEOREM EachOnceHolds == Spec => [](~Hides => EachOnce)
<1>1. ASSUME IInv, Recorded(rings), ~Hides => Plain(rings), ~Hides PROVE EachOnce
  <2>1. \A i, j \in 1..Len(sunk) : sunk[i] = sunk[j] => i = j
    BY <1>1, InvNothingTwice, Zenon DEF NothingTwice
  <2>2. ASSUME ~merging, ~failed PROVE ToSet(sunk) = Wanted
    <3>1. DueRecords \subseteq ToSet(sunk) /\ ToSet(sunk) \subseteq Wanted
      BY <1>1, <2>2, InvDueIsSunk
    <3>2. ASSUME NEW r \in 0..Rings, NEW x \in ToSet(rings[r]) PROVE Due(r, x)
      <4>1. CASE r = 0
        BY <4>1 DEF Due
      <4>2. CASE r # 0
        <5>1. r \in 1..Rings /\ rings[r] \in Seq(Records)
          BY <1>1, <4>2, OfRecorded, MergeAssumption
        <5>2. PICK n \in 1..Len(rings[r]) : rings[r][n] = x
          BY <5>1, ToSetHas, Zenon
        <5> QED BY <1>1, <5>1, <5>2, Zenon DEF Due, Plain
      <4> QED BY <4>1, <4>2
    <3>3. \A x \in Wanted : x \in DueRecords
      BY <3>2, Zenon DEF Wanted, DueRecords
    <3> QED BY <3>1, <3>3
  <2> QED BY <2>1, <2>2, Zenon DEF EachOnce
<1>2. IInv /\ Recorded(rings) /\ (~Hides => Plain(rings)) => (~Hides => EachOnce)
    BY <1>1
<1> QED BY <1>2, InvHolds, InputHolds, PTL

\* What the merge hands to the reconstructor is in order of time and of each
\* ring, whatever the pace and the failures of the producers: when perf script
\* decodes, and when each chunk has a libipt worker of its own.
THEOREM MergedHolds == Spec => [](OneWorkerPerChunk => MergedInOrder)
<1>1. ASSUME IInv, OneWorkerPerChunk PROVE MergedInOrder
  <2>1. Ordered(sunk, InOrder)
    BY <1>1, Zenon DEF IInv, InTurn, Lined
  <2>2. ASSUME NEW i \in 1..Len(sunk), NEW j \in 1..Len(sunk), Timed(i, j)
        PROVE  sunk[i].time <= sunk[j].time /\ (sunk[i].ring = sunk[j].ring => sunk[i].n < sunk[j].n)
    <3>1. i < j /\ sunk[i].time # 0 /\ sunk[j].time # 0
      BY <2>2 DEF Timed
    <3> DEFINE x == sunk[i]
               y == sunk[j]
    <3>2. <<x, y>> \in InOrder
      BY <2>1, <3>1, Zenon DEF Ordered
    <3>3. x.time # 0 /\ y.time # 0
      BY <3>1
    <3> HIDE DEF x, y
    <3>4. x.time <= y.time /\ (x.ring = y.ring => x.n < y.n)
      BY <3>2, <3>3 DEF InOrder, Agree
    <3> QED BY <3>4, Zenon DEF x, y
  <2> QED BY <2>2, Zenon DEF MergedInOrder, TimeOrder, RingOrder
<1>2. IInv => (OneWorkerPerChunk => MergedInOrder)
    BY <1>1
<1> QED BY <1>2, InvHolds, PTL

=============================================================================
