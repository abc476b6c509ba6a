-------------------------- MODULE SelectionLemmas ---------------------------
(***************************************************************************)
(* Facts about Select, and induction over the natural numbers and over     *)
(* sequences stated with sets, which the provers can instantiate.          *)
(***************************************************************************)
EXTENDS Selections, Integers, FiniteSets, FiniteSetTheorems, SequenceTheorems, TLAPS

-----------------------------------------------------------------------------
(* Induction.                                                              *)

(* A set of naturals with zero and every successor has them all: else the  *)
(* numbers up to which it has no gap would be finitely many, and the next  *)
(* of each of them another one that is not zero.                           *)
LEMMA SetInduction ==
  ASSUME NEW D \in SUBSET Nat, 0 \in D, \A n \in D : n + 1 \in D
  PROVE  D = Nat
<1> SUFFICES ASSUME NEW b \in Nat, b \notin D PROVE FALSE
  OBVIOUS
<1> DEFINE E == {x \in Nat : \A y \in 0..x : y \in D}
           next == [x \in E |-> x + 1]
<1>1. E \in SUBSET Nat /\ \A x \in E : x <= b
  OBVIOUS
<1>2. IsFiniteSet(E)
  BY <1>1, FS_BoundedSetOfNaturals
<1>3. 0 \in E /\ next \in [E -> E \ {0}]
  OBVIOUS
<1>4. IsFiniteSet(E \ {0}) /\ Cardinality(E \ {0}) < Cardinality(E)
  <2>1. /\ Cardinality(E) \in Nat
        /\ IsFiniteSet(E \ {0}) /\ Cardinality(E \ {0}) = Cardinality(E) - 1
    <3> HIDE DEF E
    <3>1. QED BY <1>2, <1>3, FS_RemoveElement, FS_CardinalityType
  <2>2. QED BY <2>1
<1>5. PICK x \in E, y \in E : x # y /\ next[x] = next[y]
  <2> HIDE DEF E, next
  <2>1. QED BY <1>2, <1>3, <1>4, FS_PigeonHole
<1>6. QED BY <1>5

(* A set of sequences with the empty one and every extension has them all. *)
LEMMA SequenceInduction ==
  ASSUME NEW T, NEW Q \in SUBSET Seq(T), <<>> \in Q,
         \A q \in Q, x \in T : Append(q, x) \in Q
  PROVE  Q = Seq(T)
<1> DEFINE D == {n \in Nat : \A q \in Seq(T) : Len(q) = n => q \in Q}
<1>1. 0 \in D
  <2>1. \A q \in Seq(T) : Len(q) = 0 => q = <<>> OBVIOUS
  <2>2. QED BY <2>1
<1>2. ASSUME NEW n \in D PROVE n + 1 \in D
  <2>1. SUFFICES ASSUME NEW q \in Seq(T), Len(q) = n + 1 PROVE q \in Q
    OBVIOUS
  <2>2. q # <<>> BY <2>1
  <2>3. PICK p \in Seq(T), x \in T : q = Append(p, x)
    BY <2>2, SequenceEmptyOrAppend
  <2>4. Len(p) = n BY <2>1, <2>3
  <2>5. QED BY <2>3, <2>4
<1>3. D = Nat
  <2> HIDE DEF D
  <2>1. D \in SUBSET Nat BY DEF D
  <2>2. QED BY <1>1, <1>2, <2>1, SetInduction
<1>4. ASSUME NEW q \in Seq(T) PROVE q \in Q
  <2>1. Len(q) \in D BY <1>3
  <2>2. QED BY <2>1
<1>5. QED BY <1>4

-----------------------------------------------------------------------------
(* The recursive function of Select exists, and is the only one.           *)

KeepsTo(f, q, S, n) ==
    f = [i \in 0..n |->
           IF i = 0 THEN <<>>
           ELSE IF q[i] \in S THEN Append(f[i - 1], q[i]) ELSE f[i - 1]]

LEMMA KeepsExists ==
  ASSUME NEW q, NEW S
  PROVE  \A n \in Nat : \E f : KeepsTo(f, q, S, n)
<1> DEFINE D == {n \in Nat : \E f : KeepsTo(f, q, S, n)}
<1>1. 0 \in D
  <2>1. KeepsTo([i \in 0..0 |-> <<>>], q, S, 0) BY DEF KeepsTo
  <2>2. QED BY <2>1
<1>2. ASSUME NEW n \in D PROVE n + 1 \in D
  <2>1. PICK f : KeepsTo(f, q, S, n) OBVIOUS
  <2>2. n \in Nat OBVIOUS
  <2> DEFINE last == IF q[n + 1] \in S THEN Append(f[n], q[n + 1]) ELSE f[n]
             g == [i \in 0..(n + 1) |-> IF i = n + 1 THEN last ELSE f[i]]
  <2>3. \A i \in 0..n :
          f[i] = IF i = 0 THEN <<>>
                 ELSE IF q[i] \in S THEN Append(f[i - 1], q[i]) ELSE f[i - 1]
    BY <2>1 DEF KeepsTo
  <2>4. \A i \in 0..(n + 1) :
          g[i] = IF i = 0 THEN <<>>
                 ELSE IF q[i] \in S THEN Append(g[i - 1], q[i]) ELSE g[i - 1]
    BY <2>2, <2>3
  <2>5. KeepsTo(g, q, S, n + 1) BY <2>2, <2>4 DEF KeepsTo
  <2>6. QED BY <2>2, <2>5
<1>3. D = Nat
  <2> HIDE DEF D
  <2>1. D \in SUBSET Nat BY DEF D
  <2>2. QED BY <1>1, <1>2, <2>1, SetInduction
<1>4. QED BY <1>3

LEMMA KeepsStep ==
  ASSUME NEW q, NEW S, NEW n \in Nat, NEW f, KeepsTo(f, q, S, n),
         NEW i \in Nat, i + 1 <= n
  PROVE  f[i + 1] = IF q[i + 1] \in S THEN Append(f[i], q[i + 1]) ELSE f[i]
<1>1. i + 1 \in 0..n /\ i + 1 # 0 /\ (i + 1) - 1 = i OBVIOUS
<1>2. f[i + 1] = IF i + 1 = 0 THEN <<>>
                 ELSE IF q[i + 1] \in S THEN Append(f[(i + 1) - 1], q[i + 1])
                                        ELSE f[(i + 1) - 1]
  BY <1>1 DEF KeepsTo
<1>3. QED BY <1>1, <1>2

LEMMA KeepsUnique ==
  ASSUME NEW q, NEW r, NEW S, NEW m \in Nat, NEW n \in Nat, m <= n,
         NEW f, NEW g, KeepsTo(f, q, S, m), KeepsTo(g, r, S, n),
         \A i \in 1..m : q[i] = r[i]
  PROVE  \A i \in 0..m : f[i] = g[i]
<1> DEFINE D == {i \in Nat : i <= m => f[i] = g[i]}
<1>1. 0 \in D BY DEF KeepsTo
<1>2. ASSUME NEW i \in D PROVE i + 1 \in D
  <2>1. CASE i + 1 <= m
    <3>1. i \in Nat /\ i \in 0..m /\ i + 1 \in 1..m /\ i + 1 <= n BY <2>1
    <3>2. f[i + 1] = IF q[i + 1] \in S THEN Append(f[i], q[i + 1]) ELSE f[i]
      BY <2>1, <3>1, KeepsStep
    <3>3. g[i + 1] = IF r[i + 1] \in S THEN Append(g[i], r[i + 1]) ELSE g[i]
      <4> HIDE DEF D
      <4>1. KeepsTo(g, r, S, n) /\ n \in Nat OBVIOUS
      <4>2. QED BY ONLY <3>1, <4>1, KeepsStep
    <3>4. f[i] = g[i] /\ q[i + 1] = r[i + 1] BY <3>1
    <3>5. QED BY <3>2, <3>3, <3>4
  <2>2. QED BY <2>1
<1>3. D = Nat
  <2> HIDE DEF D
  <2>1. D \in SUBSET Nat BY DEF D
  <2>2. QED BY <1>1, <1>2, <2>1, SetInduction
<1>4. QED BY <1>3

LEMMA SelectIs ==
  ASSUME NEW q, NEW S, Len(q) \in Nat, NEW f, KeepsTo(f, q, S, Len(q))
  PROVE  Select(q, S) = f[Len(q)]
<1> DEFINE h == CHOOSE f0 : KeepsTo(f0, q, S, Len(q))
<1>1. Select(q, S) = h[Len(q)] BY DEF Select, KeepsTo
<1>2. KeepsTo(h, q, S, Len(q)) OBVIOUS
<1>3. QED
  <2> HIDE DEF h
  <2>1. \A i \in 0..Len(q) : h[i] = f[i] BY <1>2, KeepsUnique
  <2>2. QED BY <1>1, <2>1

-----------------------------------------------------------------------------
(* What Select returns.                                                    *)

LEMMA SelectEmpty ==
  ASSUME NEW S
  PROVE  Select(<<>>, S) = <<>>
<1>1. PICK f : KeepsTo(f, <<>>, S, 0) BY KeepsExists
<1>2. QED BY <1>1, SelectIs DEF KeepsTo

LEMMA SelectAppend ==
  ASSUME NEW T, NEW q \in Seq(T), NEW x \in T, NEW S
  PROVE  Select(Append(q, x), S) = IF x \in S THEN Append(Select(q, S), x) ELSE Select(q, S)
<1> DEFINE n == Len(q)
           m == n + 1
           r == Append(q, x)
<1>1. /\ n \in Nat /\ m \in Nat /\ n <= m /\ n \in 0..n
      /\ Len(r) = m /\ r[m] = x /\ \A i \in 1..n : q[i] = r[i]
  OBVIOUS
<1>2. PICK f : KeepsTo(f, q, S, n) BY <1>1, KeepsExists
<1>3. PICK g : KeepsTo(g, r, S, m)
  <2> HIDE DEF m, r
  <2>1. QED BY <1>1, KeepsExists
<1>4. f[n] = g[n]
  <2> HIDE DEF n, m, r
  <2>1. \A i \in 0..n : f[i] = g[i] BY ONLY <1>1, <1>2, <1>3, KeepsUnique
  <2>2. QED BY <1>1, <2>1
<1>5. Select(q, S) = f[n] BY <1>1, <1>2, SelectIs
<1>6. Select(r, S) = g[m]
  <2> HIDE DEF m, r
  <2>1. QED BY <1>1, <1>3, SelectIs
<1>7. g[m] = IF x \in S THEN Append(g[n], x) ELSE g[n]
  <2>1. n + 1 <= m BY <1>1
  <2> HIDE DEF n, r
  <2>2. QED BY ONLY <1>1, <1>3, <2>1, KeepsStep DEF m
<1>8. QED BY <1>4, <1>5, <1>6, <1>7

(* All of it is in the set.                                                *)
LEMMA SelectType ==
  ASSUME NEW T, NEW S
  PROVE  \A q \in Seq(T) : Select(q, S) \in Seq(S \cap T)
<1> DEFINE Q == {q \in Seq(T) : Select(q, S) \in Seq(S \cap T)}
<1>1. <<>> \in Q
  <2>1. <<>> \in Seq(T) /\ <<>> \in Seq(S \cap T) BY EmptySeq
  <2>2. QED BY <2>1, SelectEmpty
<1>2. ASSUME NEW q \in Q, NEW x \in T PROVE Append(q, x) \in Q
  <2>1. q \in Seq(T) /\ Append(q, x) \in Seq(T) /\ Select(q, S) \in Seq(S \cap T) OBVIOUS
  <2>2. x \in S => Append(Select(q, S), x) \in Seq(S \cap T) BY <2>1
  <2>3. Select(Append(q, x), S) =
          IF x \in S THEN Append(Select(q, S), x) ELSE Select(q, S)
    BY <2>1, SelectAppend
  <2>4. QED BY <2>1, <2>2, <2>3
<1>3. Q = Seq(T)
  <2> HIDE DEF Q
  <2>1. Q \in SUBSET Seq(T) BY DEF Q
  <2>2. QED BY <1>1, <1>2, <2>1, SequenceInduction
<1>4. QED BY <1>3

LEMMA SelectSeqType ==
  ASSUME NEW T, NEW S, NEW q \in Seq(T)
  PROVE  Select(q, S) \in Seq(T)
<1>1. Select(q, S) \in Seq(S \cap T) BY SelectType
<1>2. QED BY <1>1, SeqMonotonic

LEMMA SelectConcat ==
  ASSUME NEW T, NEW S, NEW p \in Seq(T)
  PROVE  \A q \in Seq(T) : Select(p \o q, S) = Select(p, S) \o Select(q, S)
<1> DEFINE Q == {q \in Seq(T) : Select(p \o q, S) = Select(p, S) \o Select(q, S)}
<1>1. <<>> \in Q
  <2>1. Select(p, S) \in Seq(T) BY SelectSeqType
  <2>2. QED BY <2>1, SelectEmpty
<1>2. ASSUME NEW q \in Q, NEW x \in T PROVE Append(q, x) \in Q
  <2>1. q \in Seq(T) /\ Append(q, x) \in Seq(T) /\ p \o q \in Seq(T) OBVIOUS
  <2>2. p \o Append(q, x) = Append(p \o q, x) BY <2>1
  <2>3. Select(p, S) \in Seq(T) /\ Select(q, S) \in Seq(T) BY <2>1, SelectSeqType
  <2>4. Select(p \o q, S) = Select(p, S) \o Select(q, S) OBVIOUS
  <2>5. Select(Append(p \o q, x), S) =
          IF x \in S THEN Append(Select(p \o q, S), x) ELSE Select(p \o q, S)
    <3> DEFINE pq == p \o q
    <3>1. pq \in Seq(T) BY <2>1
    <3> HIDE DEF pq
    <3>2. Select(Append(pq, x), S) = IF x \in S THEN Append(Select(pq, S), x) ELSE Select(pq, S)
      BY <3>1, SelectAppend
    <3>3. QED BY <3>2 DEF pq
  <2>6. Select(Append(q, x), S) =
          IF x \in S THEN Append(Select(q, S), x) ELSE Select(q, S)
    BY <2>1, SelectAppend
  <2>7. Append(Select(p, S) \o Select(q, S), x) = Select(p, S) \o Append(Select(q, S), x)
    <3>1. ASSUME NEW u \in Seq(T), NEW v \in Seq(T) PROVE Append(u \o v, x) = u \o Append(v, x)
      <4> HIDE DEF Q
      <4>1. QED OBVIOUS
    <3>2. QED BY <2>3, <3>1
  <2>8. QED BY <2>1, <2>2, <2>4, <2>5, <2>6, <2>7
<1>3. Q = Seq(T)
  <2> HIDE DEF Q
  <2>1. Q \in SUBSET Seq(T) BY DEF Q
  <2>2. QED BY <1>1, <1>2, <2>1, SequenceInduction
<1>4. QED BY <1>3

LEMMA SelectOne ==
  ASSUME NEW x, NEW S
  PROVE  Select(<<x>>, S) = IF x \in S THEN <<x>> ELSE <<>>
<1>1. <<x>> = Append(<<>>, x) /\ <<>> \in Seq({x}) /\ x \in {x} OBVIOUS
<1>2. Select(Append(<<>>, x), S) =
        IF x \in S THEN Append(Select(<<>>, S), x) ELSE Select(<<>>, S)
  BY ONLY <1>1, SelectAppend
<1>3. QED BY <1>1, <1>2, SelectEmpty

(* Nothing is dropped from a sequence over the set.                        *)
LEMMA SelectAll ==
  ASSUME NEW S
  PROVE  \A q \in Seq(S) : Select(q, S) = q
<1> DEFINE Q == {q \in Seq(S) : Select(q, S) = q}
<1>1. <<>> \in Q BY SelectEmpty
<1>2. ASSUME NEW q \in Q, NEW x \in S PROVE Append(q, x) \in Q
  BY SelectAppend
<1>3. Q = Seq(S)
  <2> HIDE DEF Q
  <2>1. Q \in SUBSET Seq(S) BY DEF Q
  <2>2. QED BY <1>1, <1>2, <2>1, SequenceInduction
<1>4. QED BY <1>3

(* The head goes, or is the head of what is left.                          *)
LEMMA SelectTail ==
  ASSUME NEW T, NEW S, NEW q \in Seq(T), q # <<>>
  PROVE  Select(q, S) = IF Head(q) \in S THEN <<Head(q)>> \o Select(Tail(q), S)
                        ELSE Select(Tail(q), S)
<1>1. Head(q) \in T /\ Tail(q) \in Seq(T) /\ <<Head(q)>> \in Seq(T) BY HeadTailProperties
<1>2. q = <<Head(q)>> \o Tail(q) BY <1>1
<1>3. Select(q, S) = Select(<<Head(q)>>, S) \o Select(Tail(q), S)
  BY <1>1, <1>2, SelectConcat
<1>4. Select(Tail(q), S) \in Seq(T) BY <1>1, SelectSeqType
<1>5. <<>> \o Select(Tail(q), S) = Select(Tail(q), S) BY <1>4
<1>6. Select(<<Head(q)>>, S) = IF Head(q) \in S THEN <<Head(q)>> ELSE <<>>
  BY SelectOne
<1>7. QED BY <1>3, <1>5, <1>6

(* Whatever is left was in the sequence.                                   *)
LEMMA SelectMember ==
  ASSUME NEW T, NEW S
  PROVE  \A q \in Seq(T) : \A k \in 1..Len(Select(q, S)) :
           \E i \in 1..Len(q) : Select(q, S)[k] = q[i]
<1> DEFINE From(p, q) == \A k \in 1..Len(p) : \E i \in 1..Len(q) : p[k] = q[i]
           Q == {q \in Seq(T) : From(Select(q, S), q)}
<1>1. <<>> \in Q BY SelectEmpty
<1>2. ASSUME NEW q \in Q, NEW x \in T PROVE Append(q, x) \in Q
  <2>1. q \in Seq(T) /\ Append(q, x) \in Seq(T) /\ From(Select(q, S), q) OBVIOUS
  <2>2. Select(q, S) \in Seq(T) BY <2>1, SelectSeqType
  <2>3. Select(Append(q, x), S) =
          IF x \in S THEN Append(Select(q, S), x) ELSE Select(q, S)
    BY <2>1, SelectAppend
  <2>4. ASSUME NEW p \in Seq(T), From(p, q)
        PROVE  From(p, Append(q, x)) /\ From(Append(p, x), Append(q, x))
    <3>1. From(p, Append(q, x))
      <4>1. SUFFICES ASSUME NEW k \in 1..Len(p)
                     PROVE  \E i \in 1..Len(Append(q, x)) : p[k] = Append(q, x)[i]
        OBVIOUS
      <4>2. PICK i \in 1..Len(q) : p[k] = q[i] BY <2>4
      <4>3. i \in 1..Len(Append(q, x)) /\ Append(q, x)[i] = q[i] BY <2>1
      <4>4. QED BY <4>2, <4>3
    <3>2. From(Append(p, x), Append(q, x))
      <4>1. SUFFICES ASSUME NEW k \in 1..Len(Append(p, x))
                     PROVE  \E i \in 1..Len(Append(q, x)) : Append(p, x)[k] = Append(q, x)[i]
        OBVIOUS
      <4>2. CASE k \in 1..Len(p)
        <5>1. Append(p, x)[k] = p[k] BY <4>2
        <5>2. QED BY <3>1, <4>2, <5>1
      <4>3. CASE k = Len(p) + 1
        <5>1. Append(p, x)[k] = x BY <4>3
        <5>2. Len(q) + 1 \in 1..Len(Append(q, x)) /\ Append(q, x)[Len(q) + 1] = x BY <2>1
        <5>3. QED BY <5>1, <5>2
      <4>4. QED BY <4>2, <4>3
    <3>3. QED BY <3>1, <3>2
  <2>5. From(Select(Append(q, x), S), Append(q, x))
    <3> HIDE DEF From
    <3>1. QED BY <2>1, <2>2, <2>3, <2>4
  <2>6. QED BY <2>1, <2>5
<1>3. Q = Seq(T)
  <2> HIDE DEF Q
  <2>1. Q \in SUBSET Seq(T) BY DEF Q
  <2>2. QED BY <1>1, <1>2, <2>1, SequenceInduction
<1>4. QED BY <1>3

(* Whatever was in the sequence and the set is left.                       *)
LEMMA SelectHas ==
  ASSUME NEW T, NEW S
  PROVE  \A q \in Seq(T) : \A i \in 1..Len(q) : q[i] \in S =>
           \E k \in 1..Len(Select(q, S)) : Select(q, S)[k] = q[i]
<1> DEFINE Has(q, p) == \A i \in 1..Len(q) : q[i] \in S => \E k \in 1..Len(p) : p[k] = q[i]
           Q == {q \in Seq(T) : Has(q, Select(q, S))}
<1>1. <<>> \in Q OBVIOUS
<1>2. ASSUME NEW q \in Q, NEW x \in T PROVE Append(q, x) \in Q
  <2>1. q \in Seq(T) /\ Append(q, x) \in Seq(T) /\ Has(q, Select(q, S)) OBVIOUS
  <2>2. Select(q, S) \in Seq(T) BY <2>1, SelectSeqType
  <2>3. Select(Append(q, x), S) =
          IF x \in S THEN Append(Select(q, S), x) ELSE Select(q, S)
    BY <2>1, SelectAppend
  <2>4. ASSUME NEW p \in Seq(T), Has(q, p)
        PROVE  (x \in S => Has(Append(q, x), Append(p, x))) /\ (x \notin S => Has(Append(q, x), p))
    <3>1. ASSUME NEW i \in 1..Len(Append(q, x)), Append(q, x)[i] \in S, NEW r,
                 r = IF x \in S THEN Append(p, x) ELSE p
          PROVE  \E k \in 1..Len(r) : r[k] = Append(q, x)[i]
      <4>1. CASE i \in 1..Len(q)
        <5>1. Append(q, x)[i] = q[i] BY <4>1
        <5>2. PICK k \in 1..Len(p) : p[k] = q[i] BY <2>4, <3>1, <4>1, <5>1
        <5>3. k \in 1..Len(r) /\ r[k] = p[k] BY <3>1, <5>2
        <5>4. QED BY <5>1, <5>2, <5>3
      <4>2. CASE i = Len(q) + 1
        <5>1. Append(q, x)[i] = x BY <4>2
        <5>2. r = Append(p, x) BY <3>1, <5>1
        <5>3. Len(p) + 1 \in 1..Len(r) /\ r[Len(p) + 1] = x BY <5>2
        <5>4. QED BY <5>1, <5>3
      <4>3. i \in 1..Len(q) \/ i = Len(q) + 1 BY <2>1
      <4>4. QED BY <4>1, <4>2, <4>3
    <3>2. QED BY <3>1
  <2>5. Has(Append(q, x), Select(Append(q, x), S))
    <3> HIDE DEF Has
    <3>1. QED BY <2>1, <2>2, <2>3, <2>4
  <2>6. QED BY <2>1, <2>5
<1>3. Q = Seq(T)
  <2> HIDE DEF Q
  <2>1. Q \in SUBSET Seq(T) BY DEF Q
  <2>2. QED BY <1>1, <1>2, <2>1, SequenceInduction
<1>4. QED BY <1>3

(* What a sequence has once is left once.                                  *)
LEMMA SelectOnce ==
  ASSUME NEW T, NEW S
  PROVE  \A q \in Seq(T) :
           (\A i, j \in 1..Len(q) : q[i] = q[j] => i = j) =>
             \A k, l \in 1..Len(Select(q, S)) : Select(q, S)[k] = Select(q, S)[l] => k = l
<1> DEFINE Once(p) == \A i, j \in 1..Len(p) : p[i] = p[j] => i = j
           Q == {q \in Seq(T) : Once(q) => Once(Select(q, S))}
<1>1. <<>> \in Q
  <2>1. Once(Select(<<>>, S)) BY SelectEmpty
  <2>2. QED BY <2>1
<1>2. ASSUME NEW q \in Q, NEW x \in T PROVE Append(q, x) \in Q
  <2>1. q \in Seq(T) /\ Append(q, x) \in Seq(T) OBVIOUS
  <2>2. Select(q, S) \in Seq(T) BY <2>1, SelectSeqType
  <2>3. SUFFICES ASSUME Once(Append(q, x)) PROVE Once(Select(Append(q, x), S))
    BY <2>1
  <2>4. /\ \A i \in 1..Len(q) : i \in 1..Len(Append(q, x)) /\ Append(q, x)[i] = q[i] /\ i # Len(q) + 1
        /\ Len(q) + 1 \in 1..Len(Append(q, x)) /\ Append(q, x)[Len(q) + 1] = x
    BY <2>1
  <2>5. Once(q) /\ \A i \in 1..Len(q) : q[i] # x
    <3>1. Once(q) BY <2>3, <2>4
    <3>2. \A i \in 1..Len(q) : q[i] # x BY <2>3, <2>4
    <3>3. QED BY <3>1, <3>2
  <2>6. Once(Select(q, S)) BY <2>5
  <2>7. \A k \in 1..Len(Select(q, S)) : Select(q, S)[k] # x BY <2>1, <2>5, SelectMember
  <2>8. ASSUME NEW p \in Seq(T), Once(p), \A k \in 1..Len(p) : p[k] # x
        PROVE  Once(Append(p, x))
    <3>1. \A k \in 1..Len(Append(p, x)) :
            \/ k \in 1..Len(p) /\ Append(p, x)[k] = p[k]
            \/ k = Len(p) + 1 /\ Append(p, x)[k] = x
      BY <2>8
    <3>2. QED BY <2>8, <3>1
  <2>9. Select(Append(q, x), S) = IF x \in S THEN Append(Select(q, S), x) ELSE Select(q, S)
    BY <2>1, SelectAppend
  <2> HIDE DEF Once
  <2>10. QED BY <2>2, <2>6, <2>7, <2>8, <2>9
<1>3. Q = Seq(T)
  <2> HIDE DEF Q
  <2>1. Q \in SUBSET Seq(T) BY DEF Q
  <2>2. QED BY <1>1, <1>2, <2>1, SequenceInduction
<1>4. QED BY <1>3

-----------------------------------------------------------------------------
(* A set of naturals has a least element, and a greatest below a bound.    *)
LEMMA HasLeast ==
  ASSUME NEW S \in SUBSET Nat, S # {}
  PROVE  \E n \in S : \A m \in S : n <= m
<1> SUFFICES ASSUME \A n \in S : \E m \in S : m < n PROVE FALSE
  OBVIOUS
<1> DEFINE D == {n \in Nat : \A m \in S : n < m}
<1>1. 0 \in D
  <2>1. 0 \notin S OBVIOUS
  <2>2. QED BY <2>1
<1>2. ASSUME NEW n \in D PROVE n + 1 \in D
  <2>1. n + 1 \notin S OBVIOUS
  <2>2. QED BY <2>1
<1>3. D = Nat
  <2> HIDE DEF D
  <2>1. D \in SUBSET Nat BY DEF D
  <2>2. QED BY <1>1, <1>2, <2>1, SetInduction
<1>4. PICK n \in S : TRUE OBVIOUS
<1>5. n \in D BY <1>3, <1>4
<1>6. n < n BY <1>4, <1>5
<1>7. QED BY <1>4, <1>6

LEMMA HasGreatest ==
  ASSUME NEW b \in Nat, NEW S \in SUBSET (0..b), S # {}
  PROVE  \E n \in S : \A m \in S : m <= n
<1> DEFINE R == {b - n : n \in S}
<1>1. R \in SUBSET Nat /\ R # {}
  <2>1. PICK n \in S : TRUE OBVIOUS
  <2>2. b - n \in R BY <2>1
  <2>3. \A n1 \in S : b - n1 \in Nat OBVIOUS
  <2>4. QED BY <2>2, <2>3
<1>2. PICK r \in R : \A m \in R : r <= m
  <2> HIDE DEF R
  <2>1. QED BY <1>1, HasLeast
<1>3. PICK n \in S : r = b - n BY <1>2
<1>4. ASSUME NEW m \in S PROVE m <= n
  <2>1. b - m \in R OBVIOUS
  <2>2. b - n <= b - m BY <1>2, <1>3, <2>1
  <2>3. QED BY <2>2
<1>5. QED BY <1>3, <1>4
=============================================================================
