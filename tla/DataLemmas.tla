------------------------------ MODULE DataLemmas ------------------------------
(***************************************************************************)
(* Facts about finite sets of numbers, and about a queue from which one    *)
(* element is taken, that the proofs about the components cite.  They say  *)
(* nothing of a component.                                                 *)
(***************************************************************************)
EXTENDS Integers, FiniteSets, Sequences, SequencesExt,
        FiniteSetTheorems, SequenceTheorems, WellFoundedInduction, TLAPS

\* Every non-empty set of naturals has a least element: the induction the other
\* lemmas rest on.
LEMMA LeastNatural ==
    ASSUME NEW S, S \subseteq Nat, S # {}
    PROVE  \E x \in S : \A y \in S : x <= y
  <1>1. PICK x \in S : \A y \in S : ~ (<<y, x>> \in OpToRel(<, Nat))
    BY NatLessThanWellFounded, WFMin, Zenon
  <1>2. \A y \in S : ~ (y < x)
    BY <1>1, Zenon DEF OpToRel
  <1> QED
    BY <1>2

\* Every finite set of integers that is not empty has a greatest and a least
\* element.
LEMMA FiniteBounds ==
    ASSUME NEW S, S \subseteq Int, IsFiniteSet(S), S # {}
    PROVE  /\ \E x \in S : \A y \in S : x >= y
           /\ \E x \in S : \A y \in S : x <= y
  <1> DEFINE Bounded(T) == /\ \E x \in T : \A y \in T : x >= y
                           /\ \E x \in T : \A y \in T : x <= y
             Bad == {n \in Nat : \E T \in SUBSET S : Cardinality(T) = n /\ T # {} /\ ~ Bounded(T)}
  <1>1. SUFFICES Bad = {}
    <2>1. Cardinality(S) \in Nat
      BY FS_CardinalityType
    <2> QED
      BY <2>1
  <1>2. SUFFICES ASSUME Bad # {} PROVE FALSE
    OBVIOUS
  <1>3. PICK n \in Bad : \A m \in Bad : n <= m
    <2>1. Bad \subseteq Nat
      OBVIOUS
    <2> QED
      BY <1>2, <2>1, LeastNatural
  <1>4. PICK T \in SUBSET S : Cardinality(T) = n /\ T # {} /\ ~ Bounded(T)
    BY <1>3
  <1>5. PICK x \in T : TRUE
    BY <1>4
  <1>6. IsFiniteSet(T)
    BY FS_Subset
  <1>7. Cardinality(T \ {x}) = n - 1 /\ n - 1 \in Nat
    <2>1. Cardinality(T \ {x}) = n - 1
      BY <1>4, <1>5, <1>6, FS_RemoveElement
    <2>2. Cardinality(T \ {x}) \in Nat
      BY <1>6, FS_RemoveElement, FS_CardinalityType
    <2> QED
      BY <2>1, <2>2
  <1>8. CASE T \ {x} = {}
    <2>1. \A y \in T : y = x
      BY <1>8
    <2> QED
      BY <1>4, <1>5, <2>1
  <1>9. CASE T \ {x} # {}
    <2>1. n - 1 \notin Bad
      BY <1>3, <1>7
    <2>2. Bounded(T \ {x})
      BY <1>7, <1>9, <2>1
    <2>3. PICK a \in T \ {x} : \A y \in T \ {x} : a >= y
      BY <2>2
    <2>4. PICK b \in T \ {x} : \A y \in T \ {x} : b <= y
      BY <2>2
    <2>5. a \in Int /\ b \in Int /\ x \in Int /\ \A y \in T : y \in Int
      BY <1>5
    <2>6. \E c \in T : \A y \in T : c >= y
      <3>1. CASE a >= x
        BY <2>3, <2>5, <3>1
      <3>2. CASE x >= a
        <4>1. \A y \in T : x >= y
          BY <2>3, <2>5, <3>2
        <4> QED
          BY <1>5, <4>1
      <3> QED
        BY <2>5, <3>1, <3>2
    <2>7. \E c \in T : \A y \in T : c <= y
      <3>1. CASE b <= x
        BY <2>4, <2>5, <3>1
      <3>2. CASE x <= b
        <4>1. \A y \in T : x <= y
          BY <2>4, <2>5, <3>2
        <4> QED
          BY <1>5, <4>1
      <3> QED
        BY <2>5, <3>1, <3>2
    <2> QED
      BY <1>4, <2>6, <2>7
  <1> QED
    BY <1>8, <1>9

\* The values of a function on a finite set are finitely many.
LEMMA ImageIsFinite ==
    ASSUME NEW S, IsFiniteSet(S), NEW f
    PROVE  IsFiniteSet({f[x] : x \in S})
  <1> DEFINE g == [x \in S |-> f[x]]
             T == {f[x] : x \in S}
  <1>1. g \in [S -> T] /\ \A t \in T : \E x \in S : g[x] = t
    OBVIOUS
  <1>2. g \in Surjection(S, T)
    BY <1>1 DEF Surjection
  <1> QED
    BY <1>2, FS_Surjection

\* Max of FiniteSetsExt is the greatest element of such a set.
LEMMA MaxIsGreatest ==
    ASSUME NEW S, S \subseteq Int, IsFiniteSet(S), S # {}
    PROVE  Max(S) \in S /\ \A y \in S : y <= Max(S)
  <1>1. \E x \in S : \A y \in S : x >= y
    BY FiniteBounds
  <1>2. Max(S) \in S /\ \A y \in S : Max(S) >= y
    BY <1>1 DEF Max
  <1> QED
    BY <1>2

\* Min of FiniteSetsExt is its least element.
LEMMA MinIsLeast ==
    ASSUME NEW S, S \subseteq Int, IsFiniteSet(S), S # {}
    PROVE  Min(S) \in S /\ \A y \in S : Min(S) <= y
  <1>1. \E x \in S : \A y \in S : x <= y
    BY FiniteBounds
  <1> QED
    BY <1>1 DEF Min

\* Max of two numbers is the greater one.
LEMMA MaxOfTwo ==
    ASSUME NEW a \in Int, NEW b \in Int
    PROVE  Max({a, b}) = IF a >= b THEN a ELSE b
  <1>1. {a, b} \subseteq Int /\ IsFiniteSet({a, b}) /\ {a, b} # {}
    <2>1. IsFiniteSet({a} \cup {b}) /\ {a} \cup {b} = {a, b}
      BY FS_Singleton, FS_AddElement
    <2> QED
      BY <2>1
  <1>2. Max({a, b}) \in {a, b} /\ \A y \in {a, b} : y <= Max({a, b})
    BY <1>1, MaxIsGreatest
  <1> QED
    BY <1>2

-----------------------------------------------------------------------------
(* RemoveFirst on a queue that holds nothing twice. *)

\* The queue without its k-th element.
LEMMA RemovedAt ==
    \A S : \A q \in Seq(S) : \A k \in 1 .. Len(q) :
        /\ RemoveAt(q, k) \in Seq(S)
        /\ Len(RemoveAt(q, k)) = Len(q) - 1
        /\ \A i \in 1 .. Len(q) - 1 : RemoveAt(q, k)[i] = IF i < k THEN q[i] ELSE q[i + 1]
  <1> SUFFICES ASSUME NEW S, NEW q \in Seq(S), NEW n \in Nat, n = Len(q), NEW k \in 1 .. n
               PROVE  /\ RemoveAt(q, k) \in Seq(S)
                      /\ Len(RemoveAt(q, k)) = n - 1
                      /\ \A i \in 1 .. n - 1 : RemoveAt(q, k)[i] = IF i < k THEN q[i] ELSE q[i + 1]
    OBVIOUS
  <1> DEFINE a == SubSeq(q, 1, k - 1)
             b == SubSeq(q, k + 1, n)
             r == RemoveAt(q, k)
  <1>1. r = a \o b
    BY DEF RemoveAt
  <1>2. \A i \in 1 .. n : q[i] \in S
    OBVIOUS
  <1>3. /\ a \in Seq(S) /\ Len(a) = k - 1 /\ \A i \in 1 .. k - 1 : a[i] = q[i]
    <2>1. \A i \in 1 .. k - 1 : q[i] \in S
      BY <1>2
    <2>2. /\ a \in Seq(S)
          /\ Len(a) = IF 1 <= k - 1 THEN (k - 1) - 1 + 1 ELSE 0
          /\ \A i \in 1 .. (k - 1) - 1 + 1 : a[i] = q[1 + i - 1]
      BY <2>1, SubSeqProperties, 1 \in Int, k - 1 \in Int
    <2> HIDE DEF a
    <2>3. \A i \in 1 .. k - 1 : i \in 1 .. (k - 1) - 1 + 1 /\ 1 + i - 1 = i
      OBVIOUS
    <2> QED
      BY <2>2, <2>3
  <1>4. /\ b \in Seq(S) /\ Len(b) = n - k /\ \A i \in 1 .. n - k : b[i] = q[k + i]
    <2>1. \A i \in k + 1 .. n : q[i] \in S
      BY <1>2
    <2>2. /\ b \in Seq(S)
          /\ Len(b) = IF k + 1 <= n THEN n - (k + 1) + 1 ELSE 0
          /\ \A i \in 1 .. n - (k + 1) + 1 : b[i] = q[(k + 1) + i - 1]
      BY <2>1, SubSeqProperties, k + 1 \in Int, n \in Int
    <2> HIDE DEF b
    <2>3. \A i \in 1 .. n - k : i \in 1 .. n - (k + 1) + 1 /\ (k + 1) + i - 1 = k + i
      OBVIOUS
    <2> QED
      BY <2>2, <2>3
  <1> HIDE DEF a, b, r
  <1>5. /\ r \in Seq(S) /\ Len(r) = (k - 1) + (n - k)
        /\ \A i \in 1 .. (k - 1) + (n - k) : r[i] = IF i <= k - 1 THEN a[i] ELSE b[i - (k - 1)]
    <2>1. /\ a \o b \in Seq(S) /\ Len(a \o b) = Len(a) + Len(b)
          /\ \A i \in 1 .. Len(a) + Len(b) :
                (a \o b)[i] = IF i <= Len(a) THEN a[i] ELSE b[i - Len(a)]
      BY <1>3, <1>4, ConcatProperties
    <2> QED
      BY <1>1, <1>3, <1>4, <2>1
  <1>6. ASSUME NEW i \in 1 .. n - 1 PROVE r[i] = IF i < k THEN q[i] ELSE q[i + 1]
    <2>1. i \in 1 .. (k - 1) + (n - k) /\ (i <= k - 1 <=> i < k)
      OBVIOUS
    <2>2. CASE i < k
      <3>1. i \in 1 .. k - 1
        BY <2>2
      <3> QED
        BY <1>3, <1>5, <2>1, <2>2, <3>1
    <2>3. CASE ~ (i < k)
      <3>1. i - (k - 1) \in 1 .. n - k /\ k + (i - (k - 1)) = i + 1
        BY <2>3
      <3> QED
        BY <1>4, <1>5, <2>1, <2>3, <3>1
    <2> QED
      BY <2>2, <2>3
  <1>7. (k - 1) + (n - k) = n - 1
    OBVIOUS
  <1> QED
    BY <1>5, <1>6, <1>7 DEF r

\* The queue without t holds the others.
LEMMA RemovedFromQueue ==
    ASSUME NEW S, NEW q \in Seq(S), IsInjective(q), NEW t
    PROVE  /\ RemoveFirst(q, t) \in Seq(S)
           /\ IsInjective(RemoveFirst(q, t))
           /\ ToSet(RemoveFirst(q, t)) = ToSet(q) \ {t}
           /\ Len(RemoveFirst(q, t)) <= Len(q)
  <1> DEFINE r == RemoveFirst(q, t)
             n == Len(q)
  <1>1. /\ n \in Nat /\ DOMAIN q = 1 .. n
        /\ \A i, j \in 1 .. n : q[i] = q[j] => i = j
    BY DEF IsInjective
  <1>2. CASE \E i \in 1 .. n : q[i] = t
    <2> DEFINE I == {i \in 1 .. n : q[i] = t}
               k == Min(I)
    <2>1. k \in 1 .. n /\ q[k] = t
      <3>1. IsFiniteSet(1 .. n)
        BY <1>1, FS_Interval
      <3>2. IsFiniteSet(I) /\ I \subseteq Int /\ I # {}
        BY <1>1, <1>2, <3>1, FS_Subset
      <3> QED
        BY <3>2, MinIsLeast
    <2>2. SelectInSeq(q, LAMBDA v : v = t) = k
      BY <1>2 DEF SelectInSeq
    <2>3. r = RemoveAt(q, k)
      BY <1>2, <2>2 DEF RemoveFirst
    <2> HIDE DEF k, r, n
    <2>4. n = Len(q)
      BY DEF n
    <2>5. /\ r \in Seq(S) /\ Len(r) = n - 1
          /\ \A i \in 1 .. n - 1 : r[i] = IF i < k THEN q[i] ELSE q[i + 1]
      <3>1. /\ RemoveAt(q, k) \in Seq(S)
            /\ Len(RemoveAt(q, k)) = n - 1
            /\ \A i \in 1 .. n - 1 : RemoveAt(q, k)[i] = IF i < k THEN q[i] ELSE q[i + 1]
        BY <2>1, <2>4, RemovedAt
      <3> QED
        BY <2>3, <3>1
    <2>6. DOMAIN r = 1 .. n - 1
      BY <1>1, <2>1, <2>5
    <2>7. \A i \in 1 .. n - 1 : r[i] \in ToSet(q) /\ r[i] # t
      BY <1>1, <2>1, <2>5 DEF ToSet
    <2>8. ASSUME NEW j \in 1 .. n, q[j] # t PROVE \E i \in 1 .. n - 1 : r[i] = q[j]
      <3>1. CASE j < k
        <4>1. j \in 1 .. n - 1
          BY <1>1, <2>1, <3>1
        <4> QED
          BY <2>5, <3>1, <4>1
      <3>2. CASE j > k
        <4>1. j - 1 \in 1 .. n - 1 /\ ~ (j - 1 < k) /\ (j - 1) + 1 = j
          BY <1>1, <2>1, <3>2
        <4> QED
          BY <2>5, <4>1
      <3> QED
        BY <1>1, <2>1, <2>8, <3>1, <3>2
    <2>9. ToSet(r) = ToSet(q) \ {t}
      <3>1. \A x \in ToSet(r) : x \in ToSet(q) /\ x # t
        BY <2>6, <2>7 DEF ToSet
      <3>2. ASSUME NEW x \in ToSet(q), x # t PROVE x \in ToSet(r)
        <4>1. PICK j \in 1 .. n : x = q[j]
          BY <1>1 DEF ToSet
        <4>2. PICK i \in 1 .. n - 1 : r[i] = q[j]
          BY <2>8, <3>2, <4>1
        <4> QED
          BY <2>6, <4>1, <4>2 DEF ToSet
      <3> QED
        BY <3>1, <3>2
    <2>10. IsInjective(r)
      <3>1. ASSUME NEW i \in 1 .. n - 1, NEW j \in 1 .. n - 1, r[i] = r[j]
            PROVE  i = j
        <4> DEFINE f(x) == IF x < k THEN x ELSE x + 1
        <4>1. f(i) \in 1 .. n /\ f(j) \in 1 .. n /\ (f(i) = f(j) => i = j)
          BY <1>1, <2>1
        <4>2. r[i] = q[f(i)] /\ r[j] = q[f(j)]
          BY <2>5
        <4> HIDE DEF f
        <4> QED
          BY <1>1, <3>1, <4>1, <4>2
      <3> QED
        BY <2>6, <3>1 DEF IsInjective
    <2>11. Len(r) <= Len(q)
      BY <1>1, <2>4, <2>5
    <2> QED
      BY <2>5, <2>9, <2>10, <2>11 DEF r
  <1>3. CASE ~ \E i \in 1 .. n : q[i] = t
    <2>1. r = q
      BY <1>3 DEF RemoveFirst
    <2>2. t \notin ToSet(q)
      BY <1>1, <1>3 DEF ToSet
    <2> QED
      BY <1>1, <2>1, <2>2
  <1> QED
    BY <1>2, <1>3

\* The queue with t at its end.
LEMMA AppendedToQueue ==
    ASSUME NEW S, NEW q \in Seq(S), IsInjective(q), NEW t \in S, t \notin ToSet(q)
    PROVE  /\ Append(q, t) \in Seq(S)
           /\ IsInjective(Append(q, t))
           /\ ToSet(Append(q, t)) = ToSet(q) \cup {t}
  <1> DEFINE r == Append(q, t)
  <1>1. /\ Len(q) \in Nat /\ DOMAIN q = 1 .. Len(q)
        /\ \A i, j \in 1 .. Len(q) : q[i] = q[j] => i = j
        /\ \A i \in 1 .. Len(q) : q[i] # t
    BY DEF IsInjective, ToSet
  <1>2. /\ r \in Seq(S) /\ Len(r) = Len(q) + 1 /\ DOMAIN r = 1 .. Len(q) + 1
        /\ \A i \in 1 .. Len(q) + 1 : r[i] = IF i = Len(q) + 1 THEN t ELSE q[i]
    BY <1>1
  <1> HIDE DEF r
  <1>3. IsInjective(r)
    <2>1. ASSUME NEW i \in 1 .. Len(q) + 1, NEW j \in 1 .. Len(q) + 1, r[i] = r[j] PROVE i = j
      BY <1>1, <1>2, <2>1
    <2> QED
      BY <1>2, <2>1 DEF IsInjective
  <1>4. ToSet(r) = ToSet(q) \cup {t}
    <2>1. \A i \in 1 .. Len(q) + 1 : r[i] \in ToSet(q) \cup {t}
      BY <1>1, <1>2 DEF ToSet
    <2>2. \A i \in 1 .. Len(q) : i \in 1 .. Len(q) + 1 /\ r[i] = q[i]
      BY <1>1, <1>2
    <2>3. Len(q) + 1 \in 1 .. Len(q) + 1 /\ r[Len(q) + 1] = t
      BY <1>1, <1>2
    <2> QED
      BY <1>1, <1>2, <2>1, <2>2, <2>3 DEF ToSet
  <1> QED
    BY <1>2, <1>3, <1>4 DEF r
=============================================================================
