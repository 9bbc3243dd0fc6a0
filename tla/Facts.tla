-------------------------------- MODULE Facts ---------------------------------
(***************************************************************************)
(* Facts about numbers, finite sets and sequences that the proofs about    *)
(* several modules rest on.  Induction is stated for a set of numbers.     *)
(***************************************************************************)
EXTENDS Integers, Sequences, SequencesExt, FiniteSetsExt, FiniteSetTheorems,
        SequenceTheorems, TLAPS

(* A set of numbers that is not empty has a least one: what the set holds up *)
(* to one of its elements is finite, and one of these finite sets is within  *)
(* all others.                                                               *)
LEMMA LeastNumber ==
    ASSUME NEW S \in SUBSET Nat, S # {}
    PROVE  \E n \in S : \A m \in S : n <= m
<1> DEFINE UpTo(k) == S \cap 0 .. k
           Parts == {UpTo(k) : k \in S}
<1>1. Parts \subseteq FiniteSubsetsOf(Nat) /\ Parts # {}
  <2>1. ASSUME NEW k \in S PROVE IsFiniteSet(UpTo(k))
    <3>1. IsFiniteSet(0 .. k)
      BY FS_Interval
    <3>2. QED
      BY <3>1, FS_Intersection
  <2>2. QED
    BY <2>1 DEF FiniteSubsetsOf
<1>2. PICK B \in Parts : \A C \in Parts : <<C, B>> \notin StrictSubsetOrdering(Nat)
  <2>1. IsWellFoundedOn(StrictSubsetOrdering(Nat), FiniteSubsetsOf(Nat))
    BY FS_StrictSubsetOrderingWellFounded
  <2> HIDE DEF Parts
  <2>2. QED
    BY <1>1, <2>1, WFMin
<1>3. PICK n \in S : B = UpTo(n)
  BY <1>2
<1>4. ASSUME NEW m \in S, m < n PROVE FALSE
  <2>1. n \in UpTo(n) /\ n \notin UpTo(m) /\ UpTo(m) \subseteq UpTo(n)
    BY <1>4
  <2>2. UpTo(m) \in Parts /\ UpTo(m) \in SUBSET Nat /\ UpTo(n) \in SUBSET Nat
    OBVIOUS
  <2> HIDE DEF UpTo
  <2>3. <<UpTo(m), UpTo(n)>> \in StrictSubsetOrdering(Nat)
    BY <2>1, <2>2 DEF StrictSubsetOrdering
  <2>4. QED
    BY <1>2, <1>3, <2>2, <2>3
<1>5. QED
  BY <1>4

(* Induction: a set of numbers with 0 in it and the successor of each of its *)
(* elements is all of them.                                                  *)
LEMMA InductionOverNat ==
    ASSUME NEW S \in SUBSET Nat, 0 \in S, \A n \in S : n + 1 \in S
    PROVE  \A n \in Nat : n \in S
<1>1. ASSUME Nat \ S # {} PROVE FALSE
  <2>1. PICK n \in Nat \ S : \A m \in Nat \ S : n <= m
    <3> DEFINE Rest == Nat \ S
    <3>1. Rest \in SUBSET Nat /\ Rest # {}
      BY <1>1
    <3> HIDE DEF Rest
    <3>2. PICK n \in Rest : \A m \in Rest : n <= m
      BY <3>1, LeastNumber
    <3>3. QED
      BY <3>2 DEF Rest
  <2>2. n # 0 /\ n - 1 \in S
    BY <2>1
  <2>3. QED
    BY <2>1, <2>2
<1>2. QED
  BY <1>1

(* Division of numbers, and what it gives back                               *)
LEMMA Division ==
    ASSUME NEW b \in Nat \ {0}, NEW x \in Nat
    PROVE  /\ x \div b \in Nat /\ x % b \in 0 .. b - 1
           /\ x = (x \div b) * b + (x % b)
OBVIOUS

(* A digit that is appended is the one that is taken off.                    *)
LEMMA LastDigit ==
    ASSUME NEW b \in Nat \ {0}, NEW x \in Nat, NEW d \in 0 .. b - 1
    PROVE  /\ x * b \in Nat /\ x * b + d \in Nat
           /\ (x * b + d) \div b = x /\ (x * b + d) % b = d
<1>1. x * b \in Nat /\ x * b + d \in Nat
  OBVIOUS
<1> DEFINE y == x * b + d
           q == y \div b
           r == y % b
<1>2. q \in Nat /\ r \in 0 .. b - 1 /\ y = q * b + r
  BY <1>1, Division
<1>3. ASSUME NEW m \in Nat, NEW n \in Nat, m < n, NEW c \in 0 .. b - 1, NEW e \in 0 .. b - 1
      PROVE  m * b + c < n * b + e
  <2>1. PICK k \in Nat : n = m + 1 + k
    <3>1. n - m - 1 \in Nat /\ n = m + 1 + (n - m - 1)
      BY <1>3
    <3>2. QED
      BY <3>1
  <2>2. n * b = m * b + b + k * b /\ k * b \in Nat /\ m * b \in Nat
    BY <2>1
  <2>3. QED
    BY <2>2
<1> HIDE DEF q, r
<1>4. q = x
  <2>1. ~(q < x) /\ ~(x < q)
    BY <1>2, <1>3
  <2>2. QED
    BY <1>2, <2>1
<1>5. r = d
  BY <1>1, <1>2, <1>4
<1>6. QED
  BY <1>1, <1>4, <1>5 DEF q, r

(* A finite set of integers that is not empty has a largest and a smallest   *)
(* one, and Max and Min are they.                                            *)
LEMMA FiniteHasBounds ==
    ASSUME NEW S \in SUBSET Int, IsFiniteSet(S), S # {}
    PROVE  /\ \E x \in S : \A y \in S : x >= y
           /\ \E x \in S : \A y \in S : x <= y
<1> DEFINE Bounded(T) == /\ \E x \in T : \A y \in T : x >= y
                         /\ \E x \in T : \A y \in T : x <= y
           Good == {n \in Nat : \A T \in SUBSET S :
                      IsFiniteSet(T) /\ Cardinality(T) = n + 1 => Bounded(T)}
<1>1. 0 \in Good
  <2>1. ASSUME NEW T \in SUBSET S, IsFiniteSet(T), Cardinality(T) = 0 + 1
        PROVE  Bounded(T)
    <3>1. PICK x : T = {x}
      <4>1. Cardinality(T) = 1
        BY <2>1
      <4>2. QED
        BY <2>1, <4>1, FS_Singleton, Zenon
    <3>2. QED
      BY <3>1
  <2> HIDE DEF Bounded
  <2>2. QED
    BY <2>1
<1>2. ASSUME NEW n \in Good PROVE n + 1 \in Good
  <2>1. ASSUME NEW T \in SUBSET S, IsFiniteSet(T),
               Cardinality(T) = n + 1 + 1
        PROVE  Bounded(T)
    <3>1. PICK e \in T : TRUE
      <4>1. Cardinality(T) # 0
        BY <2>1
      <4>2. QED
        BY <4>1, FS_EmptySet, Zenon
    <3>2. /\ IsFiniteSet(T \ {e}) /\ Cardinality(T \ {e}) = n + 1
          /\ T \ {e} \in SUBSET S
      BY <2>1, <3>1, FS_RemoveElement
    <3>3. Bounded(T \ {e})
      BY <1>2, <3>2
    <3>4. PICK high \in T \ {e} : \A y \in T \ {e} : high >= y
      BY <3>3
    <3>5. PICK low \in T \ {e} : \A y \in T \ {e} : low <= y
      BY <3>3
    <3>6. \E x \in T : \A y \in T : x >= y
      <4>1. CASE e >= high
        BY <3>1, <3>4, <4>1
      <4>2. CASE ~(e >= high)
        BY <3>1, <3>4, <4>2
      <4>3. QED
        BY <4>1, <4>2
    <3>7. \E x \in T : \A y \in T : x <= y
      <4>1. CASE e <= low
        BY <3>1, <3>5, <4>1
      <4>2. CASE ~(e <= low)
        BY <3>1, <3>5, <4>2
      <4>3. QED
        BY <4>1, <4>2
    <3>8. QED
      BY <3>6, <3>7
  <2> HIDE DEF Bounded
  <2>2. QED
    BY <2>1
<1>3. \A n \in Nat : n \in Good
  <2>1. Good \in SUBSET Nat
    OBVIOUS
  <2> HIDE DEF Good
  <2>2. QED
    BY <1>1, <1>2, <2>1, InductionOverNat
<1>4. Cardinality(S) \in Nat /\ Cardinality(S) - 1 \in Nat
  <2>1. Cardinality(S) \in Nat /\ Cardinality(S) # 0
    BY FS_CardinalityType, FS_EmptySet, Zenon
  <2>2. QED
    BY <2>1
<1>5. Cardinality(S) - 1 \in Good
  BY <1>3, <1>4
<1>6. Bounded(S)
  <2> HIDE DEF Bounded
  <2>1. Cardinality(S) = (Cardinality(S) - 1) + 1
    BY <1>4
  <2>2. QED
    BY <1>5, <2>1
<1>7. QED
  BY <1>6

LEMMA MaxIsLargest ==
    ASSUME NEW S \in SUBSET Int, IsFiniteSet(S), S # {}
    PROVE  Max(S) \in S /\ \A y \in S : Max(S) >= y
BY FiniteHasBounds DEF Max

LEMMA MinIsSmallest ==
    ASSUME NEW S \in SUBSET Int, IsFiniteSet(S), S # {}
    PROVE  Min(S) \in S /\ \A y \in S : Min(S) <= y
BY FiniteHasBounds DEF Min

(* The elements of a sequence, as of any function of 1 .. n, are finite.     *)
LEMMA ValuesAreFinite ==
    ASSUME NEW n \in Nat, NEW T \in SUBSET (1 .. n), NEW f
    PROVE  IsFiniteSet({f[k] : k \in T})
<1> DEFINE U == {f[k] : k \in T}
           g == [k \in T |-> f[k]]
<1>1. IsFiniteSet(T)
  <2>1. IsFiniteSet(1 .. n)
    BY FS_Interval
  <2>2. QED
    BY <2>1, FS_Subset
<1>2. g \in Surjection(T, U)
  BY DEF Surjection
<1> HIDE DEF U, g
<1>3. QED
  <2>1. IsFiniteSet(U)
    BY <1>1, <1>2, FS_Surjection
  <2>2. QED
    BY <2>1 DEF U

(* How much there is of 1 .. n that has a property grows by one with every   *)
(* number that has it, and by nothing with any other.                        *)
LEMMA CountTypes ==
    ASSUME NEW n \in Int, NEW P
    PROVE  /\ IsFiniteSet(P \cap 1 .. n)
           /\ Cardinality(P \cap 1 .. n) \in Nat
<1>1. IsFiniteSet(1 .. n)
  BY FS_Interval
<1>2. IsFiniteSet(P \cap 1 .. n)
  BY <1>1, FS_Intersection
<1>3. QED
  BY <1>2, FS_CardinalityType

LEMMA CountGrows ==
    ASSUME NEW m \in Nat, NEW n \in Nat, m < n, NEW P, n \in P
    PROVE  Cardinality(P \cap 1 .. m) < Cardinality(P \cap 1 .. n)
<1> DEFINE S == P \cap 1 .. m
           T == P \cap 1 .. n
<1>1. /\ IsFiniteSet(T) /\ Cardinality(T) \in Nat /\ Cardinality(S) \in Nat
  BY CountTypes
<1>2. S \in SUBSET T /\ S # T
  <2>1. n \in T /\ n \notin S
    OBVIOUS
  <2>2. S \subseteq T
    OBVIOUS
  <2>3. QED
    BY <2>1, <2>2
<1> HIDE DEF S, T
<1>3. Cardinality(S) <= Cardinality(T) /\ Cardinality(S) # Cardinality(T)
  BY <1>1, <1>2, FS_Subset, Zenon
<1>4. Cardinality(S) < Cardinality(T)
  BY <1>1, <1>3
<1>5. QED
  BY <1>4 DEF S, T

(* Inserting into a sequence and removing from it.                           *)
LEMMA InsertAtProperties ==
    ASSUME NEW S, NEW s \in Seq(S), NEW n \in 1 .. Len(s) + 1, NEW e \in S
    PROVE  /\ InsertAt(s, n, e) \in Seq(S)
           /\ Len(InsertAt(s, n, e)) = Len(s) + 1
           /\ \A k \in 1 .. Len(s) + 1 :
                 InsertAt(s, n, e)[k] = IF k < n THEN s[k]
                                        ELSE IF k = n THEN e ELSE s[k - 1]
<1> DEFINE a == SubSeq(s, 1, n - 1)
           b == <<e>>
           c == SubSeq(s, n, Len(s))
<1>1. Len(s) \in Nat /\ \A k \in 1 .. Len(s) : s[k] \in S
  BY ElementOfSeq
<1>2. /\ a \in Seq(S) /\ Len(a) = n - 1
      /\ \A k \in 1 .. n - 1 : a[k] = s[k]
  <2>1. \A k \in 1 .. n - 1 : s[k] \in S
    BY <1>1
  <2>2. 1 \in Int /\ n - 1 \in Int
    BY <1>1
  <2>3. /\ a \in Seq(S)
        /\ Len(a) = IF 1 <= n - 1 THEN n - 1 - 1 + 1 ELSE 0
        /\ \A k \in 1 .. n - 1 - 1 + 1 : a[k] = s[1 + k - 1]
    BY <2>1, <2>2, SubSeqProperties
  <2> HIDE DEF a
  <2>4. QED
    BY <2>3, <1>1
<1>3. /\ c \in Seq(S) /\ Len(c) = Len(s) - n + 1
      /\ \A k \in 1 .. Len(s) - n + 1 : c[k] = s[n + k - 1]
  <2>1. \A k \in n .. Len(s) : s[k] \in S
    BY <1>1
  <2>2. n \in Int /\ Len(s) \in Int
    BY <1>1
  <2>3. /\ c \in Seq(S)
        /\ Len(c) = IF n <= Len(s) THEN Len(s) - n + 1 ELSE 0
        /\ \A k \in 1 .. Len(s) - n + 1 : c[k] = s[n + k - 1]
    BY <2>1, <2>2, SubSeqProperties
  <2> HIDE DEF c
  <2>4. QED
    BY <2>3, <1>1
<1>4. b \in Seq(S) /\ Len(b) = 1 /\ b[1] = e
  OBVIOUS
<1> HIDE DEF a, b, c
<1>5. /\ a \o b \in Seq(S) /\ Len(a \o b) = n
      /\ \A k \in 1 .. n : (a \o b)[k] = IF k <= n - 1 THEN a[k] ELSE b[k - (n - 1)]
  <2>1. /\ a \o b \in Seq(S) /\ Len(a \o b) = Len(a) + Len(b)
        /\ \A k \in 1 .. Len(a) + Len(b) :
              (a \o b)[k] = IF k <= Len(a) THEN a[k] ELSE b[k - Len(a)]
    BY <1>2, <1>4, ConcatProperties
  <2>2. Len(a) + Len(b) = n
    BY <1>2, <1>4
  <2>3. QED
    BY <1>2, <2>1, <2>2
<1>6. /\ (a \o b) \o c \in Seq(S) /\ Len((a \o b) \o c) = Len(s) + 1
      /\ \A k \in 1 .. Len(s) + 1 : ((a \o b) \o c)[k] =
             IF k <= n THEN (a \o b)[k] ELSE c[k - n]
  <2> DEFINE d == a \o b
  <2> HIDE DEF d
  <2>1. d \in Seq(S) /\ Len(d) = n
    BY <1>5 DEF d
  <2>2. /\ d \o c \in Seq(S) /\ Len(d \o c) = Len(d) + Len(c)
        /\ \A k \in 1 .. Len(d) + Len(c) :
              (d \o c)[k] = IF k <= Len(d) THEN d[k] ELSE c[k - Len(d)]
    BY <1>3, <2>1, ConcatProperties
  <2>3. Len(d) + Len(c) = Len(s) + 1
    BY <1>1, <1>3, <2>1
  <2>4. QED
    BY <2>1, <2>2, <2>3 DEF d
<1>7. \A k \in 1 .. Len(s) + 1 : ((a \o b) \o c)[k] =
          IF k < n THEN s[k] ELSE IF k = n THEN e ELSE s[k - 1]
  <2> SUFFICES ASSUME NEW k \in 1 .. Len(s) + 1
               PROVE  ((a \o b) \o c)[k] =
                        IF k < n THEN s[k] ELSE IF k = n THEN e ELSE s[k - 1]
    OBVIOUS
  <2>1. CASE k < n
    BY <1>1, <1>2, <1>5, <1>6, <2>1
  <2>2. CASE k = n
    <3>1. ((a \o b) \o c)[k] = (a \o b)[n] /\ (a \o b)[n] = b[n - (n - 1)]
      BY <1>1, <1>5, <1>6, <2>2
    <3>2. n - (n - 1) = 1
      BY <1>1
    <3>3. QED
      BY <1>4, <2>2, <3>1, <3>2
  <2>3. CASE k > n
    <3>1. k - n \in 1 .. Len(s) - n + 1 /\ n + (k - n) - 1 = k - 1
      BY <1>1, <2>3
    <3>2. ((a \o b) \o c)[k] = c[k - n]
      <4>1. ~(k <= n)
        BY <1>1, <2>3
      <4>2. QED
        BY <1>6, <4>1, Zenon
    <3>3. QED
      BY <1>1, <1>3, <2>3, <3>1, <3>2
  <2>4. k < n \/ k = n \/ k > n
    BY <1>1
  <2>5. QED
    BY <2>1, <2>2, <2>3, <2>4, Zenon
<1>8. InsertAt(s, n, e) = (a \o b) \o c
  BY DEF InsertAt, a, b, c
<1>9. QED
  BY <1>6, <1>7, <1>8

LEMMA RemoveAtProperties ==
    ASSUME NEW S, NEW s \in Seq(S), NEW n \in 1 .. Len(s)
    PROVE  /\ RemoveAt(s, n) \in Seq(S)
           /\ Len(RemoveAt(s, n)) = Len(s) - 1
           /\ \A k \in 1 .. Len(s) - 1 :
                 RemoveAt(s, n)[k] = IF k < n THEN s[k] ELSE s[k + 1]
<1> DEFINE a == SubSeq(s, 1, n - 1)
           c == SubSeq(s, n + 1, Len(s))
<1>1. Len(s) \in Nat /\ \A k \in 1 .. Len(s) : s[k] \in S
  BY ElementOfSeq
<1>2. /\ a \in Seq(S) /\ Len(a) = n - 1
      /\ \A k \in 1 .. n - 1 : a[k] = s[k]
  <2>1. \A k \in 1 .. n - 1 : s[k] \in S
    BY <1>1
  <2>2. 1 \in Int /\ n - 1 \in Int
    BY <1>1
  <2>3. /\ a \in Seq(S)
        /\ Len(a) = IF 1 <= n - 1 THEN n - 1 - 1 + 1 ELSE 0
        /\ \A k \in 1 .. n - 1 - 1 + 1 : a[k] = s[1 + k - 1]
    BY <2>1, <2>2, SubSeqProperties
  <2> HIDE DEF a
  <2>4. QED
    BY <2>3, <1>1
<1>3. /\ c \in Seq(S) /\ Len(c) = Len(s) - n
      /\ \A k \in 1 .. Len(s) - n : c[k] = s[n + k]
  <2>1. \A k \in n + 1 .. Len(s) : s[k] \in S
    BY <1>1
  <2>2. n + 1 \in Int /\ Len(s) \in Int
    BY <1>1
  <2>3. /\ c \in Seq(S)
        /\ Len(c) = IF n + 1 <= Len(s) THEN Len(s) - (n + 1) + 1 ELSE 0
        /\ \A k \in 1 .. Len(s) - (n + 1) + 1 : c[k] = s[n + 1 + k - 1]
    BY <2>1, <2>2, SubSeqProperties
  <2> HIDE DEF c
  <2>4. QED
    BY <2>3, <1>1
<1> HIDE DEF a, c
<1>4. /\ a \o c \in Seq(S) /\ Len(a \o c) = Len(s) - 1
      /\ \A k \in 1 .. Len(s) - 1 :
            (a \o c)[k] = IF k <= n - 1 THEN a[k] ELSE c[k - (n - 1)]
  BY <1>1, <1>2, <1>3, ConcatProperties
<1>5. \A k \in 1 .. Len(s) - 1 :
          (a \o c)[k] = IF k < n THEN s[k] ELSE s[k + 1]
  <2> SUFFICES ASSUME NEW k \in 1 .. Len(s) - 1
               PROVE  (a \o c)[k] = IF k < n THEN s[k] ELSE s[k + 1]
    OBVIOUS
  <2>1. CASE k < n
    BY <1>1, <1>2, <1>4, <2>1
  <2>2. CASE k >= n
    <3>1. k - (n - 1) \in 1 .. Len(s) - n /\ n + (k - (n - 1)) = k + 1
      BY <1>1, <2>2
    <3>2. (a \o c)[k] = c[k - (n - 1)]
      BY <1>1, <1>4, <2>2
    <3>3. QED
      BY <1>1, <1>3, <2>2, <3>1, <3>2
  <2>3. k < n \/ k >= n
    BY <1>1
  <2>4. QED
    BY <2>1, <2>2, <2>3, Zenon
<1>6. RemoveAt(s, n) = a \o c
  BY DEF RemoveAt, a, c
<1>7. QED
  BY <1>4, <1>5, <1>6

(* What is left of t can give its first element to s.                        *)
LEMMA HeadMovesOver ==
    ASSUME NEW S, NEW s \in Seq(S), NEW t \in Seq(S), t # <<>>
    PROVE  s \o t = Append(s, Head(t)) \o Tail(t)
<1>1. /\ Head(t) \in S /\ Tail(t) \in Seq(S) /\ Len(Tail(t)) = Len(t) - 1
      /\ \A i \in 1 .. Len(Tail(t)) : Tail(t)[i] = t[i + 1]
      /\ Len(t) \in Nat \ {0}
  BY HeadTailProperties, EmptySeq
<1> DEFINE h == Head(t)
           one == <<h>>
           u == one \o Tail(t)
<1>2. one \in Seq(S) /\ Len(one) = 1 /\ one[1] = h /\ h = t[1]
  BY <1>1
<1>3. /\ u \in Seq(S) /\ Len(u) = Len(one) + Len(Tail(t))
      /\ \A i \in 1 .. Len(one) + Len(Tail(t)) :
            u[i] = IF i <= Len(one) THEN one[i] ELSE Tail(t)[i - Len(one)]
  <2> HIDE DEF one
  <2>1. QED
    BY <1>1, <1>2, ConcatProperties
<1> HIDE DEF one, u, h
<1>4. u = t
  <2>1. Len(u) = Len(t)
    BY <1>1, <1>2, <1>3
  <2>2. ASSUME NEW i \in 1 .. Len(t) PROVE u[i] = t[i]
    <3>1. \/ i = 1
          \/ i - 1 \in 1 .. Len(Tail(t)) /\ i - 1 + 1 = i /\ ~(i <= 1)
      BY <1>1
    <3>2. i \in 1 .. Len(one) + Len(Tail(t))
      BY <1>1, <1>2
    <3>3. CASE i = 1
      BY <1>2, <1>3, <3>2, <3>3
    <3>4. CASE i - 1 \in 1 .. Len(Tail(t)) /\ i - 1 + 1 = i /\ ~(i <= 1)
      <4>1. u[i] = Tail(t)[i - 1]
        BY <1>2, <1>3, <3>2, <3>4
      <4>2. Tail(t)[i - 1] = t[i - 1 + 1]
        BY <1>1, <3>4
      <4>3. QED
        BY <3>4, <4>1, <4>2
    <3>5. QED
      BY <3>1, <3>3, <3>4
  <2>3. QED
    BY <1>3, <2>1, <2>2, SeqEqual
<1>5. (s \o one) \o Tail(t) = s \o u
  BY <1>1, <1>2, ConcatAssociative DEF u
<1>6. Append(s, h) = s \o one
  BY <1>1, AppendIsConcat DEF one, h
<1>7. QED
  BY <1>4, <1>5, <1>6 DEF h

------------------------------------------------------------------------------
(* Recursion *)

(* f has what a function step makes of a value again and again, for n times. *)
Iterates(f, S, base, n, step) ==
    /\ f \in [0 .. n -> S]
    /\ f[0] = base
    /\ \A k \in 1 .. n : f[k] = step[k][f[k - 1]]

LEMMA RecursionExists ==
    ASSUME NEW S, NEW base \in S, NEW n \in Nat, NEW step \in [1 .. n -> [S -> S]]
    PROVE  \E f : Iterates(f, S, base, n, step)
<1> DEFINE Follows(f, m) == /\ f \in [0 .. m -> S] /\ f[0] = base
                            /\ \A k \in 1 .. m : f[k] = step[k][f[k - 1]]
           Good == {m \in Nat : m <= n => \E f : Follows(f, m)}
<1>1. 0 \in Good
  <2>1. Follows([k \in 0 .. 0 |-> base], 0)
    OBVIOUS
  <2> HIDE DEF Follows
  <2>2. QED
    BY <2>1
<1>2. ASSUME NEW m \in Nat, m + 1 <= n, \E f : Follows(f, m)
      PROVE  \E f : Follows(f, m + 1)
  <2>1. m <= n /\ m + 1 \in 1 .. n
    BY <1>2
  <2>2. PICK f : Follows(f, m)
    BY <1>2
  <2> DEFINE new == step[m + 1][f[m]]
             g == [k \in 0 .. m + 1 |-> IF k = m + 1 THEN new ELSE f[k]]
  <2>3. m \in 0 .. m /\ f[m] \in S
    BY <2>1, <2>2
  <2>4. new \in S
    BY <2>1, <2>3
  <2> HIDE DEF new
  <2>5. ASSUME NEW k \in 0 .. m + 1 PROVE k \in 0 .. m \/ k = m + 1
    BY <2>1
  <2>6. g \in [0 .. m + 1 -> S]
    BY <2>2, <2>4, <2>5
  <2>7. g[0] = base
    BY <2>1, <2>2
  <2>8. ASSUME NEW k \in 1 .. m + 1 PROVE g[k] = step[k][g[k - 1]]
    <3>1. k - 1 \in 0 .. m + 1 /\ k - 1 # m + 1 /\ k \in 0 .. m + 1
      BY <2>1
    <3>2. g[k - 1] = f[k - 1]
      BY <3>1
    <3>3. CASE k = m + 1
      <4>1. g[k] = new /\ k - 1 = m
        BY <2>1, <3>1, <3>3
      <4>2. QED
        BY <3>2, <3>3, <4>1 DEF new
    <3>4. CASE k # m + 1
      <4>1. g[k] = f[k] /\ k \in 1 .. m
        BY <2>1, <3>1, <3>4
      <4>2. QED
        BY <2>2, <3>2, <4>1
    <3>5. QED
      BY <3>3, <3>4
  <2> HIDE DEF g
  <2>9. QED
    BY <2>6, <2>7, <2>8
<1> HIDE DEF Follows
<1>3. n \in Good
  <2>0. ASSUME NEW m \in Good PROVE m + 1 \in Good
    <3>1. m + 1 <= n => m <= n
      OBVIOUS
    <3>2. QED
      BY <1>2, <3>1
  <2> HIDE DEF Good
  <2>1. Good \in SUBSET Nat
    BY DEF Good
  <2>2. QED
    BY <1>1, <2>0, <2>1, InductionOverNat
<1>4. \E f : Follows(f, n)
  BY <1>3
<1>5. QED
  BY <1>4 DEF Follows, Iterates

(* The loop in FlattenSeq                                                    *)
FlattenLoop(flatten, seqs) ==
    flatten = [i \in 1 .. Len(seqs) |->
                 IF i = 1 THEN seqs[i] ELSE flatten[i - 1] \o seqs[i]]

(* A sequence of sequences that is flattened: starts has how much there is   *)
(* ahead of each of them.                                                    *)
Flattened(seqs, starts, flat) ==
    /\ starts \in [1 .. Len(seqs) + 1 -> Nat]
    /\ starts[1] = 0
    /\ \A i \in 1 .. Len(seqs) : starts[i + 1] = starts[i] + Len(seqs[i])
    /\ Len(flat) = starts[Len(seqs) + 1]
    /\ \A i \in 1 .. Len(seqs), k \in Nat :
          k \in 1 .. Len(seqs[i]) =>
             /\ starts[i] + k \in 1 .. Len(flat)
             /\ flat[starts[i] + k] = seqs[i][k]

LEMMA FlattenLoopExists ==
    ASSUME NEW S, NEW seqs \in Seq(Seq(S)), Len(seqs) # 0
    PROVE  \E flatten : FlattenLoop(flatten, seqs)
<1> DEFINE n == Len(seqs)
           step == [k \in 1 .. n |-> [x \in Seq(S) |-> x \o seqs[k]]]
<1>1. /\ n \in Nat /\ \A k \in 1 .. n : seqs[k] \in Seq(S)
  OBVIOUS
<1>2. step \in [1 .. n -> [Seq(S) -> Seq(S)]]
  BY <1>1, ConcatProperties
<1>3. <<>> \in Seq(S)
  BY EmptySeq
<1> HIDE DEF step
<1>4. PICK f : Iterates(f, Seq(S), <<>>, n, step)
  BY <1>1, <1>2, <1>3, RecursionExists
<1> HIDE DEF n
<1>5. ASSUME NEW k \in 1 .. n
      PROVE  f[k] = IF k = 1 THEN seqs[k] ELSE f[k - 1] \o seqs[k]
  <2>1. k - 1 \in 0 .. n
    BY <1>1
  <2>2. f[k] = f[k - 1] \o seqs[k]
    BY <1>4, <2>1 DEF step, Iterates
  <2>3. CASE k = 1
    <3>1. f[k - 1] = <<>>
      BY <1>4, <2>3 DEF Iterates
    <3>2. <<>> \o seqs[k] = seqs[k]
      BY <1>1, ConcatEmptySeq
    <3>3. QED
      BY <2>2, <2>3, <3>1, <3>2
  <2>4. QED
    BY <2>2, <2>3
<1> DEFINE g == [k \in 1 .. n |-> f[k]]
<1>6. ASSUME NEW k \in 1 .. n
      PROVE  g[k] = IF k = 1 THEN seqs[k] ELSE g[k - 1] \o seqs[k]
  <2>1. k = 1 \/ k - 1 \in 1 .. n
    BY <1>1
  <2>2. QED
    BY <1>5, <2>1
<1>7. g = [k \in 1 .. n |-> IF k = 1 THEN seqs[k] ELSE g[k - 1] \o seqs[k]]
  <2> DEFINE h == [k \in 1 .. n |-> IF k = 1 THEN seqs[k] ELSE g[k - 1] \o seqs[k]]
  <2>1. \A k \in 1 .. n : g[k] = h[k]
    BY <1>6
  <2>2. QED
    BY <2>1
<1>8. QED
  BY <1>7 DEF FlattenLoop, n

(* The loop goes through the sequences one by one.                           *)
LEMMA FlattenLoopFlattens ==
    ASSUME NEW S, NEW seqs \in Seq(Seq(S)), Len(seqs) # 0,
           NEW flatten, FlattenLoop(flatten, seqs)
    PROVE  /\ flatten[Len(seqs)] \in Seq(S)
           /\ \E starts : Flattened(seqs, starts, flatten[Len(seqs)])
<1> DEFINE n == Len(seqs)
           starts == [i \in 1 .. n + 1 |-> IF i = 1 THEN 0 ELSE Len(flatten[i - 1])]
           Placed(i) ==
              /\ flatten[i] \in Seq(S)
              /\ starts[i + 1] = starts[i] + Len(seqs[i])
              /\ starts[i] \in Nat /\ starts[i + 1] \in Nat
              /\ Len(flatten[i]) = starts[i + 1]
              /\ \A j \in 1 .. i, k \in Nat :
                    k \in 1 .. Len(seqs[j]) =>
                       /\ starts[j] + k \in 1 .. Len(flatten[i])
                       /\ flatten[i][starts[j] + k] = seqs[j][k]
<1>1. /\ n \in Nat /\ n >= 1 /\ \A k \in 1 .. n : seqs[k] \in Seq(S) /\ Len(seqs[k]) \in Nat
  <2>1. \A k \in 1 .. n : seqs[k] \in Seq(S)
    OBVIOUS
  <2>2. \A k \in 1 .. n : Len(seqs[k]) \in Nat
    BY <2>1, LenProperties
  <2>3. n \in Nat /\ n # 0
    OBVIOUS
  <2> HIDE DEF n
  <2>4. QED
    BY <2>1, <2>2, <2>3
<1>2. \A k \in 1 .. n :
         flatten[k] = IF k = 1 THEN seqs[k] ELSE flatten[k - 1] \o seqs[k]
  BY Zenon DEF FlattenLoop
<1> HIDE DEF n
<1>3. /\ starts[1] = 0
      /\ \A i \in 1 .. n : starts[i + 1] = Len(flatten[i])
  <2>1. 1 \in 1 .. n + 1
    BY <1>1
  <2>2. \A i \in 1 .. n : i + 1 \in 1 .. n + 1 /\ i + 1 # 1 /\ (i + 1) - 1 = i
    BY <1>1
  <2>3. QED
    BY <2>1, <2>2
<1>4. DOMAIN starts = 1 .. n + 1
  OBVIOUS
<1> HIDE DEF starts
<1>5. Placed(1)
  <2>1. 1 \in 1 .. n /\ 1 + 1 = 2
    BY <1>1
  <2>2. flatten[1] = seqs[1] /\ starts[2] = Len(flatten[1])
    BY <1>2, <1>3, <2>1
  <2>3. ASSUME NEW j \in 1 .. 1, NEW k \in Nat, k \in 1 .. Len(seqs[j])
        PROVE  /\ starts[j] + k \in 1 .. Len(flatten[1])
               /\ flatten[1][starts[j] + k] = seqs[j][k]
    <3>1. j = 1 /\ starts[j] + k = k
      BY <1>3
    <3>2. QED
      BY <2>2, <2>3, <3>1
  <2>4. Len(seqs[1]) \in Nat /\ seqs[1] \in Seq(S)
    BY <1>1, <2>1
  <2>5. QED
    BY <1>3, <2>1, <2>2, <2>3, <2>4
<1>6. ASSUME NEW i \in 1 .. n, i + 1 \in 1 .. n, Placed(i)
      PROVE  Placed(i + 1)
  <2> DEFINE old == flatten[i]
             s == seqs[i + 1]
             new == old \o s
  <2>1. flatten[i + 1] = new
    <3>1. i + 1 # 1 /\ (i + 1) - 1 = i
      BY <1>1
    <3>2. flatten[i + 1] = flatten[(i + 1) - 1] \o seqs[i + 1]
      BY <1>2, <1>6, <3>1
    <3>3. QED
      BY <3>1, <3>2
  <2>2. /\ old \in Seq(S) /\ s \in Seq(S) /\ Len(s) \in Nat /\ Len(old) \in Nat
        /\ Len(old) = starts[i + 1] /\ starts[i + 1] \in Nat
    BY <1>1, <1>6, LenProperties
  <2>3. /\ new \in Seq(S) /\ Len(new) = Len(old) + Len(s)
        /\ \A k \in 1 .. Len(old) + Len(s) :
              new[k] = IF k <= Len(old) THEN old[k] ELSE s[k - Len(old)]
    BY <2>2, ConcatProperties
  <2>4. starts[(i + 1) + 1] = Len(new)
    BY <1>3, <1>6, <2>1
  <2>5. ASSUME NEW j \in 1 .. i + 1, NEW k \in Nat, k \in 1 .. Len(seqs[j])
        PROVE  /\ starts[j] + k \in 1 .. Len(new)
               /\ new[starts[j] + k] = seqs[j][k]
    <3>1. j \in 1 .. i \/ j = i + 1
      BY <1>1
    <3>2. CASE j \in 1 .. i
      <4>1. /\ starts[j] + k \in 1 .. Len(old)
            /\ old[starts[j] + k] = seqs[j][k]
        BY <1>6, <2>5, <3>2
      <4> DEFINE p == starts[j] + k
      <4> HIDE DEF p, new
      <4>2. p \in 1 .. Len(old) + Len(s) /\ p <= Len(old)
        BY <2>2, <4>1 DEF p
      <4>3. new[p] = old[p]
        BY <2>3, <4>2
      <4>4. QED
        BY <2>3, <4>1, <4>2, <4>3 DEF p
    <3>3. CASE j = i + 1
      <4> DEFINE p == Len(old) + k
      <4> HIDE DEF p, new, old, s
      <4>0. k \in 1 .. Len(s) /\ Len(old) \in Nat /\ Len(s) \in Nat
        BY <2>2, <2>5, <3>3 DEF s
      <4>1. /\ p \in 1 .. Len(old) + Len(s) /\ ~(p <= Len(old)) /\ p - Len(old) = k
        BY <4>0 DEF p
      <4>2. starts[j] + k = p
        BY <2>2, <3>3 DEF p
      <4>3. new[p] = s[k]
        BY <2>3, <4>1
      <4>4. QED
        BY <2>3, <3>3, <4>1, <4>2, <4>3 DEF s
    <3>4. QED
      BY <3>1, <3>2, <3>3
  <2>6. /\ starts[(i + 1) + 1] = starts[i + 1] + Len(s)
        /\ starts[(i + 1) + 1] \in Nat
    BY <2>2, <2>3, <2>4
  <2> HIDE DEF new, s, old
  <2>7. QED
    BY <2>1, <2>2, <2>3, <2>4, <2>5, <2>6 DEF s
<1> HIDE DEF Placed
<1>7. \A i \in 1 .. n : Placed(i)
  <2> DEFINE Good == {m \in Nat : m + 1 <= n => Placed(m + 1)}
  <2>1. 0 \in Good
    BY <1>5
  <2>2. ASSUME NEW m \in Good PROVE m + 1 \in Good
    <3>1. ASSUME (m + 1) + 1 <= n PROVE Placed((m + 1) + 1)
      <4>1. /\ m + 1 \in 1 .. n /\ (m + 1) + 1 \in 1 .. n /\ m + 1 <= n
        BY <1>1, <3>1
      <4>2. Placed(m + 1)
        BY <4>1
      <4>3. QED
        BY <1>6, <4>1, <4>2
    <3>2. QED
      BY <3>1
  <2>3. Good \in SUBSET Nat
    OBVIOUS
  <2> HIDE DEF Good
  <2>4. \A m \in Nat : m \in Good
    BY <2>1, <2>2, <2>3, InductionOverNat
  <2>5. ASSUME NEW i \in 1 .. n PROVE Placed(i)
    <3>1. i - 1 \in Good /\ (i - 1) + 1 = i
      BY <1>1, <2>4
    <3>2. (i - 1) + 1 <= n => Placed((i - 1) + 1)
      BY <3>1 DEF Good
    <3>3. i <= n
      BY <1>1
    <3>4. QED
      BY <3>1, <3>2, <3>3
  <2>6. QED
    BY <2>5
<1>8. n \in 1 .. n
  BY <1>1
<1>9. Flattened(seqs, starts, flatten[n])
  <2>1. ASSUME NEW i \in 1 .. n + 1 PROVE starts[i] \in Nat
    <3>1. i \in 1 .. n \/ (i = n + 1)
      BY <1>1
    <3>2. QED
      BY <1>7, <1>8, <3>1 DEF Placed
  <2>2. starts \in [1 .. n + 1 -> Nat]
    BY <1>4, <2>1 DEF starts
  <2>3. QED
    BY <1>3, <1>7, <1>8, <2>2 DEF Placed, Flattened, n
<1>10. QED
  BY <1>7, <1>8, <1>9 DEF Placed, n

(* What is put together last is what was flattened before it.                *)
LEMMA FlattenSeqIsLoop ==
    ASSUME NEW S, NEW seqs \in Seq(Seq(S)), Len(seqs) # 0
    PROVE  \E flatten : /\ FlattenLoop(flatten, seqs)
                        /\ FlattenSeq(seqs) = flatten[Len(seqs)]
<1> DEFINE flatten == CHOOSE f : FlattenLoop(f, seqs)
<1>1. FlattenLoop(flatten, seqs)
  <2>1. \E f : FlattenLoop(f, seqs)
    BY FlattenLoopExists
  <2>2. QED
    BY <2>1, Zenon
<1>2. FlattenSeq(seqs) = flatten[Len(seqs)]
  BY Zenon DEF FlattenSeq, FlattenLoop
<1> HIDE DEF flatten
<1>3. QED
  BY <1>1, <1>2

(* The first of the sequences comes first, and then what the others flatten  *)
(* to.                                                                       *)
LEMMA FlattenHead ==
    ASSUME NEW S, NEW seqs \in Seq(Seq(S)), seqs # <<>>
    PROVE  FlattenSeq(seqs) = Head(seqs) \o FlattenSeq(Tail(seqs))
<1> DEFINE n == Len(seqs)
           h == Head(seqs)
           others == Tail(seqs)
<1>1. /\ n \in Nat /\ n >= 1 /\ h \in Seq(S) /\ h = seqs[1]
      /\ others \in Seq(Seq(S)) /\ Len(others) = n - 1
      /\ \A i \in 1 .. n : seqs[i] \in Seq(S)
  OBVIOUS
<1>2. \A i \in 1 .. n - 1 : others[i] = seqs[i + 1] /\ others[i] \in Seq(S)
  <2>1. \A i \in 1 .. n - 1 : others[i] = seqs[i + 1]
    OBVIOUS
  <2>2. \A i \in 1 .. n - 1 : i + 1 \in 1 .. n
    BY <1>1
  <2>3. QED
    BY <1>1, <2>1, <2>2
<1> HIDE DEF n, h, others
<1>3. PICK f : FlattenLoop(f, seqs) /\ FlattenSeq(seqs) = f[n]
  BY <1>1, FlattenSeqIsLoop DEF n
<1>4. CASE n = 1
  <2>1. Len(others) = 0 /\ others = <<>>
    BY <1>1, <1>4
  <2>2. FlattenSeq(others) = <<>>
    BY <2>1 DEF FlattenSeq
  <2>3. f[1] = seqs[1]
    BY <1>3, <1>4 DEF FlattenLoop, n
  <2>4. h \o <<>> = h
    BY <1>1, ConcatEmptySeq
  <2>5. QED
    BY <1>1, <1>3, <1>4, <2>2, <2>3, <2>4 DEF h, others
<1>5. CASE n # 1
  <2>1. Len(others) # 0 /\ n - 1 \in Nat /\ n - 1 >= 1
    BY <1>1, <1>5
  <2>2. PICK g : FlattenLoop(g, others) /\ FlattenSeq(others) = g[n - 1]
    BY <1>1, <2>1, FlattenSeqIsLoop
  <2>3. \A i \in 1 .. n : f[i] = IF i = 1 THEN seqs[i] ELSE f[i - 1] \o seqs[i]
    BY <1>3 DEF FlattenLoop, n
  <2>4. \A i \in 1 .. n - 1 : g[i] = IF i = 1 THEN others[i] ELSE g[i - 1] \o others[i]
    BY <1>1, <2>2 DEF FlattenLoop
  <2> DEFINE Shifted(i) == g[i] \in Seq(S) /\ f[i + 1] = h \o g[i]
             Good == {i \in Nat : i + 1 <= n - 1 => Shifted(i + 1)}
  <2>5. 0 \in Good
    <3>1. 1 \in 1 .. n - 1 /\ 1 \in 1 .. n /\ 1 + 1 \in 1 .. n /\ 1 + 1 # 1 /\ (1 + 1) - 1 = 1
      BY <1>1, <2>1
    <3>2. g[1] = others[1] /\ f[1] = seqs[1]
      BY <2>3, <2>4, <3>1
    <3>3. f[1 + 1] = f[(1 + 1) - 1] \o seqs[1 + 1]
      BY <2>3, <3>1, Zenon
    <3>4. Shifted(1)
      BY <1>1, <1>2, <3>1, <3>2, <3>3
    <3>5. 0 + 1 = 1
      OBVIOUS
    <3> HIDE DEF Shifted
    <3>6. QED
      BY <3>4, <3>5
  <2>6. ASSUME NEW i \in Good PROVE i + 1 \in Good
    <3>1. ASSUME (i + 1) + 1 <= n - 1 PROVE Shifted((i + 1) + 1)
      <4> DEFINE j == i + 1
                 k == j + 1
      <4>1. /\ j \in 1 .. n - 1 /\ k \in 1 .. n - 1 /\ k # 1 /\ k - 1 = j
            /\ k + 1 \in 1 .. n /\ k + 1 # 1 /\ (k + 1) - 1 = k
        BY <1>1, <3>1
      <4>2. Shifted(j)
        <5>1. j <= n - 1
          BY <4>1
        <5> HIDE DEF Shifted
        <5>2. QED
          BY <5>1
      <4> HIDE DEF j, k, Good
      <4>3. g[k] = g[j] \o others[k]
        BY <2>4, <4>1
      <4>4. f[k + 1] = f[k] \o seqs[k + 1]
        BY <2>3, <4>1
      <4>5. f[k] = h \o g[j] /\ g[j] \in Seq(S)
        BY <4>2 DEF k
      <4>6. others[k] = seqs[k + 1] /\ others[k] \in Seq(S)
        BY <1>2, <4>1
      <4>7. (h \o g[j]) \o others[k] = h \o (g[j] \o others[k])
        <5>1. ASSUME NEW s \in Seq(S), NEW t \in Seq(S), NEW u \in Seq(S)
              PROVE  (s \o t) \o u = s \o (t \o u)
          BY ConcatAssociative
        <5>2. g[j] \in Seq(S)
          BY <4>5
        <5>3. others[k] \in Seq(S)
          BY <4>6
        <5>4. h \in Seq(S)
          BY <1>1
        <5>5. QED
          BY <5>1, <5>2, <5>3, <5>4, Zenon
      <4>8. g[j] \o others[k] \in Seq(S)
        BY <4>5, <4>6, ConcatProperties
      <4>9. QED
        BY <4>3, <4>4, <4>5, <4>6, <4>7, <4>8 DEF j, k
    <3> HIDE DEF Shifted
    <3>2. QED
      BY <3>1
  <2> HIDE DEF Shifted
  <2>7. Good = Nat
    <3> HIDE DEF Good
    <3>1. Good \in SUBSET Nat
      BY DEF Good
    <3>2. QED
      BY <2>5, <2>6, <3>1, InductionOverNat
  <2>8. Shifted(n - 1)
    <3>1. (n - 1) - 1 \in Nat /\ ((n - 1) - 1) + 1 = n - 1
      BY <1>1, <2>1
    <3>2. (n - 1) - 1 \in Good
      BY <2>7, <3>1
    <3>3. QED
      BY <2>1, <3>1, <3>2
  <2>9. (n - 1) + 1 = n
    BY <1>1
  <2>10. QED
    BY <1>3, <2>2, <2>8, <2>9 DEF Shifted, h, others
<1>6. QED
  BY <1>4, <1>5

(* FlattenSeq puts them behind each other.                                   *)
LEMMA FlattenFacts ==
    ASSUME NEW S, NEW seqs \in Seq(Seq(S))
    PROVE  /\ FlattenSeq(seqs) \in Seq(S)
           /\ \E starts : Flattened(seqs, starts, FlattenSeq(seqs))
<1>1. Len(seqs) \in Nat
  OBVIOUS
<1>2. CASE Len(seqs) = 0
  <2>1. seqs = <<>> /\ FlattenSeq(seqs) = seqs /\ <<>> \in Seq(S)
    BY <1>2, EmptySeq DEF FlattenSeq
  <2>2. Flattened(seqs, [i \in 1 .. 1 |-> 0], <<>>)
    BY <1>2 DEF Flattened
  <2>3. QED
    BY <2>1, <2>2
<1>3. CASE Len(seqs) # 0
  <2> DEFINE flatten == CHOOSE f : FlattenLoop(f, seqs)
  <2>1. FlattenLoop(flatten, seqs)
    <3>1. \E f : FlattenLoop(f, seqs)
      BY <1>3, FlattenLoopExists
    <3>2. QED
      BY <3>1, Zenon
  <2>2. FlattenSeq(seqs) = flatten[Len(seqs)]
    BY <1>3, Zenon DEF FlattenSeq, FlattenLoop
  <2> HIDE DEF flatten
  <2>3. QED
    BY <1>3, <2>1, <2>2, FlattenLoopFlattens
<1>4. QED
  BY <1>2, <1>3

(* Parts that are joined, in whichever order                                 *)
LEMMA Joins ==
    ASSUME NEW S, NEW s \in Seq(S), NEW t \in Seq(S), NEW u \in Seq(S)
    PROVE  (s \o t) \o u = s \o (t \o u)
<1>1. /\ s \o t \in Seq(S) /\ Len(s \o t) = Len(s) + Len(t)
      /\ t \o u \in Seq(S) /\ Len(t \o u) = Len(t) + Len(u)
      /\ Len(s) \in Nat /\ Len(t) \in Nat /\ Len(u) \in Nat
  OBVIOUS
<1>2. /\ (s \o t) \o u \in Seq(S) /\ Len((s \o t) \o u) = Len(s) + Len(t) + Len(u)
      /\ s \o (t \o u) \in Seq(S) /\ Len(s \o (t \o u)) = Len(s) + Len(t) + Len(u)
  BY <1>1
<1>3. ASSUME NEW i \in 1 .. Len(s) + Len(t) + Len(u)
      PROVE  ((s \o t) \o u)[i] = (s \o (t \o u))[i]
  <2>1. /\ ((s \o t) \o u)[i] = IF i <= Len(s \o t) THEN (s \o t)[i] ELSE u[i - Len(s \o t)]
        /\ (s \o (t \o u))[i] = IF i <= Len(s) THEN s[i] ELSE (t \o u)[i - Len(s)]
    BY <1>1, <1>2
  <2>2. CASE i <= Len(s)
    BY <1>1, <2>1, <2>2
  <2>3. CASE i > Len(s) /\ i <= Len(s) + Len(t)
    BY <1>1, <2>1, <2>3
  <2>4. CASE i > Len(s) + Len(t)
    BY <1>1, <2>1, <2>4
  <2>5. QED
    BY <1>1, <2>2, <2>3, <2>4
<1>4. QED
  BY <1>2, <1>3, SeqEqual

(* What flattens to nothing, to itself and to two parts.                     *)
LEMMA FlattenNone == FlattenSeq(<<>>) = <<>>
BY DEF FlattenSeq

LEMMA FlattenConcat ==
    ASSUME NEW S, NEW s \in Seq(Seq(S)), NEW t \in Seq(Seq(S))
    PROVE  FlattenSeq(s \o t) = FlattenSeq(s) \o FlattenSeq(t)
<1> DEFINE Good == {n \in Nat : \A u \in Seq(Seq(S)) :
                      Len(u) = n => FlattenSeq(u \o t) = FlattenSeq(u) \o FlattenSeq(t)}
<1>1. \A u \in Seq(Seq(S)) : FlattenSeq(u) \in Seq(S)
  BY FlattenFacts
<1>2. 0 \in Good
  <2>1. ASSUME NEW u \in Seq(Seq(S)), Len(u) = 0
        PROVE  FlattenSeq(u \o t) = FlattenSeq(u) \o FlattenSeq(t)
    <3>1. u = <<>>
      BY <2>1
    <3>2. <<>> \o t = t
      BY ConcatEmptySeq
    <3>3. <<>> \o FlattenSeq(t) = FlattenSeq(t)
      BY <1>1, ConcatEmptySeq
    <3>4. QED
      BY <3>1, <3>2, <3>3, FlattenNone
  <2>2. QED
    BY <2>1
<1>3. ASSUME NEW n \in Good PROVE n + 1 \in Good
  <2>1. ASSUME NEW u \in Seq(Seq(S)), Len(u) = n + 1
        PROVE  FlattenSeq(u \o t) = FlattenSeq(u) \o FlattenSeq(t)
    <3>1. /\ u # <<>> /\ Head(u) \in Seq(S) /\ Tail(u) \in Seq(Seq(S))
          /\ Len(Tail(u)) = n
      BY <2>1
    <3>2. /\ u \o t \in Seq(Seq(S)) /\ u \o t # <<>>
          /\ Head(u \o t) = Head(u) /\ Tail(u \o t) = Tail(u) \o t
      <4>1. ASSUME NEW T, NEW v \in Seq(T), NEW w \in Seq(T), v # <<>>
            PROVE  /\ v \o w \in Seq(T) /\ v \o w # <<>> /\ Head(v \o w) = Head(v)
                   /\ Tail(v \o w) = Tail(v) \o w
        BY <4>1
      <4>2. QED
        BY <3>1, <4>1
    <3>3. FlattenSeq(Tail(u) \o t) = FlattenSeq(Tail(u)) \o FlattenSeq(t)
      BY <3>1
    <3>4. /\ FlattenSeq(u \o t) = Head(u) \o FlattenSeq(Tail(u) \o t)
          /\ FlattenSeq(u) = Head(u) \o FlattenSeq(Tail(u))
      BY <3>1, <3>2, FlattenHead
    <3>5. ASSUME NEW x \in Seq(S), NEW y \in Seq(S), NEW z \in Seq(S)
          PROVE  (x \o y) \o z = x \o (y \o z)
      BY Joins
    <3>6. FlattenSeq(Tail(u)) \in Seq(S) /\ FlattenSeq(t) \in Seq(S)
      BY <1>1, <3>1
    <3>7. QED
      BY <3>1, <3>3, <3>4, <3>5, <3>6
  <2>2. QED
    BY <2>1
<1>4. Good \in SUBSET Nat
  OBVIOUS
<1> HIDE DEF Good
<1>5. \A n \in Nat : n \in Good
  BY <1>2, <1>3, <1>4, InductionOverNat
<1>6. Len(s) \in Good
  BY <1>5
<1>7. QED
  BY <1>6 DEF Good

LEMMA FlattenOne ==
    ASSUME NEW S, NEW x \in Seq(S)
    PROVE  FlattenSeq(<<x>>) = x
<1>1. <<x>> \in Seq(Seq(S)) /\ <<x>> # <<>> /\ Head(<<x>>) = x /\ Tail(<<x>>) = <<>>
  OBVIOUS
<1>2. x \o <<>> = x
  BY ConcatEmptySeq
<1>3. QED
  BY <1>1, <1>2, FlattenHead, FlattenNone

(* Sequences of one length, next to each other                               *)
InSteps(seqs, width, flat) ==
    /\ Len(flat) = Len(seqs) * width
    /\ \A i \in 1 .. Len(seqs) : \A k \in 1 .. width :
          flat[(i - 1) * width + k] = seqs[i][k]

LEMMA FlattenEven ==
    ASSUME NEW S, NEW seqs \in Seq(Seq(S)), NEW width \in Nat,
           \A i \in 1 .. Len(seqs) : Len(seqs[i]) = width
    PROVE  FlattenSeq(seqs) \in Seq(S) /\ InSteps(seqs, width, FlattenSeq(seqs))
<1> DEFINE flat == FlattenSeq(seqs)
           n == Len(seqs)
<1>1. flat \in Seq(S) /\ n \in Nat
  BY FlattenFacts
<1>2. PICK starts : Flattened(seqs, starts, flat)
  BY FlattenFacts
<1>3. /\ starts[1] = 0 /\ Len(flat) = starts[n + 1]
      /\ \A i \in 1 .. n : starts[i + 1] = starts[i] + width
      /\ \A i \in 1 .. n : \A k \in 1 .. width : flat[starts[i] + k] = seqs[i][k]
  <2>1. \A i \in 1 .. n : \A k \in 1 .. width : k \in Nat /\ k \in 1 .. Len(seqs[i])
    OBVIOUS
  <2>2. \A i \in 1 .. n : starts[i + 1] = starts[i] + width
    BY <1>2 DEF Flattened
  <2> HIDE DEF flat
  <2>3. starts[1] = 0 /\ Len(flat) = starts[n + 1]
    BY <1>2 DEF Flattened
  <2>4. \A i \in 1 .. n : \A k \in 1 .. width : flat[starts[i] + k] = seqs[i][k]
    BY <1>2, <2>1, Zenon DEF Flattened
  <2>5. QED
    BY <2>2, <2>3, <2>4
<1> HIDE DEF flat, n
<1> DEFINE Good == {i \in Nat : i <= n => starts[i + 1] = i * width}
<1>4. 0 \in Good
  BY <1>3
<1>5. ASSUME NEW i \in Good PROVE i + 1 \in Good
  <2>1. ASSUME i + 1 <= n PROVE starts[i + 1 + 1] = (i + 1) * width
    <3>1. i \in Nat /\ i + 1 \in 1 .. n /\ starts[i + 1] = i * width
      BY <1>1, <2>1
    <3>2. starts[i + 1 + 1] = i * width + width
      BY <1>3, <3>1
    <3>3. (i + 1) * width = i * width + width
      BY <3>1
    <3>4. QED
      BY <3>2, <3>3
  <2>2. QED
    BY <2>1
<1>6. \A i \in Nat : i \in Good
  BY <1>4, <1>5, InductionOverNat
<1>7. starts[n + 1] = n * width
  BY <1>1, <1>6
<1>8. ASSUME NEW i \in 1 .. n PROVE starts[i] = (i - 1) * width
  <2>1. i - 1 \in Nat /\ i - 1 <= n /\ i - 1 + 1 = i
    BY <1>1
  <2>2. i - 1 \in Good
    BY <1>6, <2>1
  <2>3. QED
    BY <2>1, <2>2
<1>9. \A i \in 1 .. n : \A k \in 1 .. width : flat[(i - 1) * width + k] = seqs[i][k]
  BY <1>3, <1>8
<1>10. QED
  BY <1>1, <1>3, <1>7, <1>9 DEF flat, n, InSteps

------------------------------------------------------------------------------
(* Prefixes                                                                  *)

LEMMA PrefixFacts ==
    ASSUME NEW S, NEW s \in Seq(S), NEW t \in Seq(S)
    PROVE  IsPrefix(s, t) <=>
               Len(s) <= Len(t) /\ \A i \in 1 .. Len(s) : s[i] = t[i]
<1> DEFINE ls == Len(s)
           lt == Len(t)
           u == SubSeq(t, 1, ls)
<1>1. /\ ls \in Nat /\ lt \in Nat
      /\ \A i \in 1 .. ls : s[i] \in S
      /\ \A i \in 1 .. lt : t[i] \in S
  OBVIOUS
<1>2. SubSeq(s, 1, ls) = s
  BY SubSeqFull
<1>3. IsPrefix(s, t) <=> ls <= lt /\ s = u
  BY <1>2 DEF IsPrefix
<1>4. SUFFICES ASSUME ls <= lt PROVE s = u <=> \A i \in 1 .. ls : s[i] = t[i]
  BY <1>3
<1> HIDE DEF ls, lt
<1>5. /\ u \in Seq(S) /\ Len(u) = IF 1 <= ls THEN ls - 1 + 1 ELSE 0
      /\ \A i \in 1 .. ls - 1 + 1 : u[i] = t[1 + i - 1]
  <2>1. \A i \in 1 .. ls : t[i] \in S
    BY <1>1, <1>4
  <2>2. 1 \in Int /\ ls \in Int
    BY <1>1
  <2>3. QED
    BY <2>1, <2>2, SubSeqProperties
<1> HIDE DEF u
<1>6. Len(u) = ls /\ \A i \in 1 .. ls : u[i] = t[i]
  <2>1. Len(u) = ls /\ ls - 1 + 1 = ls
    BY <1>1, <1>5
  <2>2. ASSUME NEW i \in 1 .. ls PROVE u[i] = t[i]
    <3>1. i \in 1 .. ls - 1 + 1 /\ 1 + i - 1 = i
      BY <1>1
    <3>2. QED
      BY <1>5, <3>1
  <2>3. QED
    BY <2>1, <2>2
<1>7. ASSUME \A i \in 1 .. ls : s[i] = t[i] PROVE s = u
  <2>1. Len(s) = Len(u) /\ \A i \in 1 .. Len(s) : s[i] = u[i]
    BY <1>6, <1>7 DEF ls
  <2>2. QED
    BY <1>5, <2>1, SeqEqual
<1>8. QED
  BY <1>6, <1>7

(* One more element                                                          *)
LEMMA PrefixGrows ==
    ASSUME NEW S, NEW s \in Seq(S), NEW t \in Seq(S), IsPrefix(s, t),
           Len(s) < Len(t)
    PROVE  /\ Append(s, t[Len(s) + 1]) \in Seq(S)
           /\ IsPrefix(Append(s, t[Len(s) + 1]), t)
<1> DEFINE e == t[Len(s) + 1]
           a == Append(s, e)
<1>1. Len(s) \in Nat /\ Len(t) \in Nat /\ Len(s) + 1 \in 1 .. Len(t)
  OBVIOUS
<1>2. e \in S
  BY <1>1
<1>3. Len(s) <= Len(t) /\ \A i \in 1 .. Len(s) : s[i] = t[i]
  BY PrefixFacts
<1>4. /\ a \in Seq(S) /\ Len(a) = Len(s) + 1
      /\ \A i \in 1 .. Len(s) : a[i] = s[i]
      /\ a[Len(s) + 1] = e
  <2> HIDE DEF e
  <2>1. QED
    BY <1>2, AppendProperties
<1> HIDE DEF a
<1>5. Len(a) <= Len(t)
  BY <1>1, <1>4
<1>6. ASSUME NEW i \in 1 .. Len(a) PROVE a[i] = t[i]
  <2>1. i \in 1 .. Len(s) \/ i = Len(s) + 1
    BY <1>1, <1>4
  <2>2. QED
    BY <1>3, <1>4, <2>1
<1>7. IsPrefix(a, t)
  BY <1>4, <1>5, <1>6, PrefixFacts
<1>8. QED
  BY <1>4, <1>7 DEF a

(* All but the last element                                                  *)
LEMMA PrefixOfFront ==
    ASSUME NEW S, NEW s \in Seq(S), NEW t \in Seq(S), IsPrefix(s, t), t # <<>>
    PROVE  /\ Front(t) \in Seq(S) /\ Len(Front(t)) = Len(t) - 1
           /\ IsPrefix(Front(t), s) <=> Len(s) >= Len(t) - 1
<1> DEFINE f == Front(t)
           n == Len(t) - 1
<1>1. Len(t) \in Nat \ {0} /\ n \in Nat /\ Len(s) \in Nat
  BY EmptySeq
<1>2. f \in Seq(S) /\ Len(f) = n /\ \A i \in 1 .. n : f[i] = t[i]
  <2>1. \A i \in 1 .. n : t[i] \in S
    BY <1>1
  <2>2. 1 \in Int /\ n \in Int
    BY <1>1
  <2> HIDE DEF n
  <2> DEFINE u == SubSeq(t, 1, n)
  <2>3. /\ u \in Seq(S) /\ Len(u) = IF 1 <= n THEN n - 1 + 1 ELSE 0
        /\ \A i \in 1 .. n - 1 + 1 : u[i] = t[1 + i - 1]
    BY <2>1, <2>2, SubSeqProperties
  <2>4. f = u
    BY DEF f, Front, n
  <2> HIDE DEF f, u
  <2>5. Len(u) = n
    BY <1>1, <2>3
  <2>6. ASSUME NEW i \in 1 .. n PROVE u[i] = t[i]
    <3>1. i \in 1 .. n - 1 + 1 /\ 1 + i - 1 = i
      BY <1>1
    <3>2. QED
      BY <2>3, <3>1
  <2>7. QED
    BY <2>3, <2>4, <2>5, <2>6
<1>3. Len(s) <= Len(t) /\ \A i \in 1 .. Len(s) : s[i] = t[i]
  BY PrefixFacts
<1> HIDE DEF f
<1>4. IsPrefix(f, s) <=> Len(f) <= Len(s) /\ \A i \in 1 .. Len(f) : f[i] = s[i]
  BY <1>2, PrefixFacts
<1>5. ASSUME Len(s) >= n PROVE Len(f) <= Len(s) /\ \A i \in 1 .. Len(f) : f[i] = s[i]
  <2>1. Len(f) <= Len(s)
    BY <1>1, <1>2, <1>5
  <2>2. ASSUME NEW i \in 1 .. Len(f) PROVE f[i] = s[i]
    <3>1. i \in 1 .. n /\ i \in 1 .. Len(s)
      BY <1>1, <1>2, <1>5
    <3>2. QED
      BY <1>2, <1>3, <3>1
  <2>3. QED
    BY <2>1, <2>2
<1>6. ASSUME Len(f) <= Len(s) PROVE Len(s) >= n
  BY <1>1, <1>2, <1>6
<1>7. QED
  BY <1>2, <1>4, <1>5, <1>6 DEF f


==============================================================================
