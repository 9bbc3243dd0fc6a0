----------------------------- MODULE LocalesProofs ----------------------------
(***************************************************************************)
(* Proofs about Locales, for any headers and names, however long, of any   *)
(* ranges.                                                                 *)
(***************************************************************************)
EXTENDS Locales, Facts

Items == [range : LanguageRanges, q : Digits]

TypeOK ==
    /\ header \in Seq(Items)
    /\ names \in Seq(LanguageRanges)
    /\ locales \in Seq(LanguageRanges)
    /\ input \in Seq(LanguageRanges)
    /\ pc \in {"http", "expand", "system", "done"}

Elements(list) == {list[n] : n \in DOMAIN list}

Distinct(list) == \A m, n \in DOMAIN list : list[m] = list[n] => m = n

(* In the list, r is before s.                                               *)
Precedes(list, r, s) ==
    \A m, n \in DOMAIN list : list[m] = r /\ list[n] = s => m < n

(* A range of the header is to be before another one.                        *)
Better(r, s) == \/ Best(r) > Best(s)
                \/ Best(r) = Best(s) /\ FirstBest(r) < FirstBest(s)

OfTheHeader == input = [n \in DOMAIN header |-> header[n].range]

(* The ranges of the header are in their order, and every other one is       *)
(* behind all that it stands for.                                            *)
HeaderOrder ==
    /\ \A r, s \in AskedFor : Better(r, s) => Precedes(locales, r, s)
    /\ \A r \in Elements(locales) \ AskedFor, s \in AskedFor :
          r \in Shorter(s) => Precedes(locales, s, r)

(* While shorter ranges are inserted                                         *)
Expanding ==
    /\ OfTheHeader
    /\ Distinct(locales)
    /\ AskedFor \subseteq Elements(locales)
    /\ Elements(locales) \subseteq UNION {Shorter(range) : range \in AskedFor}
    /\ HeaderOrder

(* Of names, r comes before s: with an earlier one, or it is longer.         *)
InOrder(given, r, s) ==
    \A k \in DOMAIN given : s \in Shorter(given[k]) =>
        \/ \E l \in 1 .. k - 1 : r \in Shorter(given[l])
        \/ r \in Shorter(given[k]) /\ Len(r) > Len(s)

Ordered(given, list) ==
    \A m, n \in DOMAIN list : m < n => InOrder(given, list[m], list[n])

(* While names are looked at, the list has those seen with all their shorter *)
(* versions.                                                                 *)
Listing ==
    \E seen \in Seq(LanguageRanges) :
        /\ input = seen \o names
        /\ header = <<>>
        /\ Distinct(locales)
        /\ Elements(locales) = UNION {Shorter(range) : range \in Elements(seen)}
        /\ Ordered(seen, locales)

(* In the end                                                                *)
Listed ==
    /\ Distinct(locales)
    /\ Elements(locales) = UNION {Shorter(range) : range \in AskedFor \cup {En}}
    /\ \/ OfTheHeader /\ HeaderOrder
       \/ header = <<>> /\ Ordered(input, locales)

IInv ==
    /\ TypeOK
    /\ pc = "http" => OfTheHeader
    /\ pc = "expand" => Expanding
    /\ pc = "system" => Listing
    /\ pc = "done" => Listed

------------------------------------------------------------------------------
(* Sorting *)

(* Every element of a finite set has a place of its own along a strict order *)
(* of it: how many there are before it.                                      *)
LEMMA SortedFollowsOrder ==
    ASSUME NEW S, IsFiniteSet(S), NEW R,
           \A n \in S : <<n, n>> \notin R,
           \A l, m, n \in S : <<l, m>> \in R /\ <<m, n>> \in R => <<l, n>> \in R,
           \A m, n \in S : m # n => <<m, n>> \in R \/ <<n, m>> \in R
    PROVE  LET size == Cardinality(S) IN
           /\ size \in Nat
           /\ DOMAIN Sorted(S, R) = 1 .. size
           /\ \A k \in 1 .. size : Sorted(S, R)[k] \in S
           /\ \A n \in S : \E k \in 1 .. size : Sorted(S, R)[k] = n
           /\ \A i, j \in 1 .. size :
                 i < j => <<Sorted(S, R)[i], Sorted(S, R)[j]>> \in R
<1> DEFINE size == Cardinality(S)
           Under(n) == {m \in S : <<m, n>> \in R}
           rank == [n \in S |-> Cardinality(Under(n)) + 1]
<1>1. size \in Nat
  BY FS_CardinalityType
<1>2. ASSUME NEW n \in S
      PROVE  IsFiniteSet(Under(n)) /\ rank[n] \in 1 .. size
  <2>1. Under(n) \in SUBSET (S \ {n})
    OBVIOUS
  <2>2. IsFiniteSet(S \ {n}) /\ Cardinality(S \ {n}) = size - 1
    BY FS_RemoveElement
  <2>3. /\ IsFiniteSet(Under(n)) /\ Cardinality(Under(n)) \in Nat
        /\ Cardinality(Under(n)) <= Cardinality(S \ {n})
    <3> HIDE DEF Under
    <3>1. QED
      BY <2>1, <2>2, FS_Subset, FS_CardinalityType
  <2>4. Cardinality(Under(n)) + 1 \in 1 .. size
    <3> HIDE DEF Under, size
    <3>1. QED
      BY <1>1, <2>2, <2>3
  <2>5. QED
    BY <2>3, <2>4
<1>3. ASSUME NEW m \in S, NEW n \in S, <<m, n>> \in R
      PROVE  rank[m] < rank[n]
  <2>1. Under(m) \in SUBSET Under(n)
    BY <1>3
  <2>2. m \in Under(n) /\ m \notin Under(m)
    BY <1>3
  <2>3. /\ IsFiniteSet(Under(n)) /\ IsFiniteSet(Under(m))
    BY <1>2
  <2>4. /\ Cardinality(Under(m)) <= Cardinality(Under(n))
        /\ Cardinality(Under(m)) # Cardinality(Under(n))
        /\ Cardinality(Under(m)) \in Nat /\ Cardinality(Under(n)) \in Nat
    <3> HIDE DEF Under
    <3>1. QED
      BY <2>1, <2>2, <2>3, FS_Subset, FS_CardinalityType
  <2>5. Cardinality(Under(m)) + 1 < Cardinality(Under(n)) + 1
    <3> HIDE DEF Under
    <3>1. QED
      BY <2>4
  <2>6. QED
    BY <2>5
<1>4. ASSUME NEW m \in S, NEW n \in S, rank[m] = rank[n]
      PROVE  m = n
  <2>1. rank[m] \in Int /\ rank[n] \in Int
    BY <1>2
  <2> HIDE DEF rank
  <2>2. ~(rank[m] < rank[n]) /\ ~(rank[n] < rank[m])
    BY <1>4, <2>1
  <2>3. QED
    BY <1>3, <2>2
<1>5. rank \in Surjection(S, 1 .. size)
  <2>1. IsFiniteSet(1 .. size) /\ Cardinality(1 .. size) = size
    <3>1. Cardinality(1 .. size) = IF 1 > size THEN 0 ELSE size - 1 + 1
      BY <1>1, FS_Interval
    <3>2. IsFiniteSet(1 .. size)
      BY <1>1, FS_Interval
    <3> HIDE DEF size
    <3>3. QED
      BY <1>1, <3>1, <3>2
  <2>2. rank \in [S -> 1 .. size]
    BY <1>2
  <2>3. rank \in Injection(S, 1 .. size)
    <3> HIDE DEF rank, size
    <3>1. QED
      BY <1>4, <2>2 DEF Injection, IsInjective
  <2> HIDE DEF rank
  <2>4. QED
    BY <2>1, <2>3, FS_Injection
<1>6. \A k \in 1 .. size : \E n \in S : rank[n] = k
  <2> HIDE DEF rank, size
  <2>1. QED
    BY <1>5 DEF Surjection
<1> DEFINE list == Sorted(S, R)
<1>7. DOMAIN list = 1 .. size
  BY DEF Sorted
<1>8. ASSUME NEW k \in 1 .. size
      PROVE  list[k] \in S /\ rank[list[k]] = k
  <2>1. PICK n \in S : rank[n] = k
    BY <1>6
  <2>2. \E x \in S : Cardinality(Under(x)) = k - 1
    <3>1. Cardinality(Under(n)) \in Nat
      BY <1>2, FS_CardinalityType
    <3>2. Cardinality(Under(n)) + 1 = k
      BY <2>1
    <3> HIDE DEF Under, size
    <3>3. Cardinality(Under(n)) = k - 1
      BY <3>1, <3>2
    <3>4. QED
      BY <3>3
  <2>3. list[k] = CHOOSE x \in S : Cardinality(Under(x)) = k - 1
    BY DEF Sorted
  <2>4. list[k] \in S /\ Cardinality(Under(list[k])) = k - 1
    <3> HIDE DEF Under, list
    <3>1. QED
      BY <2>2, <2>3
  <2>5. rank[list[k]] = (k - 1) + 1
    BY <2>4
  <2> HIDE DEF rank, list, size
  <2>6. QED
    BY <1>1, <2>4, <2>5
<1>9. ASSUME NEW n \in S
      PROVE  \E k \in 1 .. size : list[k] = n
  <2>1. rank[n] \in 1 .. size
    BY <1>2
  <2> HIDE DEF rank, list, size
  <2>2. list[rank[n]] \in S /\ rank[list[rank[n]]] = rank[n]
    BY <1>8, <2>1
  <2>3. QED
    BY <1>4, <2>1, <2>2
<1>10. ASSUME NEW i \in 1 .. size, NEW j \in 1 .. size, i < j
       PROVE  <<list[i], list[j]>> \in R
  <2> HIDE DEF rank, list, size
  <2>1. /\ list[i] \in S /\ list[j] \in S
        /\ rank[list[i]] = i /\ rank[list[j]] = j
    BY <1>8
  <2>2. ~(rank[list[j]] < rank[list[i]]) /\ list[i] # list[j]
    BY <1>1, <1>10, <2>1
  <2>3. QED
    BY <1>3, <2>1, <2>2
<1>11. QED
  BY <1>1, <1>7, <1>8, <1>9, <1>10

------------------------------------------------------------------------------
(* Qualities *)

(* How many digits are shifted in.                                           *)
LEMMA ShownDigits ==
    ASSUME NEW q \in Digits
    PROVE  /\ Shown(q) \in 0 .. 3
           /\ Len(q.fraction) \in Nat /\ Shown(q) <= Len(q.fraction)
           /\ Shown(q) < 3 => Shown(q) = Len(q.fraction)
<1>1. ASSUME NEW l \in Nat, NEW n, n = IF l < 3 THEN l ELSE 3
      PROVE  n \in 0 .. 3 /\ n <= l /\ (n < 3 => n = l)
  BY <1>1
<1>2. Len(q.fraction) \in Nat
  BY DEF Digits
<1>3. QED
  BY <1>1, <1>2 DEF Shown

(* The loop over the digits of a fraction                                    *)
ShiftLoop(shift, n, w, d) ==
    shift = [k \in 0 .. n |->
               IF k = 0 THEN [value |-> w, pow |-> 1000]
               ELSE [value |-> shift[k - 1].value * 10 + d[k],
                     pow |-> shift[k - 1].pow \div 10]]

(* What it has after each digit                                              *)
LEMMA ShiftedDigits ==
    ASSUME NEW n \in 0 .. 3, NEW w \in Nat, NEW d, \A k \in 1 .. n : d[k] \in 0 .. 9,
           NEW shift, ShiftLoop(shift, n, w, d)
    PROVE  /\ n = 0 => shift[n].value = w /\ shift[n].pow = 1000
           /\ n = 1 => shift[n].value = 10 * w + d[1] /\ shift[n].pow = 100
           /\ n = 2 => /\ shift[n].value = 100 * w + 10 * d[1] + d[2]
                       /\ shift[n].pow = 10
           /\ n = 3 => /\ shift[n].value = 1000 * w + 100 * d[1] + 10 * d[2] + d[3]
                       /\ shift[n].pow = 1
<1>1. ASSUME NEW k \in 0 .. n, k = 0
      PROVE  shift[k].value = w /\ shift[k].pow = 1000
  <2>1. \A i \in 0 .. n :
           shift[i] = IF i = 0 THEN [value |-> w, pow |-> 1000]
                      ELSE [value |-> shift[i - 1].value * 10 + d[i],
                            pow |-> shift[i - 1].pow \div 10]
    BY Zenon DEF ShiftLoop
  <2>2. shift[k] = IF k = 0 THEN [value |-> w, pow |-> 1000]
                   ELSE [value |-> shift[k - 1].value * 10 + d[k],
                         pow |-> shift[k - 1].pow \div 10]
    BY <2>1, Zenon
  <2> DEFINE rest == [value |-> shift[k - 1].value * 10 + d[k],
                      pow |-> shift[k - 1].pow \div 10]
  <2> HIDE DEF rest
  <2>3. shift[k] = IF k = 0 THEN [value |-> w, pow |-> 1000] ELSE rest
    BY <2>2 DEF rest
  <2>4. shift[k] = [value |-> w, pow |-> 1000]
    BY <1>1, <2>3
  <2>5. QED
    BY <2>4
<1>2. ASSUME NEW k \in 1 .. n
      PROVE  /\ shift[k].value = shift[k - 1].value * 10 + d[k]
             /\ shift[k].pow = shift[k - 1].pow \div 10
  <2>1. k \in 0 .. n /\ k # 0
    OBVIOUS
  <2>2. shift[k] = [value |-> shift[k - 1].value * 10 + d[k],
                    pow |-> shift[k - 1].pow \div 10]
    BY <2>1, Zenon DEF ShiftLoop
  <2>3. QED
    BY <2>2
<1>3. n >= 1 => /\ shift[1].value = w * 10 + d[1] /\ shift[1].pow = 100
                /\ d[1] \in 0 .. 9
  <2>1. ASSUME n >= 1 PROVE /\ 1 \in 1 .. n /\ 0 \in 0 .. n
                              /\ 1 - 1 = 0 /\ 1000 \div 10 = 100
    BY <2>1
  <2>2. QED
    BY <1>1, <1>2, <2>1
<1>4. n >= 2 => /\ shift[2].value = (w * 10 + d[1]) * 10 + d[2]
                /\ shift[2].pow = 10 /\ d[2] \in 0 .. 9
  <2>1. ASSUME n >= 2 PROVE 2 \in 1 .. n /\ 2 - 1 = 1 /\ 100 \div 10 = 10
    BY <2>1
  <2>2. QED
    BY <1>2, <1>3, <2>1
<1>5. n >= 3 => /\ shift[3].value = ((w * 10 + d[1]) * 10 + d[2]) * 10 + d[3]
                /\ shift[3].pow = 1 /\ d[3] \in 0 .. 9
  <2>1. ASSUME n >= 3 PROVE 3 \in 1 .. n /\ 3 - 1 = 2 /\ 10 \div 10 = 1
    BY <2>1
  <2>2. QED
    BY <1>2, <1>4, <2>1
<1>6. CASE n = 0
  <2>1. 0 \in 0 .. n
    OBVIOUS
  <2>2. QED
    BY <1>1, <1>6, <2>1
<1>7. CASE n = 1
  BY <1>3, <1>7
<1>8. CASE n = 2
  BY <1>3, <1>4, <1>8
<1>9. CASE n = 3
  BY <1>3, <1>4, <1>5, <1>9
<1>10. n = 0 \/ n = 1 \/ n = 2 \/ n = 3
  OBVIOUS
<1>11. QED
  BY <1>6, <1>7, <1>8, <1>9, <1>10

(* There is such a loop.                                                     *)
LEMMA ShiftExists ==
    ASSUME NEW n \in 0 .. 3, NEW w, NEW d
    PROVE  \E shift : ShiftLoop(shift, n, w, d)
<1> DEFINE S(r, k) == [value |-> r.value * 10 + d[k], pow |-> r.pow \div 10]
           s0 == [value |-> w, pow |-> 1000]
           s1 == S(s0, 1)
           s2 == S(s1, 2)
           s3 == S(s2, 3)
           g == [k \in 0 .. n |-> IF k = 0 THEN s0 ELSE IF k = 1 THEN s1
                                  ELSE IF k = 2 THEN s2 ELSE s3]
<1>1. ASSUME NEW k \in 0 .. n
      PROVE  g[k] = IF k = 0 THEN s0 ELSE S(g[k - 1], k)
  <2> HIDE DEF s0, s1, s2, s3
  <2>1. k = 0 \/ k = 1 \/ k = 2 \/ k = 3
    OBVIOUS
  <2>2. k # 0 => k - 1 \in 0 .. n
    OBVIOUS
  <2> HIDE DEF S
  <2>3. s1 = S(s0, 1) /\ s2 = S(s1, 2) /\ s3 = S(s2, 3)
    BY DEF s1, s2, s3
  <2>4. CASE k = 0
    BY <2>4
  <2>5. CASE k = 1
    BY <2>2, <2>3, <2>5
  <2>6. CASE k = 2
    BY <2>2, <2>3, <2>6
  <2>7. CASE k = 3
    BY <2>2, <2>3, <2>7
  <2>8. QED
    BY <2>1, <2>4, <2>5, <2>6, <2>7
<1>2. g = [k \in 0 .. n |-> IF k = 0 THEN s0 ELSE S(g[k - 1], k)]
  <2> DEFINE h == [k \in 0 .. n |-> IF k = 0 THEN s0 ELSE S(g[k - 1], k)]
  <2> HIDE DEF s0, s1, s2, s3, S
  <2>1. \A k \in 0 .. n : g[k] = h[k]
    BY <1>1
  <2>2. QED
    BY <2>1
<1>3. QED
  BY <1>2 DEF ShiftLoop

(* What quality() computes are thousandths.                                  *)
LEMMA QualityInThousandths ==
    ASSUME NEW q \in Digits
    PROVE  Quality(q) = Thousandths(q) /\ Quality(q) \in Nat
<1> DEFINE n == Shown(q)
           w == q.whole
           d == q.fraction
           shift == CHOOSE g : ShiftLoop(g, n, w, d)
           digit(k) == IF k <= Len(d) THEN d[k] ELSE 0
<1>1. /\ w \in Nat /\ Len(d) \in Nat
      /\ \A k \in 1 .. Len(d) : d[k] \in 0 .. 9
  BY DEF Digits
<1>2. n \in 0 .. 3 /\ n <= Len(d) /\ (n < 3 => n = Len(d))
  BY ShownDigits
<1>3. \A k \in 1 .. n : d[k] \in 0 .. 9
  <2> HIDE DEF n, w, d
  <2>1. QED
    BY <1>1, <1>2
<1>4. ShiftLoop(shift, n, w, d)
  <2> HIDE DEF n, w, d
  <2>1. \E g : ShiftLoop(g, n, w, d)
    BY <1>2, ShiftExists
  <2>2. QED
    BY <2>1, Zenon
<1>5. Quality(q) = shift[n].value * shift[n].pow
  BY DEF Quality, ShiftLoop
<1>6. Thousandths(q) = 1000 * w + 100 * digit(1) + 10 * digit(2) + digit(3)
  BY DEF Thousandths
<1>7. /\ n = 0 => shift[n].value = w /\ shift[n].pow = 1000
      /\ n = 1 => shift[n].value = 10 * w + d[1] /\ shift[n].pow = 100
      /\ n = 2 => /\ shift[n].value = 100 * w + 10 * d[1] + d[2]
                  /\ shift[n].pow = 10
      /\ n = 3 => /\ shift[n].value = 1000 * w + 100 * d[1] + 10 * d[2] + d[3]
                  /\ shift[n].pow = 1
  <2> HIDE DEF n, w, d, shift
  <2>1. QED
    BY <1>1, <1>2, <1>3, <1>4, ShiftedDigits
<1>8. /\ digit(1) = IF n >= 1 THEN d[1] ELSE 0
      /\ digit(2) = IF n >= 2 THEN d[2] ELSE 0
      /\ digit(3) = IF n >= 3 THEN d[3] ELSE 0
      /\ n >= 1 => d[1] \in 0 .. 9
      /\ n >= 2 => d[2] \in 0 .. 9
      /\ n >= 3 => d[3] \in 0 .. 9
  <2> HIDE DEF n, w, d, shift
  <2>1. QED
    BY <1>1, <1>2, <1>3
<1>9. ASSUME NEW v \in Nat, NEW a \in Nat, NEW b \in Nat, NEW c \in Nat
      PROVE  LET t == 1000 * v + 100 * a + 10 * b + c IN
             /\ t \in Nat
             /\ a = 0 /\ b = 0 /\ c = 0 => t = v * 1000
             /\ b = 0 /\ c = 0 => t = (10 * v + a) * 100
             /\ c = 0 => t = (100 * v + 10 * a + b) * 10
             /\ t = (1000 * v + 100 * a + 10 * b + c) * 1
  OBVIOUS
<1>10. QED
  <2> HIDE DEF n, w, d, shift, digit
  <2>1. digit(1) \in Nat /\ digit(2) \in Nat /\ digit(3) \in Nat
    BY <1>2, <1>8
  <2>2. Thousandths(q) \in Nat
    BY <1>1, <1>6, <1>9, <2>1
  <2>3. Quality(q) = Thousandths(q)
    <3>1. CASE n = 0
      <4>1. digit(1) = 0 /\ digit(2) = 0 /\ digit(3) = 0
        BY <1>8, <3>1
      <4>2. Thousandths(q) = w * 1000
        BY <1>1, <1>6, <1>9, <2>1, <4>1
      <4>3. Quality(q) = w * 1000
        BY <1>5, <1>7, <3>1
      <4>4. QED
        BY <4>2, <4>3
    <3>2. CASE n = 1
      <4>1. digit(1) = d[1] /\ digit(2) = 0 /\ digit(3) = 0
        BY <1>8, <3>2
      <4>2. Thousandths(q) = (10 * w + digit(1)) * 100
        BY <1>1, <1>6, <1>9, <2>1, <4>1
      <4>3. Quality(q) = (10 * w + d[1]) * 100
        BY <1>5, <1>7, <3>2
      <4>4. QED
        BY <4>1, <4>2, <4>3
    <3>3. CASE n = 2
      <4>1. digit(1) = d[1] /\ digit(2) = d[2] /\ digit(3) = 0
        BY <1>8, <3>3
      <4>2. Thousandths(q) = (100 * w + 10 * d[1] + d[2]) * 10
        BY <1>1, <1>6, <1>9, <2>1, <4>1
      <4>3. Quality(q) = (100 * w + 10 * d[1] + d[2]) * 10
        BY <1>5, <1>7, <3>3
      <4>4. QED
        BY <4>2, <4>3
    <3>4. CASE n = 3
      <4>1. digit(1) = d[1] /\ digit(2) = d[2] /\ digit(3) = d[3]
        BY <1>8, <3>4
      <4>2. Thousandths(q) = (1000 * w + 100 * d[1] + 10 * d[2] + d[3]) * 1
        BY <1>1, <1>6, <1>9, <2>1, <4>1
      <4>3. Quality(q) = (1000 * w + 100 * d[1] + 10 * d[2] + d[3]) * 1
        BY <1>5, <1>7, <3>4
      <4>4. QED
        BY <4>2, <4>3
    <3>5. n = 0 \/ n = 1 \/ n = 2 \/ n = 3
      BY <1>2
    <3>6. QED
      BY <3>1, <3>2, <3>3, <3>4, <3>5
  <2>4. QED
    BY <2>2, <2>3

------------------------------------------------------------------------------
(* The list of priorities *)

LEMMA HeaderTypes ==
    ASSUME NEW items \in Seq(Items)
    PROVE  /\ Len(items) \in Nat /\ DOMAIN items = 1 .. Len(items)
           /\ IsFiniteSet(DOMAIN items)
           /\ \A n \in DOMAIN items :
                 /\ items[n].range \in LanguageRanges
                 /\ items[n].q \in Digits
                 /\ Quality(items[n].q) = Thousandths(items[n].q)
                 /\ Thousandths(items[n].q) \in Nat
<1>1. Len(items) \in Nat /\ DOMAIN items = 1 .. Len(items)
  BY LenProperties
<1>2. IsFiniteSet(DOMAIN items)
  BY <1>1, FS_Interval
<1>3. ASSUME NEW n \in DOMAIN items
      PROVE  items[n].range \in LanguageRanges /\ items[n].q \in Digits
  <2>1. items[n] \in Items
    BY <1>1, ElementOfSeq
  <2>2. QED
    BY <2>1 DEF Items
<1>4. QED
  BY <1>1, <1>2, <1>3, QualityInThousandths

(* The order of stable_sort, of any items at all.                            *)
LEMMA BeforeIsOrder ==
    ASSUME NEW items \in Seq(Items)
    PROVE  /\ \A m, n \in DOMAIN items :
                 <<m, n>> \in Before(items) <=>
                    \/ Thousandths(items[m].q) > Thousandths(items[n].q)
                    \/ Thousandths(items[m].q) = Thousandths(items[n].q) /\ m < n
           /\ \A n \in DOMAIN items : <<n, n>> \notin Before(items)
           /\ \A l, m, n \in DOMAIN items :
                 <<l, m>> \in Before(items) /\ <<m, n>> \in Before(items)
                    => <<l, n>> \in Before(items)
           /\ \A m, n \in DOMAIN items :
                 m # n => <<m, n>> \in Before(items) \/ <<n, m>> \in Before(items)
<1> DEFINE t == [n \in DOMAIN items |-> Thousandths(items[n].q)]
<1>1. \A n \in DOMAIN items : t[n] \in Nat /\ n \in Nat
  BY HeaderTypes
<1>2. \A m, n \in DOMAIN items :
         <<m, n>> \in Before(items) <=> t[m] > t[n] \/ (t[m] = t[n] /\ m < n)
  BY HeaderTypes DEF Before
<1> HIDE DEF t
<1>3. \A n \in DOMAIN items : <<n, n>> \notin Before(items)
  BY <1>1, <1>2
<1>4. \A l, m, n \in DOMAIN items :
         <<l, m>> \in Before(items) /\ <<m, n>> \in Before(items)
            => <<l, n>> \in Before(items)
  BY <1>1, <1>2
<1>5. \A m, n \in DOMAIN items :
         m # n => <<m, n>> \in Before(items) \/ <<n, m>> \in Before(items)
  BY <1>1, <1>2
<1>6. QED
  BY <1>2, <1>3, <1>4, <1>5 DEF t

(* A range that is in the header has a best quality and a first place of it. *)
LEMMA BestIsBest ==
    ASSUME header \in Seq(Items), NEW i \in DOMAIN header
    PROVE  LET range == header[i].range
               first == FirstBest(range)
           IN /\ Best(range) \in Nat
              /\ first \in DOMAIN header /\ first \in Nat
              /\ header[first].range = range
              /\ Thousandths(header[first].q) = Best(range)
              /\ \A m \in DOMAIN header : header[m].range = range =>
                    /\ Thousandths(header[m].q) <= Best(range)
                    /\ Thousandths(header[m].q) = Best(range) => first <= m
<1> DEFINE range == header[i].range
           t == [n \in DOMAIN header |-> Thousandths(header[n].q)]
           same == {m \in DOMAIN header : header[m].range = range}
           all == {t[n] : n \in same}
           firsts == {n \in DOMAIN header : header[n].range = range /\ t[n] = Best(range)}
<1>1. /\ Len(header) \in Nat /\ DOMAIN header = 1 .. Len(header)
      /\ IsFiniteSet(DOMAIN header)
      /\ \A n \in DOMAIN header : t[n] \in Nat
  BY HeaderTypes
<1>2. Best(range) = Max(all)
  <2>1. all = {Thousandths(header[n].q) : n \in {m \in DOMAIN header :
                                             header[m].range = range}}
    OBVIOUS
  <2> HIDE DEF all
  <2>2. QED
    BY <2>1 DEF Best
<1>3. all \in SUBSET Int /\ all # {} /\ IsFiniteSet(all)
  <2>1. i \in same /\ same \in SUBSET (1 .. Len(header))
    BY <1>1
  <2>2. IsFiniteSet(all)
    <3> HIDE DEF t, same
    <3>1. QED
      BY <1>1, <2>1, ValuesAreFinite
  <2>3. QED
    BY <1>1, <2>1, <2>2
<1>4. Best(range) \in all /\ \A y \in all : Best(range) >= y
  <2> HIDE DEF all
  <2>1. QED
    BY <1>2, <1>3, MaxIsLargest
<1>5. PICK n \in same : t[n] = Best(range)
  BY <1>4
<1>6. FirstBest(range) = Min(firsts)
  <2>1. firsts = {n_1 \in DOMAIN header : /\ header[n_1].range = range
                                          /\ Thousandths(header[n_1].q) = Best(range)}
    OBVIOUS
  <2> HIDE DEF firsts
  <2>2. QED
    BY <2>1 DEF FirstBest
<1>7. firsts \in SUBSET Int /\ firsts # {} /\ IsFiniteSet(firsts)
  <2>1. firsts \in SUBSET (DOMAIN header)
    OBVIOUS
  <2>2. n \in firsts
    BY <1>5
  <2> HIDE DEF firsts
  <2>3. IsFiniteSet(firsts)
    BY <1>1, <2>1, FS_Subset
  <2>4. QED
    BY <1>1, <2>1, <2>2, <2>3
<1>8. FirstBest(range) \in firsts /\ \A m \in firsts : FirstBest(range) <= m
  <2> HIDE DEF firsts
  <2>1. QED
    BY <1>6, <1>7, MinIsSmallest
<1>9. \A m \in DOMAIN header : header[m].range = range =>
         /\ Thousandths(header[m].q) <= Best(range)
         /\ Thousandths(header[m].q) = Best(range) => FirstBest(range) <= m
  <2>1. ASSUME NEW m \in DOMAIN header, header[m].range = range
        PROVE  t[m] <= Best(range) /\ (t[m] = Best(range) => m \in firsts)
    <3>1. t[m] \in all
      BY <2>1
    <3>2. t[m] <= Best(range)
      <4> HIDE DEF all, t
      <4>1. QED
        BY <1>1, <1>3, <1>4, <2>1, <3>1
    <3>3. QED
      BY <2>1, <3>2
  <2>2. QED
    BY <1>8, <2>1
<1>10. Best(range) \in Nat
  BY <1>1, <1>5
<1>11. FirstBest(range) \in Nat
  BY <1>1, <1>8
<1>12. QED
  BY <1>8, <1>9, <1>10, <1>11

(* What stays of several items with a range is the first of the best.        *)
LEMMA KeptIsFirstBest ==
    ASSUME header \in Seq(Items), NEW n \in DOMAIN header
    PROVE  n \in Kept(header) <=> n = FirstBest(header[n].range)
<1> DEFINE range == header[n].range
           t == [m \in DOMAIN header |-> Thousandths(header[m].q)]
           first == FirstBest(range)
<1>1. /\ Best(range) \in Nat
      /\ first \in DOMAIN header /\ first \in Nat
      /\ header[first].range = range
      /\ t[first] = Best(range)
      /\ \A m \in DOMAIN header : header[m].range = range =>
            t[m] <= Best(range) /\ (t[m] = Best(range) => first <= m)
  BY BestIsBest
<1>2. /\ \A m \in DOMAIN header : t[m] \in Nat /\ m \in Nat
  BY HeaderTypes
<1>3. \A l, m \in DOMAIN header :
         <<l, m>> \in Before(header) <=> t[l] > t[m] \/ (t[l] = t[m] /\ l < m)
  BY BeforeIsOrder
<1> HIDE DEF t, first
<1>4. ASSUME n \in Kept(header) PROVE n = first
  <2>1. <<first, n>> \notin Before(header)
    BY <1>1, <1>4 DEF Kept
  <2>2. t[n] <= Best(range) /\ (t[n] = Best(range) => first <= n)
    BY <1>1
  <2>3. QED
    BY <1>1, <1>2, <1>3, <2>1, <2>2
<1>5. ASSUME n = first PROVE n \in Kept(header)
  <2>1. ASSUME NEW m \in DOMAIN header, header[m].range = range
        PROVE  <<m, n>> \notin Before(header)
    <3>1. t[m] <= Best(range) /\ (t[m] = Best(range) => first <= m)
      BY <1>1, <2>1
    <3>2. t[n] = Best(range)
      BY <1>1, <1>5
    <3>3. QED
      BY <1>1, <1>2, <1>3, <1>5, <3>1, <3>2
  <2>2. QED
    BY <2>1 DEF Kept
<1>6. QED
  BY <1>4, <1>5 DEF first

LEMMA PriorityListFacts ==
    ASSUME header \in Seq(Items)
    PROVE  LET list == PriorityList(header) IN
           /\ list \in Seq(LanguageRanges)
           /\ Distinct(list)
           /\ Elements(list) = {header[n].range : n \in DOMAIN header}
           /\ \A r, s : Better(r, s) => Precedes(list, r, s)
<1> DEFINE S == Kept(header)
           R == Before(header)
           size == Cardinality(S)
           order == Sorted(S, R)
           list == PriorityList(header)
<1>1. S \in SUBSET (DOMAIN header) /\ IsFiniteSet(S)
  <2>1. S \in SUBSET (DOMAIN header)
    BY DEF Kept
  <2> HIDE DEF S
  <2>2. QED
    BY <2>1, HeaderTypes, FS_Subset
<1>2. /\ size \in Nat
      /\ DOMAIN order = 1 .. size
      /\ \A k \in 1 .. size : order[k] \in S
      /\ \A n \in S : \E k \in 1 .. size : order[k] = n
      /\ \A i, j \in 1 .. size : i < j => <<order[i], order[j]>> \in R
  <2>1. /\ \A n \in S : <<n, n>> \notin R
        /\ \A l, m, n \in S : <<l, m>> \in R /\ <<m, n>> \in R => <<l, n>> \in R
        /\ \A m, n \in S : m # n => <<m, n>> \in R \/ <<n, m>> \in R
    <3> HIDE DEF S, R
    <3>1. QED
      BY <1>1, BeforeIsOrder DEF R
  <2> HIDE DEF S, R
  <2>2. QED
    BY <1>1, <2>1, SortedFollowsOrder
<1>3. list = [k \in 1 .. size |-> header[order[k]].range]
  <2>1. list = [k \in DOMAIN order |-> header[order[k]].range]
    BY DEF PriorityList
  <2> HIDE DEF list, order, size
  <2>2. QED
    BY <1>2, <2>1
<1> HIDE DEF order, size, list, S, R
<1>4. list \in Seq(LanguageRanges) /\ DOMAIN list = 1 .. size
  <2>1. \A k \in 1 .. size : header[order[k]].range \in LanguageRanges
    BY <1>1, <1>2, HeaderTypes
  <2>2. QED
    BY <1>2, <1>3, <2>1, IsASeq
<1>5. ASSUME NEW k \in 1 .. size
      PROVE  /\ order[k] \in DOMAIN header
             /\ list[k] = header[order[k]].range
             /\ order[k] = FirstBest(list[k])
             /\ Thousandths(header[order[k]].q) = Best(list[k])
             /\ Best(list[k]) \in Nat /\ FirstBest(list[k]) \in Nat
  <2>1. order[k] \in DOMAIN header /\ list[k] = header[order[k]].range
    BY <1>1, <1>2, <1>3
  <2>2. order[k] = FirstBest(list[k])
    BY <1>2, <2>1, KeptIsFirstBest DEF S
  <2>3. QED
    BY <2>1, <2>2, BestIsBest
<1>6. Distinct(list)
  <2>1. ASSUME NEW i \in 1 .. size, NEW j \in 1 .. size, list[i] = list[j]
        PROVE  ~(i < j)
    <3>1. order[i] = order[j]
      BY <1>5, <2>1
    <3>2. <<order[i], order[j]>> \notin R
      BY <1>5, <3>1, BeforeIsOrder DEF R
    <3>3. QED
      BY <1>2, <3>2
  <2>2. ASSUME NEW i \in 1 .. size, NEW j \in 1 .. size, list[i] = list[j]
        PROVE  i = j
    <3>1. ~(i < j) /\ ~(j < i)
      BY <2>1, <2>2
    <3>2. QED
      BY <1>2, <3>1
  <2>3. QED
    BY <1>4, <2>2 DEF Distinct
<1>7. Elements(list) = {header[n].range : n \in DOMAIN header}
  <2>1. ASSUME NEW n \in DOMAIN header
        PROVE  \E k \in 1 .. size : list[k] = header[n].range
    <3>1. /\ FirstBest(header[n].range) \in DOMAIN header
          /\ header[FirstBest(header[n].range)].range = header[n].range
      BY BestIsBest
    <3>2. FirstBest(header[n].range) \in S
      BY <3>1, KeptIsFirstBest DEF S
    <3>3. PICK k \in 1 .. size : order[k] = FirstBest(header[n].range)
      BY <1>2, <3>2
    <3>4. QED
      BY <1>5, <3>1, <3>3
  <2>2. ASSUME NEW k \in 1 .. size
        PROVE  \E n \in DOMAIN header : list[k] = header[n].range
    BY <1>5
  <2>3. Elements(list) = {list[k] : k \in 1 .. size}
    BY <1>4 DEF Elements
  <2>4. {list[k] : k \in 1 .. size} = {header[n].range : n \in DOMAIN header}
    <3>1. ASSUME NEW x \in {list[k] : k \in 1 .. size}
          PROVE  x \in {header[n].range : n \in DOMAIN header}
      <4>1. PICK k \in 1 .. size : x = list[k]
        BY <3>1
      <4>2. QED
        BY <2>2, <4>1
    <3>2. ASSUME NEW x \in {header[n].range : n \in DOMAIN header}
          PROVE  x \in {list[k] : k \in 1 .. size}
      <4>1. PICK n \in DOMAIN header : x = header[n].range
        BY <3>2
      <4>2. QED
        BY <2>1, <4>1
    <3>3. QED
      BY <3>1, <3>2
  <2>5. QED
    BY <2>3, <2>4
<1>8. ASSUME NEW r, NEW s, Better(r, s),
             NEW i \in 1 .. size, NEW j \in 1 .. size, list[i] = r, list[j] = s
      PROVE  i < j
  <2>1. /\ Best(r) \in Nat /\ Best(s) \in Nat
        /\ FirstBest(r) \in Nat /\ FirstBest(s) \in Nat
    BY <1>5, <1>8
  <2>2. CASE j < i
    <3>1. <<order[j], order[i]>> \in R
      BY <1>2, <2>2
    <3>2. \/ Best(s) > Best(r)
          \/ Best(s) = Best(r) /\ FirstBest(s) < FirstBest(r)
      BY <1>5, <1>8, <3>1, BeforeIsOrder DEF R
    <3>3. QED
      BY <1>8, <2>1, <3>2 DEF Better
  <2>3. CASE j = i
    BY <1>8, <2>1, <2>3 DEF Better
  <2>4. QED
    BY <1>2, <2>2, <2>3
<1>9. QED
  BY <1>4, <1>6, <1>7, <1>8 DEF list, Precedes

------------------------------------------------------------------------------
(* Shorter ranges *)

LEMMA ShorterFacts ==
    ASSUME NEW r \in LanguageRanges
    PROVE  /\ r \in Seq(Subtags) /\ Len(r) \in Nat \ {0}
           /\ r \in Shorter(r)
           /\ \A k \in 1 .. Len(r) :
                 /\ SubSeq(r, 1, k) \in LanguageRanges
                 /\ SubSeq(r, 1, k) \in Shorter(r)
                 /\ Len(SubSeq(r, 1, k)) = k
                 /\ \A l \in 1 .. k :
                       SubSeq(SubSeq(r, 1, k), 1, l) = SubSeq(r, 1, l)
           /\ \A s \in Shorter(r) :
                 /\ s \in LanguageRanges
                 /\ Len(s) \in 1 .. Len(r)
                 /\ s = SubSeq(r, 1, Len(s))
                 /\ Shorter(s) \subseteq Shorter(r)
<1>1. r \in Seq(Subtags) /\ Len(r) \in Nat \ {0}
  BY EmptySeq DEF LanguageRanges
<1>2. ASSUME NEW k \in 1 .. Len(r)
      PROVE  /\ SubSeq(r, 1, k) \in LanguageRanges
             /\ SubSeq(r, 1, k) \in Shorter(r)
             /\ Len(SubSeq(r, 1, k)) = k
             /\ \A l \in 1 .. k :
                   SubSeq(SubSeq(r, 1, k), 1, l) = SubSeq(r, 1, l)
  <2>1. \A i \in 1 .. k : r[i] \in Subtags
    BY <1>1, ElementOfSeq
  <2>2. SubSeq(r, 1, k) \in Seq(Subtags) /\ Len(SubSeq(r, 1, k)) = k
    BY <2>1, SubSeqProperties
  <2>3. SubSeq(r, 1, k) # <<>>
    BY <2>2, EmptySeq
  <2>4. ASSUME NEW l \in 1 .. k
        PROVE  SubSeq(SubSeq(r, 1, k), 1, l) = SubSeq(r, 1, l)
    <3>1. /\ 1 \in 1 .. Len(r) /\ 1 \in 1 .. k - 1 + 1 /\ l \in 1 .. k - 1 + 1
          /\ 1 + 1 - 1 = 1 /\ 1 + l - 1 = l
      BY <1>1
    <3>2. SubSeq(SubSeq(r, 1, k), 1, l) = SubSeq(r, 1 + 1 - 1, 1 + l - 1)
      BY <1>1, <3>1, SubSeqOfSubSeq
    <3>3. QED
      BY <3>1, <3>2
  <2>5. QED
    BY <2>2, <2>3, <2>4 DEF LanguageRanges, Shorter
<1>3. r \in Shorter(r)
  <2>1. SubSeq(r, 1, Len(r)) = r
    BY <1>1, SubSeqFull
  <2>2. Len(r) \in 1 .. Len(r)
    BY <1>1
  <2>3. QED
    BY <2>1, <2>2 DEF Shorter
<1>4. ASSUME NEW s \in Shorter(r)
      PROVE  /\ s \in LanguageRanges
             /\ Len(s) \in 1 .. Len(r)
             /\ s = SubSeq(r, 1, Len(s))
             /\ Shorter(s) \subseteq Shorter(r)
  <2>1. PICK k \in 1 .. Len(r) : s = SubSeq(r, 1, k)
    BY DEF Shorter
  <2>2. s \in LanguageRanges /\ Len(s) = k
    BY <1>2, <2>1
  <2>3. ASSUME NEW l \in 1 .. Len(s) PROVE SubSeq(s, 1, l) \in Shorter(r)
    <3>1. l \in 1 .. k /\ l \in 1 .. Len(r)
      BY <1>1, <2>2
    <3>2. SubSeq(s, 1, l) = SubSeq(r, 1, l)
      BY <1>2, <2>1, <3>1
    <3>3. QED
      BY <1>2, <3>1, <3>2
  <2>4. Shorter(s) \subseteq Shorter(r)
    BY <2>3 DEF Shorter
  <2>5. QED
    BY <2>1, <2>2, <2>4
<1>5. QED
  BY <1>1, <1>2, <1>3, <1>4

(* Two shorter versions of the same range of the same length are one, and of *)
(* two different ones one is within the other.                               *)
LEMMA FrontFacts ==
    ASSUME NEW r \in LanguageRanges, Len(r) > 1
    PROVE  /\ Front(r) \in Shorter(r)
           /\ Front(r) \in LanguageRanges
           /\ Len(Front(r)) = Len(r) - 1
           /\ Front(r) = SubSeq(r, 1, Len(r) - 1)
<1>1. Len(r) \in Nat /\ Len(r) - 1 \in 1 .. Len(r)
  <2>1. Len(r) \in Nat
    BY ShorterFacts
  <2>2. QED
    BY <2>1
<1>2. QED
  BY <1>1, ShorterFacts DEF Front

(* IsPrefix is the same in other words.                                      *)
LEMMA PrefixIsShorter ==
    ASSUME NEW r \in LanguageRanges, NEW s \in LanguageRanges
    PROVE  IsPrefix(s, r) <=> s \in Shorter(r)
<1>1. /\ Len(s) \in Nat \ {0} /\ Len(r) \in Nat \ {0}
      /\ SubSeq(s, 1, Len(s)) = s
  BY ShorterFacts, SubSeqFull
<1>2. ASSUME IsPrefix(s, r) PROVE s \in Shorter(r)
  <2>1. Len(s) \in 1 .. Len(r) /\ s = SubSeq(r, 1, Len(s))
    BY <1>1, <1>2 DEF IsPrefix
  <2>2. QED
    BY <2>1 DEF Shorter
<1>3. ASSUME s \in Shorter(r) PROVE IsPrefix(s, r)
  <2>1. Len(s) \in 1 .. Len(r) /\ s = SubSeq(r, 1, Len(s))
    BY <1>3, ShorterFacts
  <2>2. Len(s) <= Len(r)
    BY <1>1, <2>1
  <2>3. QED
    BY <1>1, <2>1, <2>2 DEF IsPrefix
<1>4. QED
  BY <1>2, <1>3

(* What has the next shorter version of everything in it has all of them.    *)
LEMMA ClosedUnderFront ==
    ASSUME NEW L \in SUBSET LanguageRanges,
           \A r \in L : Len(r) > 1 => Front(r) \in L
    PROVE  \A r \in L : Shorter(r) \subseteq L
<1> DEFINE Good == {d \in Nat : \A r \in L :
                      d < Len(r) => SubSeq(r, 1, Len(r) - d) \in L}
<1>1. 0 \in Good
  <2>1. ASSUME NEW r \in L PROVE SubSeq(r, 1, Len(r) - 0) \in L
    <3>1. Len(r) - 0 = Len(r) /\ SubSeq(r, 1, Len(r)) = r
      BY ShorterFacts, SubSeqFull
    <3>2. QED
      BY <3>1
  <2>2. QED
    BY <2>1
<1>2. ASSUME NEW d \in Good PROVE d + 1 \in Good
  <2>1. ASSUME NEW r \in L, d + 1 < Len(r)
        PROVE  SubSeq(r, 1, Len(r) - (d + 1)) \in L
    <3> DEFINE u == SubSeq(r, 1, Len(r) - d)
               k == Len(r) - d
    <3>1. /\ d \in Nat /\ Len(r) \in Nat /\ d < Len(r)
          /\ k \in 1 .. Len(r) /\ k > 1 /\ k - 1 \in 1 .. k
          /\ k - 1 = Len(r) - (d + 1)
      <4>1. d \in Nat /\ Len(r) \in Nat
        BY ShorterFacts
      <4>2. QED
        BY <2>1, <4>1
    <3>2. u \in L
      BY <3>1
    <3>3. Len(u) = k
      BY <3>1, ShorterFacts
    <3>4. Front(u) \in L /\ Front(u) = SubSeq(u, 1, k - 1)
      <4> HIDE DEF u, k
      <4>1. QED
        BY <3>1, <3>2, <3>3, FrontFacts
    <3>5. SubSeq(u, 1, k - 1) = SubSeq(r, 1, k - 1)
      BY <3>1, ShorterFacts
    <3>6. QED
      BY <3>1, <3>4, <3>5
  <2>2. QED
    BY <2>1
<1>3. \A d \in Nat : d \in Good
  <2>1. Good \in SUBSET Nat
    OBVIOUS
  <2> HIDE DEF Good
  <2>2. QED
    BY <1>1, <1>2, <2>1, InductionOverNat
<1>4. ASSUME NEW r \in L, NEW k \in 1 .. Len(r)
      PROVE  SubSeq(r, 1, k) \in L
  <2>1. Len(r) \in Nat /\ Len(r) - k \in Nat /\ Len(r) - k < Len(r)
        /\ Len(r) - (Len(r) - k) = k
    BY ShorterFacts
  <2>2. QED
    BY <1>3, <2>1
<1>5. QED
  BY <1>4 DEF Shorter

------------------------------------------------------------------------------
(* Lists *)

LEMMA ListTypes ==
    ASSUME NEW list \in Seq(LanguageRanges)
    PROVE  /\ Len(list) \in Nat /\ DOMAIN list = 1 .. Len(list)
           /\ IsFiniteSet(DOMAIN list)
           /\ \A n \in DOMAIN list : list[n] \in LanguageRanges
           /\ Elements(list) \in SUBSET LanguageRanges
           /\ \A r : Inside(list, r) <=> r \in Elements(list)
<1>1. Len(list) \in Nat /\ DOMAIN list = 1 .. Len(list)
  BY LenProperties
<1>2. \A n \in DOMAIN list : list[n] \in LanguageRanges
  BY <1>1, ElementOfSeq
<1>3. IsFiniteSet(DOMAIN list)
  BY <1>1, FS_Interval
<1>4. \A r : Inside(list, r) <=> r \in Elements(list)
  BY DEF Inside, Elements
<1>5. QED
  BY <1>1, <1>2, <1>3, <1>4 DEF Elements

(* A range that is not in a list may be inserted anywhere: what is there     *)
(* keeps its order.                                                          *)
LEMMA InsertKeepsOrder ==
    ASSUME NEW list \in Seq(LanguageRanges), NEW at \in 1 .. Len(list) + 1,
           NEW r \in LanguageRanges, r \notin Elements(list), Distinct(list)
    PROVE  LET new == InsertAt(list, at, r) IN
           /\ new \in Seq(LanguageRanges)
           /\ Elements(new) = Elements(list) \cup {r}
           /\ Distinct(new)
           /\ at \in DOMAIN new /\ new[at] = r
           /\ \A n \in DOMAIN new : n # at => \E k \in DOMAIN list :
                 new[n] = list[k] /\ n = IF k < at THEN k ELSE k + 1
<1> DEFINE new == InsertAt(list, at, r)
           len == Len(list)
           Old(n) == IF n < at THEN n ELSE n - 1
<1>1. len \in Nat /\ DOMAIN list = 1 .. len /\ at \in 1 .. len + 1
  BY ListTypes
<1>2. /\ new \in Seq(LanguageRanges) /\ Len(new) = len + 1
      /\ DOMAIN new = 1 .. len + 1
      /\ \A k \in 1 .. len + 1 :
            new[k] = IF k < at THEN list[k] ELSE IF k = at THEN r ELSE list[k - 1]
  <2>1. /\ InsertAt(list, at, r) \in Seq(LanguageRanges)
        /\ Len(InsertAt(list, at, r)) = Len(list) + 1
        /\ \A k \in 1 .. Len(list) + 1 :
             InsertAt(list, at, r)[k] = IF k < at THEN list[k]
                                        ELSE IF k = at THEN r ELSE list[k - 1]
    BY InsertAtProperties
  <2>2. DOMAIN new = 1 .. len + 1
    BY <2>1, ListTypes
  <2>3. QED
    BY <2>1, <2>2
<1> HIDE DEF new
<1>3. at \in DOMAIN new /\ new[at] = r
  <2>1. at \in 1 .. len + 1 /\ ~(at < at)
    BY <1>1
  <2>2. QED
    BY <1>2, <2>1
<1>4. ASSUME NEW n \in 1 .. len + 1, n # at
      PROVE  /\ Old(n) \in DOMAIN list /\ new[n] = list[Old(n)]
             /\ n = IF Old(n) < at THEN Old(n) ELSE Old(n) + 1
  <2>1. n < at \/ n > at
    BY <1>1, <1>4
  <2>2. CASE n < at
    <3>1. n \in 1 .. len /\ Old(n) = n
      BY <1>1, <2>2
    <3>2. new[n] = list[n]
      BY <1>2, <2>2
    <3>3. QED
      BY <1>1, <2>2, <3>1, <3>2
  <2>3. CASE n > at
    <3>1. n - 1 \in 1 .. len /\ Old(n) = n - 1 /\ ~(n - 1 < at) /\ n - 1 + 1 = n
      BY <1>1, <2>3
    <3>2. new[n] = list[n - 1]
      BY <1>1, <1>2, <1>4, <2>3
    <3>3. QED
      BY <1>1, <3>1, <3>2
  <2>4. QED
    BY <2>1, <2>2, <2>3
<1>5. ASSUME NEW k \in 1 .. len
      PROVE  \E n \in 1 .. len + 1 : new[n] = list[k]
  <2>1. CASE k < at
    <3>1. k \in 1 .. len + 1
      BY <1>1
    <3>2. QED
      BY <1>2, <2>1, <3>1
  <2>2. CASE ~(k < at)
    <3>1. /\ k + 1 \in 1 .. len + 1 /\ ~(k + 1 < at) /\ k + 1 # at
          /\ k + 1 - 1 = k
      BY <1>1, <2>2
    <3>2. new[k + 1] = list[k]
      BY <1>2, <3>1
    <3>3. QED
      BY <3>1, <3>2
  <2>3. QED
    BY <2>1, <2>2
<1>6. Elements(new) = Elements(list) \cup {r}
  <2>1. \A x \in Elements(new) : x \in Elements(list) \cup {r}
    BY <1>2, <1>3, <1>4 DEF Elements
  <2>2. r \in Elements(new)
    BY <1>3 DEF Elements
  <2>3. \A x \in Elements(list) : x \in Elements(new)
    <3>1. ASSUME NEW k \in 1 .. len PROVE list[k] \in Elements(new)
      <4>1. PICK n \in 1 .. len + 1 : new[n] = list[k]
        BY <1>5
      <4>2. n \in DOMAIN new
        BY <1>2
      <4>3. QED
        BY <4>1, <4>2 DEF Elements
    <3>2. QED
      BY <1>1, <3>1 DEF Elements
  <2>4. QED
    BY <2>1, <2>2, <2>3
<1>7. Distinct(new)
  <2>1. ASSUME NEW m \in 1 .. len + 1, NEW n \in 1 .. len + 1, new[m] = new[n]
        PROVE  m = n
    <3>1. CASE m = at \/ n = at
      <4>1. \A k \in 1 .. len + 1 : k # at => new[k] # r
        BY <1>4 DEF Elements
      <4>2. QED
        BY <1>3, <2>1, <3>1, <4>1
    <3>2. CASE m # at /\ n # at
      <4>1. Old(m) = Old(n)
        BY <1>4, <2>1, <3>2 DEF Distinct
      <4>2. QED
        BY <1>4, <3>2, <4>1
    <3>3. QED
      BY <3>1, <3>2
  <2>2. QED
    BY <1>2, <2>1 DEF Distinct
<1>8. QED
  BY <1>2, <1>3, <1>4, <1>6, <1>7 DEF new

LEMMA InsertPrecedes ==
    ASSUME NEW list \in Seq(LanguageRanges), NEW at \in 1 .. Len(list) + 1,
           NEW r \in LanguageRanges, r \notin Elements(list), Distinct(list)
    PROVE  LET new == InsertAt(list, at, r) IN
           /\ \A x, y \in Elements(list) : Precedes(list, x, y) => Precedes(new, x, y)
           /\ \A x \in Elements(list) :
                 (\A n \in DOMAIN list : list[n] = x => n < at) => Precedes(new, x, r)
<1> DEFINE new == InsertAt(list, at, r)
<1>1. /\ at \in DOMAIN new /\ new[at] = r
      /\ \A n \in DOMAIN new : n # at => \E k \in DOMAIN list :
            new[n] = list[k] /\ n = IF k < at THEN k ELSE k + 1
  BY InsertKeepsOrder
<1>2. at \in Nat /\ DOMAIN list \subseteq Nat
  BY ListTypes
<1> HIDE DEF new
<1>3. ASSUME NEW x \in Elements(list), NEW y \in Elements(list), Precedes(list, x, y)
      PROVE  Precedes(new, x, y)
  <2>1. ASSUME NEW m \in DOMAIN new, NEW n \in DOMAIN new, new[m] = x, new[n] = y
        PROVE  m < n
    <3>1. m # at /\ n # at
      BY <1>1, <2>1
    <3>2. PICK k \in DOMAIN list : list[k] = x /\ m = IF k < at THEN k ELSE k + 1
      BY <1>1, <2>1, <3>1
    <3>3. PICK l \in DOMAIN list : list[l] = y /\ n = IF l < at THEN l ELSE l + 1
      BY <1>1, <2>1, <3>1
    <3>4. k < l /\ k \in Nat /\ l \in Nat
      BY <1>2, <1>3, <3>2, <3>3 DEF Precedes
    <3>5. QED
      BY <1>2, <3>2, <3>3, <3>4
  <2>2. QED
    BY <2>1 DEF Precedes
<1>4. ASSUME NEW x \in Elements(list), \A n \in DOMAIN list : list[n] = x => n < at
      PROVE  Precedes(new, x, r)
  <2>1. ASSUME NEW m \in DOMAIN new, NEW n \in DOMAIN new, new[m] = x, new[n] = r
        PROVE  m < n
    <3>1. m # at /\ n = at
      BY <1>1, <2>1 DEF Elements
    <3>2. PICK k \in DOMAIN list : list[k] = x /\ m = IF k < at THEN k ELSE k + 1
      BY <1>1, <2>1, <3>1
    <3>3. QED
      BY <1>4, <3>1, <3>2
  <2>2. QED
    BY <2>1 DEF Precedes
<1>5. QED
  BY <1>3, <1>4 DEF new

(* Appending is inserting behind everything.                                 *)
LEMMA AppendFacts ==
    ASSUME NEW list \in Seq(LanguageRanges), NEW r \in LanguageRanges,
           r \notin Elements(list), Distinct(list)
    PROVE  LET new == Append(list, r) IN
           /\ new \in Seq(LanguageRanges)
           /\ Elements(new) = Elements(list) \cup {r}
           /\ Distinct(new)
           /\ \A x, y \in Elements(list) : Precedes(list, x, y) => Precedes(new, x, y)
           /\ \A x \in Elements(list) : Precedes(new, x, r)
<1> DEFINE at == Len(list) + 1
<1>1. /\ Len(list) \in Nat /\ DOMAIN list = 1 .. Len(list)
  BY ListTypes
<1>2. at \in 1 .. Len(list) + 1 /\ \A n \in DOMAIN list : n < at
  BY <1>1
<1>3. Append(list, r) = InsertAt(list, at, r)
  <2>1. InsertAt(list, at, r) \in Seq(LanguageRanges)
        /\ Len(InsertAt(list, at, r)) = Len(list) + 1
        /\ \A k \in 1 .. Len(list) + 1 :
             InsertAt(list, at, r)[k] = IF k < at THEN list[k]
                                        ELSE IF k = at THEN r ELSE list[k - 1]
    <3> HIDE DEF at
    <3>1. \A i \in 1 .. Len(list) + 1 :
            /\ InsertAt(list, i, r) \in Seq(LanguageRanges)
            /\ Len(InsertAt(list, i, r)) = Len(list) + 1
            /\ \A k \in 1 .. Len(list) + 1 :
                 InsertAt(list, i, r)[k] = IF k < i THEN list[k]
                                           ELSE IF k = i THEN r ELSE list[k - 1]
      BY InsertAtProperties
    <3>2. QED
      BY <1>2, <3>1
  <2>2. /\ Append(list, r) \in Seq(LanguageRanges)
        /\ Len(Append(list, r)) = Len(list) + 1
        /\ \A i \in 1 .. Len(list) : Append(list, r)[i] = list[i]
        /\ Append(list, r)[Len(list) + 1] = r
    BY AppendProperties
  <2>3. ASSUME NEW k \in 1 .. Len(list) + 1
        PROVE  Append(list, r)[k] = InsertAt(list, at, r)[k]
    <3>1. k \in 1 .. Len(list) \/ k = Len(list) + 1
      BY <1>1
    <3>2. CASE k \in 1 .. Len(list)
      BY <1>1, <2>1, <2>2, <3>2
    <3>3. CASE k = Len(list) + 1
      BY <1>1, <2>1, <2>2, <3>3
    <3>4. QED
      BY <3>1, <3>2, <3>3
  <2>4. QED
    BY <2>1, <2>2, <2>3, SeqEqual
<1>4. QED
  BY <1>2, <1>3, InsertKeepsOrder, InsertPrecedes

(* appendLocale: what of the range and its shorter versions is not in a list *)
(* comes behind it, from the longest to the shortest.                        *)
LEMMA WithShorterFacts ==
    ASSUME NEW list \in Seq(LanguageRanges), Distinct(list), NEW r \in LanguageRanges,
           \A x \in Elements(list) : Shorter(x) \subseteq Elements(list)
    PROVE  LET new == WithShorter(list, r) IN
           /\ new \in Seq(LanguageRanges)
           /\ Distinct(new)
           /\ Elements(new) = Elements(list) \cup Shorter(r)
           /\ \A n \in DOMAIN list : n \in DOMAIN new /\ new[n] = list[n]
           /\ \A n \in DOMAIN new : n \notin DOMAIN list =>
                 n > Len(list) /\ new[n] \in Shorter(r) \ Elements(list)
           /\ \A m, n \in DOMAIN new :
                 m \notin DOMAIN list /\ m < n => Len(new[m]) > Len(new[n])
<1> DEFINE L == Len(list)
           R == Len(r)
           C == [k \in DOMAIN r |-> SubSeq(r, 1, R + 1 - k)]
           inside == {k \in DOMAIN r : Inside(list, C[k])}
           c == IF inside = {} THEN R ELSE Min(inside) - 1
           tail == SubSeq(C, 1, c)
           new == WithShorter(list, r)
<1>1. /\ L \in Nat /\ DOMAIN list = 1 .. L
      /\ R \in Nat \ {0} /\ DOMAIN r = 1 .. R
  <2>1. r \in Seq(Subtags) /\ R \in Nat \ {0}
    BY ShorterFacts
  <2>2. QED
    BY <2>1, ListTypes, LenProperties
<1>2. new = list \o tail
  BY DEF WithShorter
<1>3. ASSUME NEW k \in 1 .. R
      PROVE  /\ R + 1 - k \in 1 .. R /\ C[k] = SubSeq(r, 1, R + 1 - k)
             /\ C[k] \in LanguageRanges /\ C[k] \in Shorter(r)
             /\ Len(C[k]) = R + 1 - k
  <2>1. R + 1 - k \in 1 .. R
    BY <1>1
  <2>2. C[k] = SubSeq(r, 1, R + 1 - k)
    BY <1>1
  <2>3. /\ SubSeq(r, 1, R + 1 - k) \in LanguageRanges
        /\ SubSeq(r, 1, R + 1 - k) \in Shorter(r)
        /\ Len(SubSeq(r, 1, R + 1 - k)) = R + 1 - k
    <3>1. \A l \in 1 .. Len(r) : /\ SubSeq(r, 1, l) \in LanguageRanges
                                  /\ SubSeq(r, 1, l) \in Shorter(r)
                                  /\ Len(SubSeq(r, 1, l)) = l
      BY ShorterFacts DEF Shorter
    <3>2. QED
      BY <2>1, <3>1, Zenon
  <2>4. QED
    BY <2>1, <2>2, <2>3
<1>4. /\ c \in 0 .. R
      /\ \A k \in 1 .. c : C[k] \notin Elements(list)
      /\ \A k \in c + 1 .. R : C[k] \in Elements(list)
  <2>1. inside \in SUBSET (1 .. R) /\ IsFiniteSet(inside)
    <3>1. inside \in SUBSET (1 .. R)
      BY <1>1
    <3>2. IsFiniteSet(1 .. R)
      BY <1>1, FS_Interval
    <3> HIDE DEF inside
    <3>3. QED
      BY <3>1, <3>2, FS_Subset
  <2>2. \A k \in 1 .. R : k \in inside <=> C[k] \in Elements(list)
    BY <1>1, ListTypes
  <2> HIDE DEF inside, C, R
  <2>3. CASE inside = {}
    BY <1>1, <2>2, <2>3
  <2>4. CASE inside # {}
    <3> DEFINE i == Min(inside)
    <3>1. inside \in SUBSET Int
      BY <2>1
    <3>2. i \in inside /\ \A y \in inside : i <= y
      BY <2>1, <2>4, <3>1, MinIsSmallest
    <3>3. i \in 1 .. R /\ c = i - 1
      BY <2>1, <2>4, <3>2
    <3> HIDE DEF i, c
    <3>4. c \in 0 .. R
      BY <1>1, <3>3
    <3>5. ASSUME NEW k \in 1 .. c PROVE C[k] \notin Elements(list)
      <4>1. k \in 1 .. R /\ ~(i <= k)
        BY <1>1, <3>3
      <4>2. QED
        BY <2>2, <3>2, <4>1
    <3>6. ASSUME NEW k \in c + 1 .. R PROVE C[k] \in Elements(list)
      <4>1. /\ k \in 1 .. R /\ R + 1 - i \in 1 .. R
            /\ R + 1 - k \in 1 .. R + 1 - i
        BY <1>1, <3>3
      <4>2. C[k] = SubSeq(C[i], 1, R + 1 - k)
        <5>1. C[k] = SubSeq(r, 1, R + 1 - k) /\ C[i] = SubSeq(r, 1, R + 1 - i)
          BY <1>3, <3>3, <4>1
        <5>2. SubSeq(SubSeq(r, 1, R + 1 - i), 1, R + 1 - k) = SubSeq(r, 1, R + 1 - k)
          BY <4>1, ShorterFacts DEF R
        <5>3. QED
          BY <5>1, <5>2
      <4>3. C[k] \in Shorter(C[i])
        <5>1. Len(C[i]) = R + 1 - i
          BY <1>3, <3>3
        <5>2. QED
          BY <4>1, <4>2, <5>1 DEF Shorter
      <4>4. C[i] \in Elements(list)
        BY <2>2, <3>2, <3>3
      <4>5. QED
        BY <4>3, <4>4
    <3>7. QED
      BY <3>4, <3>5, <3>6
  <2>5. QED
    BY <2>3, <2>4
<1> HIDE DEF c, C, R
<1>5. /\ tail \in Seq(LanguageRanges) /\ Len(tail) = c
      /\ \A k \in 1 .. c : tail[k] = C[k]
  <2>1. c \in Int /\ \A k \in 1 .. c : C[k] \in LanguageRanges
    BY <1>1, <1>3, <1>4
  <2>2. /\ tail \in Seq(LanguageRanges)
        /\ Len(tail) = IF 1 <= c THEN c - 1 + 1 ELSE 0
        /\ \A k \in 1 .. c - 1 + 1 : tail[k] = C[1 + k - 1]
    BY <2>1, SubSeqProperties
  <2> HIDE DEF tail
  <2>3. Len(tail) = c
    BY <1>1, <1>4, <2>2
  <2>4. ASSUME NEW k \in 1 .. c PROVE tail[k] = C[k]
    <3>1. k \in 1 .. c - 1 + 1 /\ 1 + k - 1 = k
      BY <1>1, <1>4
    <3>2. QED
      BY <2>2, <3>1
  <2>5. QED
    BY <2>2, <2>3, <2>4
<1> HIDE DEF tail
<1>6. /\ new \in Seq(LanguageRanges) /\ DOMAIN new = 1 .. L + c
      /\ \A n \in 1 .. L : new[n] = list[n]
      /\ \A n \in L + 1 .. L + c : n - L \in 1 .. c /\ new[n] = C[n - L]
  <2>1. /\ list \o tail \in Seq(LanguageRanges)
        /\ Len(list \o tail) = Len(list) + Len(tail)
        /\ \A i \in 1 .. Len(list) + Len(tail) : (list \o tail)[i] =
              IF i <= Len(list) THEN list[i] ELSE tail[i - Len(list)]
    BY <1>5, ConcatProperties
  <2>2. /\ new \in Seq(LanguageRanges) /\ Len(new) = L + c
        /\ \A i \in 1 .. L + c : new[i] = IF i <= L THEN list[i] ELSE tail[i - L]
    BY <1>2, <1>5, <2>1
  <2> HIDE DEF new, L
  <2>3. DOMAIN new = 1 .. L + c
    BY <2>2, LenProperties
  <2>4. ASSUME NEW n \in 1 .. L PROVE new[n] = list[n]
    <3>1. n \in 1 .. L + c /\ n <= L
      BY <1>1, <1>4
    <3>2. QED
      BY <2>2, <3>1
  <2>5. ASSUME NEW n \in L + 1 .. L + c PROVE n - L \in 1 .. c /\ new[n] = C[n - L]
    <3>1. n \in 1 .. L + c /\ ~(n <= L) /\ n - L \in 1 .. c
      BY <1>1, <1>4
    <3>2. QED
      BY <1>5, <2>2, <3>1
  <2>6. QED
    BY <2>2, <2>3, <2>4, <2>5
<1> HIDE DEF new, L
<1>7. ASSUME NEW n \in DOMAIN new
      PROVE  n \in 1 .. L \/ n \in L + 1 .. L + c
  BY <1>1, <1>4, <1>6
<1>8. ASSUME NEW n \in L + 1 .. L + c
      PROVE  /\ n > L /\ new[n] \in Shorter(r) \ Elements(list)
             /\ Len(new[n]) = R + 1 - (n - L)
  <2>1. n > L /\ n - L \in 1 .. R
    BY <1>1, <1>4
  <2>2. QED
    BY <1>3, <1>4, <1>6, <2>1
<1>9. Elements(new) = Elements(list) \cup Shorter(r)
  <2>1. ASSUME NEW n \in DOMAIN new PROVE new[n] \in Elements(list) \cup Shorter(r)
    BY <1>1, <1>6, <1>7, <1>8 DEF Elements
  <2>2. ASSUME NEW n \in DOMAIN list PROVE list[n] \in Elements(new)
    <3>1. n \in DOMAIN new /\ new[n] = list[n]
      BY <1>1, <1>4, <1>6
    <3>2. QED
      BY <3>1 DEF Elements
  <2>3. ASSUME NEW k \in 1 .. R PROVE C[k] \in Elements(new)
    <3>1. k \in 1 .. c \/ k \in c + 1 .. R
      BY <1>1, <1>4
    <3>2. CASE k \in 1 .. c
      <4>1. /\ L + k \in L + 1 .. L + c /\ L + k - L = k /\ L + k \in 1 .. L + c
        BY <1>1, <1>4, <3>2
      <4>2. new[L + k] = C[k] /\ L + k \in DOMAIN new
        <5>1. PICK n : n = L + k
          OBVIOUS
        <5>2. n \in L + 1 .. L + c /\ n - L = k /\ n \in 1 .. L + c
          BY <1>1, <1>4, <3>2, <5>1
        <5> HIDE DEF L
        <5>3. new[n] = C[n - L]
          BY <1>6, <5>2
        <5>4. n \in DOMAIN new
          BY <1>6, <5>2
        <5>5. QED
          BY <5>1, <5>2, <5>3, <5>4
      <4>3. QED
        BY <4>2 DEF Elements
    <3>3. CASE k \in c + 1 .. R
      <4>1. C[k] \in Elements(list)
        BY <1>4, <3>3
      <4>2. QED
        BY <2>2, <4>1 DEF Elements
    <3>4. QED
      BY <3>1, <3>2, <3>3
  <2>4. ASSUME NEW s \in Shorter(r) PROVE s \in Elements(new)
    <3>1. PICK l \in 1 .. R : s = SubSeq(r, 1, l)
      BY DEF Shorter, R
    <3>2. R + 1 - l \in 1 .. R /\ R + 1 - (R + 1 - l) = l
      BY <1>1
    <3>3. C[R + 1 - l] = s
      BY <1>3, <3>1, <3>2
    <3>4. QED
      BY <2>3, <3>2, <3>3
  <2>5. \A x \in Elements(new) : x \in Elements(list) \cup Shorter(r)
    BY <2>1 DEF Elements
  <2>6. \A x \in Elements(list) : x \in Elements(new)
    BY <2>2 DEF Elements
  <2>7. QED
    BY <2>4, <2>5, <2>6
<1>10. ASSUME NEW m \in DOMAIN new, NEW n \in DOMAIN new, m \notin DOMAIN list, m < n
       PROVE  /\ n \in L + 1 .. L + c /\ Len(new[m]) > Len(new[n])
  <2>1. m \in L + 1 .. L + c
    BY <1>1, <1>7, <1>10
  <2>2. n \in L + 1 .. L + c
    BY <1>1, <1>4, <1>6, <1>10, <2>1
  <2>3. Len(new[m]) = R + 1 - (m - L) /\ Len(new[n]) = R + 1 - (n - L)
    BY <1>8, <2>1, <2>2
  <2>4. QED
    BY <1>1, <1>4, <1>10, <2>1, <2>2, <2>3
<1>11. Distinct(new)
  <2>1. ASSUME NEW m \in DOMAIN new, NEW n \in DOMAIN new, m < n
        PROVE  new[m] # new[n]
    <3>1. CASE m \notin DOMAIN list
      <4>1. /\ m \in L + 1 .. L + c /\ n \in L + 1 .. L + c
        BY <1>1, <1>7, <1>10, <2>1, <3>1
      <4>2. Len(new[m]) = R + 1 - (m - L) /\ Len(new[n]) = R + 1 - (n - L)
        BY <1>8, <4>1
      <4>3. Len(new[m]) # Len(new[n])
        BY <1>1, <1>4, <2>1, <4>1, <4>2
      <4>4. QED
        BY <4>3
    <3>2. CASE m \in DOMAIN list /\ n \notin DOMAIN list
      <4>1. new[m] \in Elements(list)
        BY <1>1, <1>6, <3>2 DEF Elements
      <4>2. QED
        BY <1>1, <1>7, <1>8, <3>2, <4>1
    <3>3. CASE m \in DOMAIN list /\ n \in DOMAIN list
      <4>1. new[m] = list[m] /\ new[n] = list[n] /\ m # n
        BY <1>1, <1>6, <2>1, <3>3
      <4>2. QED
        BY <3>3, <4>1 DEF Distinct
    <3>4. QED
      BY <3>1, <3>2, <3>3
  <2>2. ASSUME NEW m \in DOMAIN new, NEW n \in DOMAIN new, new[m] = new[n]
        PROVE  m = n
    <3>1. ~(m < n) /\ ~(n < m)
      BY <2>1, <2>2
    <3>2. m \in Int /\ n \in Int
      BY <1>6
    <3>3. QED
      BY <3>1, <3>2
  <2>3. QED
    BY <2>2 DEF Distinct
<1>12. \A n \in DOMAIN list : n \in DOMAIN new /\ new[n] = list[n]
  BY <1>1, <1>4, <1>6
<1>13. \A n \in DOMAIN new : n \notin DOMAIN list =>
          n > L /\ new[n] \in Shorter(r) \ Elements(list)
  BY <1>1, <1>7, <1>8
<1>14. QED
  BY <1>6, <1>9, <1>10, <1>11, <1>12, <1>13 DEF new, L

------------------------------------------------------------------------------
(* The steps *)

LEMMA InvInit == LocalesInit => IInv
<1> SUFFICES ASSUME LocalesInit PROVE IInv
  OBVIOUS
<1>1. <<>> \in Seq(LanguageRanges) /\ <<>> \in Seq(Items)
  BY EmptySeq
<1>2. CASE pc = "http"
  <2>1. /\ header \in Headers /\ names = <<>> /\ locales = <<>>
        /\ input = [n \in DOMAIN header |-> header[n].range]
    BY <1>2 DEF LocalesInit
  <2>2. header \in Seq(Items)
    BY <2>1, LocalesAssumption DEF Items
  <2>3. /\ Len(header) \in Nat /\ DOMAIN header = 1 .. Len(header)
        /\ \A n \in DOMAIN header : header[n].range \in LanguageRanges
    BY <2>2, HeaderTypes
  <2>4. input \in Seq(LanguageRanges)
    BY <2>1, <2>3
  <2>5. QED
    BY <1>1, <1>2, <2>1, <2>2, <2>4 DEF IInv, TypeOK, OfTheHeader
<1>3. CASE pc = "system"
  <2>1. header = <<>> /\ names \in Names /\ input = names /\ locales = <<>>
    BY <1>3 DEF LocalesInit
  <2>2. names \in Seq(LanguageRanges)
    BY <2>1, LocalesAssumption
  <2>3. input = <<>> \o names
    BY <2>1, <2>2, ConcatEmptySeq
  <2>4. DOMAIN locales = {} /\ Elements(locales) = {} /\ Elements(<<>>) = {}
    BY <2>1 DEF Elements
  <2>5. Distinct(locales) /\ Ordered(<<>>, locales)
    BY <2>4 DEF Distinct, Ordered
  <2>6. Elements(locales) = UNION {Shorter(range) : range \in Elements(<<>>)}
    BY <2>4
  <2>7. Listing
    BY <1>1, <2>1, <2>3, <2>5, <2>6 DEF Listing
  <2>8. QED
    BY <1>1, <1>3, <2>1, <2>2, <2>7 DEF IInv, TypeOK
<1>4. QED
  BY <1>2, <1>3 DEF LocalesInit

(* What is asked for and which of it is better never changes.                *)
LEMMA HeaderUnchanged ==
    ASSUME UNCHANGED <<header, input>>
    PROVE  /\ AskedFor' = AskedFor
           /\ OfTheHeader' <=> OfTheHeader
           /\ \A r, s : Better(r, s)' <=> Better(r, s)
<1>1. header' = header /\ input' = input
  OBVIOUS
<1>2. QED
  BY <1>1 DEF AskedFor, OfTheHeader, Better, Best, FirstBest

(* The shorter versions of what was asked for have shorter versions there.   *)
LEMMA UnionOfShorter ==
    ASSUME NEW A \in SUBSET LanguageRanges
    PROVE  LET U == UNION {Shorter(range) : range \in A} IN
           /\ A \subseteq U
           /\ U \in SUBSET LanguageRanges
           /\ \A x \in U : Shorter(x) \subseteq U
<1> DEFINE U == UNION {Shorter(range) : range \in A}
<1>1. \A x : x \in U <=> \E range \in A : x \in Shorter(range)
  OBVIOUS
<1> HIDE DEF U
<1>2. \A x \in A : x \in U
  BY <1>1, ShorterFacts
<1>3. ASSUME NEW x \in U PROVE x \in LanguageRanges /\ \A y \in Shorter(x) : y \in U
  <2>1. PICK range \in A : x \in Shorter(range)
    BY <1>1
  <2>2. x \in LanguageRanges /\ Shorter(x) \subseteq Shorter(range)
    BY <2>1, ShorterFacts
  <2>3. QED
    BY <1>1, <2>2
<1>4. QED
  BY <1>2, <1>3 DEF U

LEMMA StepReadHeader ==
    ASSUME IInv, ReadHeader
    PROVE  IInv'
<1>1. /\ pc = "http" /\ locales' = PriorityList(header) /\ pc' = "expand"
      /\ header' = header /\ names' = names /\ input' = input
  BY DEF ReadHeader
<1>2. TypeOK /\ OfTheHeader
  BY <1>1 DEF IInv
<1>3. /\ locales' \in Seq(LanguageRanges)
      /\ Distinct(locales')
      /\ Elements(locales') = {header[n].range : n \in DOMAIN header}
      /\ \A r, s : Better(r, s) => Precedes(locales', r, s)
  BY <1>1, <1>2, PriorityListFacts DEF TypeOK
<1>4. AskedFor = {header[n].range : n \in DOMAIN header}
  BY <1>2 DEF AskedFor, OfTheHeader
<1>5. AskedFor' = AskedFor /\ OfTheHeader' /\ \A r, s : Better(r, s)' <=> Better(r, s)
  BY <1>1, <1>2, HeaderUnchanged
<1>6. HeaderOrder'
  <2>1. \A r, s \in AskedFor' : Better(r, s)' => Precedes(locales', r, s)
    BY <1>3, <1>5
  <2>2. Elements(locales') \ AskedFor' = {}
    BY <1>3, <1>4, <1>5
  <2>3. QED
    BY <2>1, <2>2 DEF HeaderOrder
<1>7. TypeOK'
  BY <1>1, <1>2, <1>3 DEF TypeOK
<1>8. AskedFor' \subseteq UNION {Shorter(range) : range \in AskedFor'}
  <2>1. Elements(locales') \in SUBSET LanguageRanges
    BY <1>3, ListTypes
  <2>2. QED
    BY <1>3, <1>4, <1>5, <2>1, UnionOfShorter
<1>9. Expanding'
  BY <1>3, <1>4, <1>5, <1>6, <1>8 DEF Expanding
<1>10. QED
  BY <1>1, <1>7, <1>9 DEF IInv

(* The place expand_list finds                                               *)
LEMMA PlaceBehind ==
    ASSUME NEW list \in Seq(LanguageRanges), Distinct(list), Lacking(list) # {}
    PROVE  LET long == list[Min(Lacking(list))]
               sub == Front(long)
               at == Max(Within(list, sub)) + 1
           IN /\ long \in Elements(list)
              /\ sub \in LanguageRanges /\ sub \in Shorter(long)
              /\ sub \notin Elements(list)
              /\ at \in 1 .. Len(list) + 1
              /\ \A s \in Elements(list) : sub \in Shorter(s) =>
                    \A n \in DOMAIN list : list[n] = s => n < at
<1> DEFINE first == Min(Lacking(list))
           long == list[first]
           sub == Front(long)
           last == Max(Within(list, sub))
<1>1. /\ Len(list) \in Nat /\ DOMAIN list = 1 .. Len(list)
      /\ IsFiniteSet(DOMAIN list)
      /\ \A n \in DOMAIN list : list[n] \in LanguageRanges
      /\ \A r : Inside(list, r) <=> r \in Elements(list)
  BY ListTypes
<1>2. first \in Lacking(list)
  <2>1. Lacking(list) \in SUBSET (DOMAIN list)
    BY DEF Lacking
  <2>2. IsFiniteSet(Lacking(list))
    BY <1>1, <2>1, FS_Subset
  <2>3. Lacking(list) \in SUBSET Int
    BY <1>1, <2>1
  <2>4. QED
    BY <2>2, <2>3, MinIsSmallest
<1> HIDE DEF first
<1>3. /\ first \in DOMAIN list /\ Len(long) > 1 /\ ~Inside(list, sub)
  BY <1>2 DEF Lacking
<1>4. /\ long \in LanguageRanges /\ long \in Elements(list)
      /\ sub \notin Elements(list)
  BY <1>1, <1>3 DEF Elements
<1> HIDE DEF long
<1>5. /\ sub \in Shorter(long) /\ sub \in LanguageRanges
      /\ Len(sub) = Len(long) - 1 /\ Len(long) \in Nat
  BY <1>3, <1>4, FrontFacts, ShorterFacts
<1> HIDE DEF sub
<1>6. ASSUME NEW n \in DOMAIN list, sub \in Shorter(list[n])
      PROVE  n \in Within(list, sub)
  <2>1. list[n] \in LanguageRanges /\ list[n] \in Elements(list)
    BY <1>1 DEF Elements
  <2>2. IsPrefix(sub, list[n])
    BY <1>5, <1>6, <2>1, PrefixIsShorter
  <2>3. /\ Len(sub) \in 1 .. Len(list[n]) /\ sub = SubSeq(list[n], 1, Len(sub))
        /\ Len(list[n]) \in Nat
    BY <1>6, <2>1, ShorterFacts
  <2>4. Len(sub) # Len(list[n])
    <3>1. ASSUME Len(sub) = Len(list[n]) PROVE FALSE
      <4>1. sub = SubSeq(list[n], 1, Len(list[n]))
        BY <2>3, <3>1
      <4>2. list[n] \in Seq(Subtags)
        BY <2>1, ShorterFacts
      <4>3. sub = list[n]
        BY <4>1, <4>2, SubSeqFull
      <4>4. QED
        BY <1>4, <2>1, <4>3
    <3>2. QED
      BY <3>1
  <2>5. Len(list[n]) > Len(sub)
    BY <2>3, <2>4
  <2>6. QED
    BY <2>2, <2>5 DEF Within
<1>7. first \in Within(list, sub)
  BY <1>3, <1>5, <1>6 DEF long
<1>8. last \in Within(list, sub) /\ \A n \in Within(list, sub) : last >= n
  <2>1. Within(list, sub) \in SUBSET (DOMAIN list)
    BY DEF Within
  <2>2. IsFiniteSet(Within(list, sub))
    BY <1>1, <2>1, FS_Subset
  <2>3. Within(list, sub) \in SUBSET Int
    BY <1>1, <2>1
  <2>4. QED
    BY <1>7, <2>2, <2>3, MaxIsLargest
<1> HIDE DEF last
<1>9. last \in 1 .. Len(list)
  BY <1>1, <1>8 DEF Within
<1>10. last + 1 \in 1 .. Len(list) + 1
  BY <1>1, <1>9
<1>11. ASSUME NEW s \in Elements(list), sub \in Shorter(s),
              NEW n \in DOMAIN list, list[n] = s
       PROVE  n < last + 1
  <2>1. last >= n
    BY <1>6, <1>8, <1>11
  <2>2. QED
    BY <1>1, <1>9, <2>1
<1>12. QED
  BY <1>4, <1>5, <1>10, <1>11 DEF last, sub, long, first

LEMMA StepExpandList ==
    ASSUME IInv, ExpandList
    PROVE  IInv'
<1> DEFINE long == locales[Min(Lacking(locales))]
           sub == Front(long)
           at == Max(Within(locales, sub)) + 1
<1>1. /\ pc = "expand" /\ Lacking(locales) # {} /\ pc' = pc
      /\ locales' = InsertAt(locales, at, sub)
      /\ header' = header /\ names' = names /\ input' = input
  BY DEF ExpandList, Expanded
<1>2. TypeOK /\ Expanding /\ locales \in Seq(LanguageRanges) /\ Distinct(locales)
  BY <1>1 DEF IInv, TypeOK, Expanding
<1>3. /\ long \in Elements(locales)
      /\ sub \in LanguageRanges /\ sub \in Shorter(long)
      /\ sub \notin Elements(locales)
      /\ at \in 1 .. Len(locales) + 1
      /\ \A s \in Elements(locales) : sub \in Shorter(s) =>
            \A n \in DOMAIN locales : locales[n] = s => n < at
  BY <1>1, <1>2, PlaceBehind
<1> HIDE DEF long, sub, at
<1>4. /\ locales' \in Seq(LanguageRanges)
      /\ Elements(locales') = Elements(locales) \cup {sub}
      /\ Distinct(locales')
      /\ \A x, y \in Elements(locales) :
            Precedes(locales, x, y) => Precedes(locales', x, y)
      /\ \A x \in Elements(locales) : sub \in Shorter(x) => Precedes(locales', x, sub)
  BY <1>1, <1>2, <1>3, InsertKeepsOrder, InsertPrecedes
<1>5. /\ AskedFor' = AskedFor /\ (OfTheHeader' <=> OfTheHeader)
      /\ \A r, s : Better(r, s)' <=> Better(r, s)
  BY <1>1, HeaderUnchanged
<1>6. /\ AskedFor \subseteq Elements(locales)
      /\ Elements(locales) \subseteq UNION {Shorter(range) : range \in AskedFor}
      /\ \A r, s \in AskedFor : Better(r, s) => Precedes(locales, r, s)
      /\ \A r \in Elements(locales) \ AskedFor, s \in AskedFor :
            r \in Shorter(s) => Precedes(locales, s, r)
  BY <1>2 DEF Expanding, HeaderOrder
<1>7. HeaderOrder'
  <2>1. \A r, s \in AskedFor : Better(r, s) => Precedes(locales', r, s)
    BY <1>4, <1>6
  <2>2. \A r \in Elements(locales') \ AskedFor, s \in AskedFor :
           r \in Shorter(s) => Precedes(locales', s, r)
    BY <1>4, <1>6
  <2>3. QED
    BY <1>5, <2>1, <2>2 DEF HeaderOrder
<1>8. sub \in UNION {Shorter(range) : range \in AskedFor}
  <2>1. AskedFor \in SUBSET LanguageRanges
    BY <1>2, <1>6, ListTypes
  <2>2. QED
    BY <1>3, <1>6, <2>1, UnionOfShorter
<1>9. Expanding'
  <2>1. Elements(locales') \subseteq UNION {Shorter(range) : range \in AskedFor'}
    BY <1>4, <1>5, <1>6, <1>8
  <2>2. AskedFor' \subseteq Elements(locales')
    BY <1>4, <1>5, <1>6
  <2>3. OfTheHeader'
    BY <1>2, <1>5 DEF Expanding
  <2>4. QED
    BY <1>4, <1>7, <2>1, <2>2, <2>3 DEF Expanding
<1>10. TypeOK'
  BY <1>1, <1>2, <1>4 DEF TypeOK
<1>11. QED
  BY <1>1, <1>9, <1>10 DEF IInv

LEMMA EnAlone == Shorter(En) = {En} /\ En \in LanguageRanges
<1>1. En \in LanguageRanges /\ Len(En) = 1
  BY LocalesAssumption
<1>2. En \in Shorter(En) /\ En = SubSeq(En, 1, 1)
  BY <1>1, ShorterFacts
<1>3. \A s \in Shorter(En) : s = En
  <2>1. ASSUME NEW s \in Shorter(En) PROVE s = SubSeq(En, 1, 1)
    <3>1. Len(s) \in 1 .. 1 /\ s = SubSeq(En, 1, Len(s))
      BY <1>1, ShorterFacts
    <3>2. QED
      BY <3>1
  <2>2. QED
    BY <1>2, <2>1
<1>4. QED
  BY <1>1, <1>2, <1>3

(* The union over what was asked for, with the last resort                   *)
LEMMA WithEnUnion ==
    ASSUME NEW A
    PROVE  UNION {Shorter(range) : range \in A \cup {En}} =
              (UNION {Shorter(range) : range \in A}) \cup {En}
<1>1. \A x : x \in UNION {Shorter(range) : range \in A \cup {En}} <=>
                x \in UNION {Shorter(range) : range \in A} \/ x \in Shorter(En)
  OBVIOUS
<1>2. QED
  BY <1>1, EnAlone

LEMMA StepReturnHeader ==
    ASSUME IInv, ReturnHeader
    PROVE  IInv'
<1>1. /\ pc = "expand" /\ Lacking(locales) = {} /\ pc' = "done"
      /\ locales' = WithEn(locales)
      /\ header' = header /\ names' = names /\ input' = input
  BY DEF ReturnHeader
<1>2. TypeOK /\ Expanding /\ locales \in Seq(LanguageRanges) /\ Distinct(locales)
  BY <1>1 DEF IInv, TypeOK, Expanding
<1>3. /\ AskedFor' = AskedFor /\ (OfTheHeader' <=> OfTheHeader)
      /\ \A r, s : Better(r, s)' <=> Better(r, s)
  BY <1>1, HeaderUnchanged
<1>4. /\ OfTheHeader
      /\ AskedFor \subseteq Elements(locales)
      /\ Elements(locales) \subseteq UNION {Shorter(range) : range \in AskedFor}
      /\ \A r, s \in AskedFor : Better(r, s) => Precedes(locales, r, s)
      /\ \A r \in Elements(locales) \ AskedFor, s \in AskedFor :
            r \in Shorter(s) => Precedes(locales, s, r)
  BY <1>2 DEF Expanding, HeaderOrder
<1>5. /\ \A n \in DOMAIN locales : locales[n] \in LanguageRanges
      /\ Elements(locales) \in SUBSET LanguageRanges
      /\ \A r : Inside(locales, r) <=> r \in Elements(locales)
  BY <1>2, ListTypes
<1>6. \A r \in Elements(locales) : Shorter(r) \subseteq Elements(locales)
  <2>1. ASSUME NEW r \in Elements(locales), Len(r) > 1
        PROVE  Front(r) \in Elements(locales)
    <3>1. PICK n \in DOMAIN locales : locales[n] = r
      BY DEF Elements
    <3>2. Inside(locales, Front(locales[n]))
      BY <1>1, <2>1, <3>1 DEF Lacking
    <3>3. QED
      BY <1>5, <3>1, <3>2
  <2>2. QED
    BY <1>5, <2>1, ClosedUnderFront
<1>7. Elements(locales) = UNION {Shorter(range) : range \in AskedFor}
  BY <1>4, <1>6
<1>8. /\ locales' \in Seq(LanguageRanges)
      /\ Distinct(locales')
      /\ Elements(locales') = Elements(locales) \cup {En}
      /\ \A x, y \in Elements(locales) :
            Precedes(locales, x, y) => Precedes(locales', x, y)
      /\ En \notin Elements(locales) =>
            \A x \in Elements(locales) : Precedes(locales', x, En)
  <2>1. CASE En \in Elements(locales)
    <3>1. locales' = locales
      BY <1>1, <1>5, <2>1 DEF WithEn
    <3>2. QED
      BY <1>2, <2>1, <3>1
  <2>2. CASE En \notin Elements(locales)
    <3>1. locales' = Append(locales, En)
      BY <1>1, <1>5, <2>2 DEF WithEn
    <3>2. QED
      BY <1>2, <2>2, <3>1, AppendFacts, EnAlone
  <2>3. QED
    BY <2>1, <2>2
<1>9. Elements(locales') = UNION {Shorter(range) : range \in AskedFor' \cup {En}}
  BY <1>3, <1>7, <1>8, WithEnUnion
<1>10. HeaderOrder'
  <2>1. \A r, s \in AskedFor : Better(r, s) => Precedes(locales', r, s)
    BY <1>4, <1>8
  <2>2. \A r \in Elements(locales') \ AskedFor, s \in AskedFor :
           r \in Shorter(s) => Precedes(locales', s, r)
    BY <1>4, <1>8
  <2>3. QED
    BY <1>3, <2>1, <2>2 DEF HeaderOrder
<1>11. Listed'
  BY <1>3, <1>4, <1>8, <1>9, <1>10 DEF Listed
<1>12. TypeOK'
  BY <1>1, <1>2, <1>8 DEF TypeOK
<1>13. QED
  BY <1>1, <1>11, <1>12 DEF IInv

(* A name that is looked at adds what it stands for behind what there is.    *)
LEMMA OrderedGrows ==
    ASSUME NEW seen \in Seq(LanguageRanges), NEW list \in Seq(LanguageRanges),
           NEW r \in LanguageRanges, Distinct(list),
           Elements(list) = UNION {Shorter(range) : range \in Elements(seen)},
           Ordered(seen, list)
    PROVE  LET new == WithShorter(list, r) IN
           /\ new \in Seq(LanguageRanges)
           /\ Distinct(new)
           /\ Elements(new) = Elements(list) \cup Shorter(r)
           /\ Ordered(Append(seen, r), new)
           /\ Ordered(seen, new)
<1> DEFINE new == WithShorter(list, r)
           more == Append(seen, r)
<1>1. Elements(seen) \in SUBSET LanguageRanges
  BY ListTypes
<1>2. \A x \in Elements(list) : Shorter(x) \subseteq Elements(list)
  BY <1>1, UnionOfShorter
<1>3. /\ new \in Seq(LanguageRanges)
      /\ Distinct(new)
      /\ Elements(new) = Elements(list) \cup Shorter(r)
      /\ \A n \in DOMAIN list : n \in DOMAIN new /\ new[n] = list[n]
      /\ \A n \in DOMAIN new : n \notin DOMAIN list =>
            n > Len(list) /\ new[n] \in Shorter(r) \ Elements(list)
      /\ \A m, n \in DOMAIN new :
            m \notin DOMAIN list /\ m < n => Len(new[m]) > Len(new[n])
  BY <1>2, WithShorterFacts
<1>4. /\ Len(list) \in Nat /\ DOMAIN list = 1 .. Len(list)
      /\ Len(new) \in Nat /\ DOMAIN new = 1 .. Len(new)
      /\ Len(seen) \in Nat /\ DOMAIN seen = 1 .. Len(seen)
  BY <1>3, ListTypes
<1>5. /\ DOMAIN more = 1 .. Len(seen) + 1
      /\ \A k \in 1 .. Len(seen) : more[k] = seen[k]
      /\ more[Len(seen) + 1] = r
  <2>1. /\ more \in Seq(LanguageRanges) /\ Len(more) = Len(seen) + 1
        /\ \A k \in 1 .. Len(seen) : more[k] = seen[k]
        /\ more[Len(seen) + 1] = r
    BY AppendProperties
  <2> HIDE DEF more
  <2>2. QED
    BY <2>1, LenProperties
<1> HIDE DEF new, more
<1>6. ASSUME NEW m \in DOMAIN list
      PROVE  \E l \in 1 .. Len(seen) : new[m] \in Shorter(seen[l])
  <2>1. new[m] \in Elements(list)
    BY <1>3 DEF Elements
  <2>2. PICK range \in Elements(seen) : new[m] \in Shorter(range)
    BY <2>1
  <2>3. QED
    BY <1>4, <2>2 DEF Elements
<1>7. ASSUME NEW n \in DOMAIN new, n \notin DOMAIN list,
             NEW l \in 1 .. Len(seen)
      PROVE  new[n] \notin Shorter(seen[l])
  <2>1. seen[l] \in Elements(seen)
    BY <1>4 DEF Elements
  <2>2. new[n] \notin Elements(list)
    BY <1>3, <1>7
  <2>3. QED
    BY <2>1, <2>2
<1>8. ASSUME NEW m \in DOMAIN new, NEW n \in DOMAIN new, m < n
      PROVE  InOrder(more, new[m], new[n])
  <2> SUFFICES ASSUME NEW k \in DOMAIN more, new[n] \in Shorter(more[k])
               PROVE  \/ \E l \in 1 .. k - 1 : new[m] \in Shorter(more[l])
                      \/ new[m] \in Shorter(more[k]) /\ Len(new[m]) > Len(new[n])
    BY DEF InOrder
  <2>1. k \in 1 .. Len(seen) \/ k = Len(seen) + 1
    BY <1>4, <1>5
  <2>2. CASE k \in 1 .. Len(seen)
    <3>1. more[k] = seen[k] /\ n \in DOMAIN list
      BY <1>5, <1>7, <2>2
    <3>2. m \in DOMAIN list
      BY <1>4, <1>8, <3>1
    <3>3. InOrder(seen, new[m], new[n])
      BY <1>3, <1>8, <3>1, <3>2 DEF Ordered
    <3>4. \/ \E l \in 1 .. k - 1 : new[m] \in Shorter(seen[l])
          \/ new[m] \in Shorter(seen[k]) /\ Len(new[m]) > Len(new[n])
      BY <1>4, <2>2, <3>1, <3>3 DEF InOrder
    <3>5. \A l \in 1 .. k - 1 : more[l] = seen[l]
      BY <1>4, <1>5, <2>2
    <3>6. QED
      BY <3>1, <3>4, <3>5
  <2>3. CASE k = Len(seen) + 1
    <3>1. CASE m \in DOMAIN list
      <4>1. PICK l \in 1 .. Len(seen) : new[m] \in Shorter(seen[l])
        BY <1>6, <3>1
      <4>2. l \in 1 .. k - 1 /\ more[l] = seen[l]
        BY <1>4, <1>5, <2>3
      <4>3. QED
        BY <4>1, <4>2
    <3>2. CASE m \notin DOMAIN list
      <4>1. new[m] \in Shorter(r) /\ Len(new[m]) > Len(new[n])
        BY <1>3, <1>8, <3>2
      <4>2. QED
        BY <1>5, <2>3, <4>1
    <3>3. QED
      BY <3>1, <3>2
  <2>4. QED
    BY <2>1, <2>2, <2>3
<1>9. ASSUME NEW m \in DOMAIN new, NEW n \in DOMAIN new, m < n
      PROVE  InOrder(seen, new[m], new[n])
  <2> SUFFICES ASSUME NEW k \in DOMAIN seen, new[n] \in Shorter(seen[k])
               PROVE  \/ \E l \in 1 .. k - 1 : new[m] \in Shorter(seen[l])
                      \/ new[m] \in Shorter(seen[k]) /\ Len(new[m]) > Len(new[n])
    BY DEF InOrder
  <2>1. k \in 1 .. Len(seen) /\ k \in DOMAIN more /\ more[k] = seen[k]
    BY <1>4, <1>5
  <2>2. \/ \E l \in 1 .. k - 1 : new[m] \in Shorter(more[l])
        \/ new[m] \in Shorter(more[k]) /\ Len(new[m]) > Len(new[n])
    BY <1>8, <1>9, <2>1 DEF InOrder
  <2>3. \A l \in 1 .. k - 1 : more[l] = seen[l]
    BY <1>4, <1>5, <2>1
  <2>4. QED
    BY <2>1, <2>2, <2>3
<1>10. QED
  BY <1>3, <1>8, <1>9 DEF Ordered, new, more

LEMMA StepAppendLocale ==
    ASSUME IInv, AppendLocale
    PROVE  IInv'
<1> DEFINE h == Head(names)
<1>1. /\ pc = "system" /\ names # <<>> /\ pc' = pc
      /\ locales' = WithShorter(locales, h) /\ names' = Tail(names)
      /\ header' = header /\ input' = input
  BY DEF AppendLocale
<1>2. TypeOK /\ Listing /\ locales \in Seq(LanguageRanges)
      /\ names \in Seq(LanguageRanges)
  BY <1>1 DEF IInv, TypeOK
<1>3. PICK seen \in Seq(LanguageRanges) :
        /\ input = seen \o names
        /\ header = <<>>
        /\ Distinct(locales)
        /\ Elements(locales) = UNION {Shorter(range) : range \in Elements(seen)}
        /\ Ordered(seen, locales)
  BY <1>2 DEF Listing
<1>4. h \in LanguageRanges /\ Tail(names) \in Seq(LanguageRanges)
  BY <1>1, <1>2, HeadTailProperties
<1>5. input = Append(seen, h) \o Tail(names)
  BY <1>1, <1>2, <1>3, HeadMovesOver
<1> HIDE DEF h
<1>6. /\ locales' \in Seq(LanguageRanges)
      /\ Distinct(locales')
      /\ Elements(locales') = Elements(locales) \cup Shorter(h)
      /\ Ordered(Append(seen, h), locales')
  BY <1>1, <1>2, <1>3, <1>4, OrderedGrows
<1>7. Append(seen, h) \in Seq(LanguageRanges)
  BY <1>4, AppendProperties
<1>8. Elements(Append(seen, h)) = Elements(seen) \cup {h}
  <2>1. /\ Len(Append(seen, h)) = Len(seen) + 1
        /\ \A i \in 1 .. Len(seen) : Append(seen, h)[i] = seen[i]
        /\ Append(seen, h)[Len(seen) + 1] = h
    BY <1>4, AppendProperties
  <2>2. /\ DOMAIN Append(seen, h) = 1 .. Len(seen) + 1
        /\ DOMAIN seen = 1 .. Len(seen) /\ Len(seen) \in Nat
    BY <1>7, <2>1, LenProperties
  <2>3. \A i \in 1 .. Len(seen) + 1 : i \in 1 .. Len(seen) \/ i = Len(seen) + 1
    BY <2>2
  <2>4. /\ \A i \in 1 .. Len(seen) : i \in 1 .. Len(seen) + 1
        /\ Len(seen) + 1 \in 1 .. Len(seen) + 1
    BY <2>2
  <2> DEFINE more == Append(seen, h)
             l == Len(seen) + 1
  <2> HIDE DEF more, l
  <2>5. /\ \A i \in 1 .. Len(seen) : more[i] = seen[i]
        /\ more[l] = h /\ DOMAIN more = 1 .. l /\ l \in 1 .. l
        /\ \A i \in 1 .. Len(seen) : i \in 1 .. l
        /\ \A i \in 1 .. l : i \in 1 .. Len(seen) \/ i = l
    BY <2>1, <2>2, <2>3, <2>4 DEF more, l
  <2>6. \A x \in Elements(more) : x \in Elements(seen) \cup {h}
    BY <2>2, <2>5 DEF Elements
  <2>7. \A x \in Elements(seen) : x \in Elements(more)
    BY <2>2, <2>5 DEF Elements
  <2>8. h \in Elements(more)
    BY <2>5 DEF Elements
  <2>9. QED
    BY <2>6, <2>7, <2>8 DEF more
<1>9. Elements(locales') =
         UNION {Shorter(range) : range \in Elements(Append(seen, h))}
  <2>1. \A x : x \in UNION {Shorter(range) : range \in Elements(seen) \cup {h}} <=>
                  x \in UNION {Shorter(range) : range \in Elements(seen)}
                     \/ x \in Shorter(h)
    OBVIOUS
  <2>2. QED
    BY <1>3, <1>6, <1>8, <2>1
<1>10. Listing'
  <2>1. header' = <<>> /\ input' = Append(seen, h) \o names'
    BY <1>1, <1>3, <1>5
  <2>2. QED
    BY <1>6, <1>7, <1>9, <2>1 DEF Listing
<1>11. TypeOK'
  BY <1>1, <1>2, <1>4, <1>6 DEF TypeOK
<1>12. QED
  BY <1>1, <1>10, <1>11 DEF IInv

LEMMA StepReturnSystem ==
    ASSUME IInv, ReturnSystem
    PROVE  IInv'
<1>1. /\ pc = "system" /\ names = <<>> /\ pc' = "done"
      /\ locales' = WithShorter(locales, En) /\ names' = names
      /\ header' = header /\ input' = input
  BY DEF ReturnSystem
<1>2. TypeOK /\ Listing /\ locales \in Seq(LanguageRanges)
  BY <1>1 DEF IInv, TypeOK
<1>3. PICK seen \in Seq(LanguageRanges) :
        /\ input = seen \o names
        /\ header = <<>>
        /\ Distinct(locales)
        /\ Elements(locales) = UNION {Shorter(range) : range \in Elements(seen)}
        /\ Ordered(seen, locales)
  BY <1>2 DEF Listing
<1>4. input = seen
  BY <1>1, <1>3, ConcatEmptySeq
<1>5. /\ locales' \in Seq(LanguageRanges)
      /\ Distinct(locales')
      /\ Elements(locales') = Elements(locales) \cup Shorter(En)
      /\ Ordered(seen, locales')
  BY <1>1, <1>2, <1>3, EnAlone, OrderedGrows
<1>6. AskedFor' = Elements(seen)
  BY <1>1, <1>4 DEF AskedFor, Elements
<1>7. Elements(locales') = UNION {Shorter(range) : range \in AskedFor' \cup {En}}
  BY <1>3, <1>5, <1>6, EnAlone, WithEnUnion
<1>8. Listed'
  BY <1>1, <1>3, <1>4, <1>5, <1>7 DEF Listed
<1>9. TypeOK'
  BY <1>1, <1>2, <1>5 DEF TypeOK
<1>10. QED
  BY <1>1, <1>8, <1>9 DEF IInv

LEMMA InvStep == IInv /\ [LocalesNext]_localesVars => IInv'
<1> SUFFICES ASSUME IInv, [LocalesNext]_localesVars PROVE IInv'
  OBVIOUS
<1>1. CASE LocalesNext
  BY <1>1, StepReadHeader, StepExpandList, StepReturnHeader, StepAppendLocale,
     StepReturnSystem DEF LocalesNext
<1>2. CASE UNCHANGED localesVars
  <2>1. /\ header' = header /\ names' = names /\ locales' = locales
        /\ pc' = pc /\ input' = input
    BY <1>2 DEF localesVars
  <2>2. /\ AskedFor' = AskedFor /\ (OfTheHeader' <=> OfTheHeader)
        /\ \A r, s : Better(r, s)' <=> Better(r, s)
    BY <2>1, HeaderUnchanged
  <2>3. HeaderOrder' <=> HeaderOrder
    BY <2>1, <2>2 DEF HeaderOrder
  <2>4. TypeOK' <=> TypeOK
    BY <2>1 DEF TypeOK
  <2>5. Expanding' <=> Expanding
    BY <2>1, <2>2, <2>3 DEF Expanding
  <2>6. Listing' <=> Listing
    BY <2>1 DEF Listing
  <2>7. Listed' <=> Listed
    BY <2>1, <2>2, <2>3 DEF Listed
  <2>8. QED
    BY <2>1, <2>2, <2>4, <2>5, <2>6, <2>7 DEF IInv
<1>3. QED
  BY <1>1, <1>2

------------------------------------------------------------------------------
(* What the list is in the end                                               *)

(* The places of two ranges are as their order is.                           *)
LEMMA PlacesAsOrdered ==
    ASSUME locales \in Seq(LanguageRanges), NEW r \in Elements(locales),
           NEW s \in Elements(locales)
    PROVE  /\ Place(r) \in DOMAIN locales /\ locales[Place(r)] = r
           /\ Precedes(locales, r, s) => Place(r) < Place(s)
<1>1. ASSUME NEW x \in Elements(locales)
      PROVE  Place(x) \in DOMAIN locales /\ locales[Place(x)] = x
  <2>1. \E n \in DOMAIN locales : locales[n] = x
    BY DEF Elements
  <2>2. QED
    BY <2>1, Zenon DEF Place
<1>2. QED
  BY <1>1 DEF Precedes

LEMMA DoneIsComplete == IInv => ListIsComplete
<1>1. ASSUME IInv, pc = "done"
      PROVE  /\ {locales[n] : n \in DOMAIN locales} =
                   UNION {Shorter(range) : range \in AskedFor \cup {En}}
             /\ \A m, n \in DOMAIN locales : locales[m] = locales[n] => m = n
  BY <1>1 DEF IInv, Listed, Distinct, Elements
<1>2. QED
  BY <1>1 DEF ListIsComplete

LEMMA DoneIsInOrder == IInv => OrderIsKept
<1> SUFFICES ASSUME IInv, pc = "done" PROVE OrderIsKept
  BY DEF OrderIsKept, QualityDecides, FallbacksComeLast, NamesKeepTheirOrder
<1>1. /\ TypeOK /\ Distinct(locales)
      /\ Elements(locales) = UNION {Shorter(range) : range \in AskedFor \cup {En}}
      /\ \/ OfTheHeader /\ HeaderOrder
         \/ header = <<>> /\ Ordered(input, locales)
  BY DEF IInv, Listed
<1>2. /\ locales \in Seq(LanguageRanges) /\ input \in Seq(LanguageRanges)
      /\ AskedFor = Elements(input) /\ Elements(input) \in SUBSET LanguageRanges
      /\ \A n \in DOMAIN locales : n \in Nat
      /\ DOMAIN input = 1 .. Len(input) /\ Len(input) \in Nat
  BY <1>1, ListTypes DEF TypeOK, AskedFor, Elements
<1>3. ASSUME NEW range \in AskedFor
      PROVE  Shorter(range) \subseteq Elements(locales) /\ range \in Elements(locales)
  <2>1. Shorter(range) \subseteq Elements(locales)
    BY <1>1
  <2>2. QED
    BY <1>2, <2>1, ShorterFacts
<1>4. QualityDecides
  <2>1. ASSUME header # <<>>, NEW r \in AskedFor, NEW s \in AskedFor, Better(r, s)
        PROVE  Place(r) < Place(s)
    <3>1. Precedes(locales, r, s)
      BY <1>1, <2>1 DEF HeaderOrder
    <3>2. QED
      BY <1>2, <1>3, <3>1, PlacesAsOrdered
  <2>2. QED
    BY <2>1 DEF QualityDecides, Better
<1>5. FallbacksComeLast
  <2>1. ASSUME header # <<>>, NEW r \in Elements(locales) \ AskedFor,
               NEW s \in AskedFor, r \in Shorter(s)
        PROVE  Place(s) < Place(r)
    <3>1. Precedes(locales, s, r)
      BY <1>1, <2>1 DEF HeaderOrder
    <3>2. QED
      BY <1>2, <1>3, <3>1, PlacesAsOrdered
  <2>2. QED
    BY <2>1 DEF FallbacksComeLast, Elements
<1>6. NamesKeepTheirOrder
  <2> SUFFICES ASSUME header = <<>>, NEW m \in DOMAIN input, NEW n \in DOMAIN input,
                      NEW r \in Shorter(input[m]), NEW s \in Shorter(input[n]),
                      \/ /\ m < n
                         /\ \A k \in 1 .. m : s \notin Shorter(input[k])
                      \/ /\ m = n /\ Len(r) > Len(s)
                         /\ \A k \in 1 .. m - 1 : s \notin Shorter(input[k])
               PROVE  Place(r) < Place(s)
    BY DEF NamesKeepTheirOrder
  <2>1. m \in 1 .. Len(input) /\ n \in 1 .. Len(input) /\ m \in 1 .. m
    BY <1>2
  <2>2. Ordered(input, locales)
    <3>1. CASE OfTheHeader
      <4>1. DOMAIN input = {}
        BY <3>1 DEF OfTheHeader
      <4>2. QED
        BY <4>1
    <3>2. QED
      BY <1>1, <3>1
  <2>3. /\ input[m] \in AskedFor /\ input[n] \in AskedFor
        /\ input[m] \in LanguageRanges /\ input[n] \in LanguageRanges
    BY <1>2 DEF Elements
  <2>4. r \in Elements(locales) /\ s \in Elements(locales)
    BY <1>3, <2>3
  <2>5. /\ Place(r) \in DOMAIN locales /\ locales[Place(r)] = r
        /\ Place(s) \in DOMAIN locales /\ locales[Place(s)] = s
    BY <1>2, <2>4, PlacesAsOrdered
  <2>6. Len(r) \in Nat /\ Len(s) \in Nat
    <3>1. Len(r) \in 1 .. Len(input[m]) /\ Len(s) \in 1 .. Len(input[n])
      BY <2>3, ShorterFacts
    <3>2. QED
      BY <3>1
  <2>7. r # s
    <3>1. CASE m < n /\ \A k \in 1 .. m : s \notin Shorter(input[k])
      BY <2>1, <3>1
    <3>2. CASE Len(r) > Len(s)
      BY <2>6, <3>2
    <3>3. QED
      BY <3>1, <3>2
  <2>8. ASSUME Place(s) < Place(r) PROVE FALSE
    <3>1. InOrder(input, s, r)
      BY <2>2, <2>5, <2>8 DEF Ordered
    <3>2. \/ \E l \in 1 .. m - 1 : s \in Shorter(input[l])
          \/ s \in Shorter(input[m]) /\ Len(s) > Len(r)
      BY <3>1 DEF InOrder
    <3>3. \A l \in 1 .. m - 1 : l \in 1 .. m
      BY <2>1
    <3>4. CASE m < n /\ \A k \in 1 .. m : s \notin Shorter(input[k])
      BY <2>1, <3>2, <3>3, <3>4
    <3>5. CASE Len(r) > Len(s) /\ \A k \in 1 .. m - 1 : s \notin Shorter(input[k])
      BY <2>6, <3>2, <3>5
    <3>6. QED
      BY <3>4, <3>5
  <2>9. Place(r) # Place(s) /\ Place(r) \in Nat /\ Place(s) \in Nat
    BY <1>2, <2>5, <2>7
  <2>10. QED
    BY <2>8, <2>9
<1>7. QED
  BY <1>4, <1>5, <1>6 DEF OrderIsKept

------------------------------------------------------------------------------
(* The theorems *)

(* Whatever a header or the environment names: the list has it, its shorter  *)
(* versions and the last resort, each once, and nothing else                 *)
(* (lngs_storage.cpp: http_accept_language, system_locales).                 *)
THEOREM ListComplete == LocalesSpec => []ListIsComplete
BY InvInit, InvStep, DoneIsComplete, PTL DEF LocalesSpec

(* Whatever is inserted and appended, nothing gets ahead of what is to come  *)
(* before it: by quality and place in a header, by place and length in the   *)
(* names of a system (lngs_storage.cpp: expand_list, appendLocale).          *)
THEOREM OrderKept == LocalesSpec => []OrderIsKept
BY InvInit, InvStep, DoneIsInOrder, PTL DEF LocalesSpec

==============================================================================
