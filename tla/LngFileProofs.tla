----------------------------- MODULE LngFileProofs ----------------------------
(***************************************************************************)
(* Proofs about LngFile, for any catalogues, words of any size and bytes   *)
(* of any number of values.                                                *)
(***************************************************************************)
EXTENDS LngFile, Facts

ByteValues == 0 .. Base - 1

------------------------------------------------------------------------------
(* Words and bytes *)

(* The loops over the digits of a word: putting it together                  *)
WordLoop(digits, bytes, w) ==
    digits = [k \in 0 .. WordSize |->
                IF k = 0 THEN 0
                ELSE digits[k - 1] * Base + Padded(bytes, w * WordSize + 1 - k)]

(* and taking it apart                                                       *)
RestLoop(rest, x, n) ==
    rest = [k \in 0 .. n |-> IF k = 0 THEN x ELSE rest[k - 1] \div Base]

LEMMA PaddedTypes ==
    ASSUME NEW bytes \in Seq(ByteValues), NEW n \in Int, n >= 1
    PROVE  Padded(bytes, n) \in ByteValues
<1>1. 0 \in ByteValues /\ Len(bytes) \in Nat
  BY LngFileAssumption DEF ByteValues
<1>2. CASE n <= Len(bytes)
  <2>1. n \in 1 .. Len(bytes)
    BY <1>1, <1>2
  <2>2. bytes[n] \in ByteValues
    BY <2>1
  <2>3. QED
    BY <1>2, <2>2 DEF Padded
<1>3. CASE ~(n <= Len(bytes))
  BY <1>1, <1>3 DEF Padded, Nul
<1>4. QED
  BY <1>2, <1>3

LEMMA WordLoopExists ==
    ASSUME NEW bytes \in Seq(ByteValues), NEW w \in Nat \ {0}
    PROVE  \E digits : WordLoop(digits, bytes, w) /\ digits \in [0 .. WordSize -> Nat]
<1> DEFINE digit(k) == Padded(bytes, w * WordSize + 1 - k)
           step == [k \in 1 .. WordSize |-> [x \in Nat |-> x * Base + digit(k)]]
<1>1. WordSize \in Nat \ {0} /\ Base \in Nat \ {0}
  BY LngFileAssumption
<1>2. ASSUME NEW k \in 1 .. WordSize PROVE digit(k) \in 0 .. Base - 1
  <2>1. w * WordSize \in Nat /\ w * WordSize >= WordSize
    <3>1. w - 1 \in Nat /\ w = (w - 1) + 1
      OBVIOUS
    <3>2. (w - 1) * WordSize \in Nat
      BY <1>1, <3>1
    <3>3. w * WordSize = (w - 1) * WordSize + WordSize
      BY <1>1, <3>1
    <3>4. QED
      BY <1>1, <3>2, <3>3
  <2>2. w * WordSize + 1 - k \in Int /\ w * WordSize + 1 - k >= 1
    BY <1>1, <2>1
  <2>3. QED
    BY <2>2, PaddedTypes DEF ByteValues
<1> HIDE DEF digit
<1>3. ASSUME NEW k \in 1 .. WordSize, NEW x \in Nat PROVE x * Base + digit(k) \in Nat
  BY <1>1, <1>2, LastDigit
<1>4. step \in [1 .. WordSize -> [Nat -> Nat]]
  BY <1>3
<1> HIDE DEF step
<1>5. PICK f : Iterates(f, Nat, 0, WordSize, step)
  BY <1>1, <1>4, RecursionExists
<1>6. f \in [0 .. WordSize -> Nat] /\ f[0] = 0
  BY <1>5 DEF Iterates
<1>7. ASSUME NEW k \in 1 .. WordSize
      PROVE  f[k] = f[k - 1] * Base + digit(k)
  <2>1. k - 1 \in 0 .. WordSize
    BY <1>1
  <2>2. f[k - 1] \in Nat /\ f[k] = step[k][f[k - 1]]
    BY <1>5, <1>6, <2>1 DEF Iterates
  <2>3. QED
    BY <2>2 DEF step
<1>8. f = [k \in 0 .. WordSize |-> IF k = 0 THEN 0 ELSE f[k - 1] * Base + digit(k)]
  <2> DEFINE h == [k \in 0 .. WordSize |->
                     IF k = 0 THEN 0 ELSE f[k - 1] * Base + digit(k)]
  <2>1. ASSUME NEW k \in 0 .. WordSize PROVE f[k] = h[k]
    <3>1. k = 0 \/ k \in 1 .. WordSize
      BY <1>1
    <3>2. QED
      BY <1>6, <1>7, <3>1
  <2>2. QED
    BY <1>6, <2>1
<1>9. WordLoop(f, bytes, w)
  BY <1>8 DEF WordLoop, digit
<1>10. QED
  BY <1>6, <1>9

(* Taking a word apart gives back its bytes.                                 *)
LEMMA BytesOfWord ==
    ASSUME NEW bytes \in Seq(ByteValues), NEW w \in Nat \ {0}
    PROVE  /\ Word(bytes, w) \in Nat
           /\ \A n \in 0 .. WordSize - 1 : \A rest : RestLoop(rest, Word(bytes, w), n) =>
                 rest[n] % Base = Padded(bytes, (w - 1) * WordSize + 1 + n)
<1>1. WordSize \in Nat \ {0} /\ Base \in Nat \ {0}
  BY LngFileAssumption
<1> DEFINE digits == CHOOSE d : WordLoop(d, bytes, w)
           digit(k) == Padded(bytes, w * WordSize + 1 - k)
<1>2. WordLoop(digits, bytes, w)
  <2>1. \E d : WordLoop(d, bytes, w)
    BY WordLoopExists
  <2>2. QED
    BY <2>1, Zenon
<1>3. Word(bytes, w) = digits[WordSize]
  BY DEF Word, WordLoop
<1> HIDE DEF digits
<1>4. /\ digits[0] = 0
      /\ \A k \in 1 .. WordSize : digits[k] = digits[k - 1] * Base + digit(k)
  <2>1. \A k \in 0 .. WordSize :
           digits[k] = IF k = 0 THEN 0 ELSE digits[k - 1] * Base + digit(k)
    BY <1>2, Zenon DEF WordLoop
  <2> HIDE DEF digit
  <2>2. 0 \in 0 .. WordSize
    BY <1>1
  <2>3. \A k \in 1 .. WordSize : k \in 0 .. WordSize /\ k # 0
    BY <1>1
  <2>4. QED
    BY <2>1, <2>2, <2>3
<1>5. ASSUME NEW k \in 1 .. WordSize PROVE digit(k) \in 0 .. Base - 1
  <2>1. w * WordSize \in Nat /\ w * WordSize >= WordSize
    <3>1. w - 1 \in Nat /\ w = (w - 1) + 1
      OBVIOUS
    <3>2. (w - 1) * WordSize \in Nat
      BY <1>1, <3>1
    <3>3. w * WordSize = (w - 1) * WordSize + WordSize
      BY <1>1, <3>1
    <3>4. QED
      BY <1>1, <3>2, <3>3
  <2>2. w * WordSize + 1 - k \in Int /\ w * WordSize + 1 - k >= 1
    BY <1>1, <2>1
  <2>3. QED
    BY <2>2, PaddedTypes DEF ByteValues
<1>6. ASSUME NEW k \in 0 .. WordSize PROVE digits[k] \in Nat
  <2> DEFINE Good == {m \in Nat : m <= WordSize => digits[m] \in Nat}
  <2>1. 0 \in Good
    BY <1>4
  <2>2. ASSUME NEW m \in Good PROVE m + 1 \in Good
    <3>1. ASSUME m + 1 <= WordSize PROVE digits[m + 1] \in Nat
      <4>1. m <= WordSize /\ m + 1 \in 1 .. WordSize /\ (m + 1) - 1 = m
        BY <1>1, <3>1
      <4>2. digits[m] \in Nat /\ digit(m + 1) \in 0 .. Base - 1
        BY <1>5, <4>1
      <4>3. digits[m + 1] = digits[m] * Base + digit(m + 1)
        BY <1>4, <4>1
      <4> HIDE DEF digit
      <4>4. QED
        BY <1>1, <4>2, <4>3, LastDigit
    <3>2. QED
      BY <3>1
  <2>3. Good \in SUBSET Nat
    OBVIOUS
  <2> HIDE DEF Good
  <2>4. k \in Good
    BY <2>1, <2>2, <2>3, InductionOverNat
  <2>5. QED
    BY <1>1, <2>4 DEF Good
<1> HIDE DEF digit
<1>7. ASSUME NEW k \in 1 .. WordSize
      PROVE  digits[k] \div Base = digits[k - 1] /\ digits[k] % Base = digit(k)
  <2>1. k - 1 \in 0 .. WordSize
    BY <1>1
  <2>2. digits[k - 1] \in Nat
    BY <1>6, <2>1
  <2>3. digits[k] = digits[k - 1] * Base + digit(k) /\ digit(k) \in 0 .. Base - 1
    BY <1>4, <1>5
  <2>4. /\ (digits[k - 1] * Base + digit(k)) \div Base = digits[k - 1]
        /\ (digits[k - 1] * Base + digit(k)) % Base = digit(k)
    BY <1>1, <2>2, <2>3, LastDigit
  <2>5. QED
    BY <2>3, <2>4
<1>8. ASSUME NEW n \in 0 .. WordSize - 1, NEW rest, RestLoop(rest, Word(bytes, w), n)
      PROVE  rest[n] % Base = Padded(bytes, (w - 1) * WordSize + 1 + n)
  <2>1. \A k \in 0 .. n : rest[k] = IF k = 0 THEN digits[WordSize]
                                    ELSE rest[k - 1] \div Base
    BY <1>3, <1>8, Zenon DEF RestLoop
  <2> DEFINE Good == {m \in Nat : m <= n => rest[m] = digits[WordSize - m]}
  <2>2. 0 \in Good
    <3>1. 0 \in 0 .. n /\ WordSize - 0 = WordSize
      BY <1>1
    <3>2. QED
      BY <2>1, <3>1
  <2>3. ASSUME NEW m \in Good PROVE m + 1 \in Good
    <3>1. ASSUME m + 1 <= n PROVE rest[m + 1] = digits[WordSize - (m + 1)]
      <4>1. /\ m <= n /\ m + 1 \in 0 .. n /\ m + 1 # 0 /\ (m + 1) - 1 = m
            /\ WordSize - m \in 1 .. WordSize
            /\ (WordSize - m) - 1 = WordSize - (m + 1)
        BY <1>1, <3>1
      <4>2. rest[m] = digits[WordSize - m]
        BY <4>1
      <4>3. rest[m + 1] = rest[m] \div Base
        BY <2>1, <4>1
      <4>4. digits[WordSize - m] \div Base = digits[(WordSize - m) - 1]
        BY <1>7, <4>1
      <4>5. QED
        BY <4>1, <4>2, <4>3, <4>4
    <3>2. QED
      BY <3>1
  <2>4. Good \in SUBSET Nat
    OBVIOUS
  <2> HIDE DEF Good
  <2>5. n \in Good
    BY <2>2, <2>3, <2>4, InductionOverNat
  <2>6. rest[n] = digits[WordSize - n] /\ WordSize - n \in 1 .. WordSize
    BY <1>1, <2>5 DEF Good
  <2>7. rest[n] % Base = digit(WordSize - n)
    BY <1>7, <2>6
  <2>8. w * WordSize + 1 - (WordSize - n) = (w - 1) * WordSize + 1 + n
    BY <1>1
  <2>9. QED
    BY <2>7, <2>8 DEF digit
<1>9. Word(bytes, w) \in Nat
  <2>1. WordSize \in 0 .. WordSize
    BY <1>1
  <2>2. QED
    BY <1>3, <1>6, <2>1
<1>10. QED
  BY <1>8, <1>9

LEMMA RestLoopExists ==
    ASSUME NEW x \in Nat, NEW n \in Nat
    PROVE  \E rest : RestLoop(rest, x, n)
<1> DEFINE step == [k \in 1 .. n |-> [y \in Nat |-> y \div Base]]
<1>1. Base \in Nat \ {0}
  BY LngFileAssumption
<1>2. step \in [1 .. n -> [Nat -> Nat]]
  BY <1>1, Division
<1> HIDE DEF step
<1>3. PICK f : Iterates(f, Nat, x, n, step)
  BY <1>2, RecursionExists
<1>4. f \in [0 .. n -> Nat] /\ f[0] = x
  BY <1>3 DEF Iterates
<1>5. ASSUME NEW k \in 1 .. n PROVE f[k] = f[k - 1] \div Base
  <2>1. k - 1 \in 0 .. n
    OBVIOUS
  <2>2. f[k - 1] \in Nat /\ f[k] = step[k][f[k - 1]]
    BY <1>3, <1>4, <2>1 DEF Iterates
  <2>3. QED
    BY <2>2 DEF step
<1>6. f = [k \in 0 .. n |-> IF k = 0 THEN x ELSE f[k - 1] \div Base]
  <2> DEFINE h == [k \in 0 .. n |-> IF k = 0 THEN x ELSE f[k - 1] \div Base]
  <2>1. ASSUME NEW k \in 0 .. n PROVE f[k] = h[k]
    <3>1. k = 0 \/ k \in 1 .. n
      OBVIOUS
    <3>2. QED
      BY <1>4, <1>5, <3>1
  <2>2. QED
    BY <1>4, <2>1
<1>7. QED
  BY <1>6 DEF RestLoop

(* A byte that is read is the one that was packed.                           *)
LEMMA ByteOfPacked ==
    ASSUME NEW bytes \in Seq(ByteValues), NEW word, NEW n \in Nat,
           view[word + n \div WordSize] = Word(bytes, n \div WordSize + 1)
    PROVE  Byte(word, n) = Padded(bytes, n + 1)
<1> DEFINE q == n \div WordSize
           m == n % WordSize
           x == view[word + q]
           rest == CHOOSE f : RestLoop(f, x, m)
<1>1. WordSize \in Nat \ {0} /\ Base \in Nat \ {0}
  BY LngFileAssumption
<1>2. q \in Nat /\ m \in 0 .. WordSize - 1 /\ n = q * WordSize + m
  BY <1>1, Division
<1>3. Byte(word, n) = rest[m] % Base
  BY DEF Byte, RestLoop
<1>4. x = Word(bytes, q + 1)
  OBVIOUS
<1> HIDE DEF x, q, m
<1>5. q + 1 \in Nat \ {0} /\ m \in Nat
  BY <1>1, <1>2
<1>6. x \in Nat
  BY <1>4, <1>5, BytesOfWord
<1>7. RestLoop(rest, x, m)
  <2>1. \E f : RestLoop(f, x, m)
    BY <1>5, <1>6, RestLoopExists
  <2>2. QED
    BY <2>1, Zenon
<1> HIDE DEF rest
<1>8. rest[m] % Base = Padded(bytes, ((q + 1) - 1) * WordSize + 1 + m)
  BY <1>2, <1>4, <1>5, <1>7, BytesOfWord
<1>9. ((q + 1) - 1) * WordSize + 1 + m = n + 1
  BY <1>1, <1>2
<1>10. QED
  BY <1>3, <1>8, <1>9

LEMMA PackFacts ==
    ASSUME NEW bytes \in Seq(ByteValues)
    PROVE  LET P == Pack(bytes) IN
           /\ P \in Seq(Nat) /\ Len(P) \in Nat
           /\ Len(P) * WordSize \in Nat /\ Len(bytes) <= Len(P) * WordSize
           /\ \A n \in 0 .. Len(bytes) - 1 :
                 /\ n \div WordSize + 1 \in 1 .. Len(P)
                 /\ P[n \div WordSize + 1] = Word(bytes, n \div WordSize + 1)
<1> DEFINE P == Pack(bytes)
           len == Len(bytes)
           size == (len + WordSize - 1) \div WordSize
<1>1. WordSize \in Nat \ {0} /\ len \in Nat
  BY LngFileAssumption
<1>2. /\ size \in Nat /\ len + WordSize - 1 \in Nat
      /\ (len + WordSize - 1) % WordSize \in 0 .. WordSize - 1
      /\ len + WordSize - 1 = size * WordSize + ((len + WordSize - 1) % WordSize)
  <2>1. len + WordSize - 1 \in Nat
    BY <1>1
  <2> HIDE DEF len
  <2>2. QED
    BY <1>1, <2>1, Division
<1>3. P = [w \in 1 .. size |-> Word(bytes, w)]
  BY DEF Pack
<1> HIDE DEF size, P
<1>4. \A w \in 1 .. size : Word(bytes, w) \in Nat
  BY BytesOfWord
<1>5. P \in Seq(Nat) /\ Len(P) = size
  BY <1>2, <1>3, <1>4
<1> HIDE DEF len
<1>6. size * WordSize \in Nat /\ len <= size * WordSize
  BY <1>1, <1>2
<1>7. ASSUME NEW n \in 0 .. len - 1
      PROVE  n \div WordSize + 1 \in 1 .. size
  <2> DEFINE q == n \div WordSize
             m == n % WordSize
  <2>0. n \in Nat
    BY <1>1
  <2>1. q \in Nat /\ m \in 0 .. WordSize - 1 /\ n = q * WordSize + m
    BY <1>1, <2>0, Division
  <2> HIDE DEF q, m
  <2>2. q < size
    <3>1. ASSUME ~(q < size) PROVE FALSE
      <4>1. PICK k \in Nat : q = size + k
        <5>1. q - size \in Nat /\ q = size + (q - size)
          BY <1>2, <2>1, <3>1
        <5>2. QED
          BY <5>1
      <4>2. q * WordSize = size * WordSize + k * WordSize /\ k * WordSize \in Nat
        BY <1>1, <1>2, <4>1
      <4>3. QED
        BY <1>1, <1>2, <1>6, <2>1, <4>2
    <3>2. QED
      BY <3>1
  <2>3. QED
    BY <1>2, <2>1, <2>2 DEF q
<1>8. QED
  BY <1>3, <1>5, <1>6, <1>7, <1>2 DEF P, len

------------------------------------------------------------------------------
(* The strings of a block *)

LEMMA ValueTypes ==
    ASSUME NEW entry \in Entries
    PROVE  Value(entry) \in Seq(ByteValues) /\ Len(Value(entry)) \in Nat
<1> DEFINE forms == entry.forms
           seqs == [n \in DOMAIN forms |->
                      IF n = 1 THEN forms[n] ELSE <<Nul>> \o forms[n]]
<1>1. forms \in Seq(Seq(1 .. Base - 1))
  BY DEF Entries
<1>2. \A n \in DOMAIN forms : forms[n] \in Seq(1 .. Base - 1)
  BY <1>1
<1>3. 1 .. Base - 1 \subseteq ByteValues /\ Nul \in ByteValues
  BY LngFileAssumption DEF ByteValues, Nul
<1>4. \A n \in DOMAIN forms : forms[n] \in Seq(ByteValues)
  BY <1>2, <1>3, SeqMonotonic
<1>5. \A n \in DOMAIN forms : <<Nul>> \o forms[n] \in Seq(ByteValues)
  <2>1. <<Nul>> \in Seq(ByteValues)
    BY <1>3
  <2>2. QED
    BY <1>4, <2>1, ConcatProperties
<1>6. seqs \in Seq(Seq(ByteValues))
  <2>1. Len(forms) \in Nat /\ DOMAIN forms = 1 .. Len(forms)
    BY <1>1
  <2>2. \A n \in DOMAIN forms : seqs[n] \in Seq(ByteValues)
    BY <1>4, <1>5
  <2>3. seqs = [n \in 1 .. Len(forms) |-> seqs[n]]
    BY <2>1
  <2> HIDE DEF seqs, forms
  <2>4. QED
    BY <2>1, <2>2, <2>3
<1>7. Value(entry) = FlattenSeq(seqs)
  BY DEF Value
<1> HIDE DEF seqs
<1>8. Value(entry) \in Seq(ByteValues)
  BY <1>6, <1>7, FlattenFacts
<1>9. QED
  BY <1>8, LenProperties

(* The loop in update_offsets                                                *)
OffsetLoop(next_offset, block, n) ==
    next_offset = [k \in 1 .. n |->
                     IF k = 1 THEN 0
                     ELSE next_offset[k - 1] + Len(Value(block[k - 1])) + 1]

(* data() puts each string where update_offsets says, with a zero behind it. *)
LEMMA DataFacts ==
    ASSUME NEW block \in Blocks
    PROVE  /\ Data(block) \in Seq(ByteValues) /\ Len(Data(block)) \in Nat
           /\ \A n \in 1 .. Len(block) :
                 LET at == Offset(block, n)
                     value == Value(block[n])
                 IN /\ at \in Nat /\ Len(value) \in Nat
                    /\ at + Len(value) + 1 <= Len(Data(block))
                    /\ \A k \in 1 .. Len(value) : Data(block)[at + k] = value[k]
                    /\ Data(block)[at + Len(value) + 1] = Nul
<1> DEFINE len == Len(block)
           seqs == [n \in DOMAIN block |-> Append(Value(block[n]), Nul)]
           data == Data(block)
<1>1. /\ len \in Nat /\ DOMAIN block = 1 .. len
      /\ \A n \in 1 .. len : block[n] \in Entries
  BY DEF Blocks
<1>2. \A n \in 1 .. len : /\ Value(block[n]) \in Seq(ByteValues)
                          /\ Len(Value(block[n])) \in Nat
  BY <1>1, ValueTypes
<1>3. Nul \in ByteValues
  BY LngFileAssumption DEF ByteValues, Nul
<1>4. \A n \in 1 .. len :
         /\ seqs[n] = Append(Value(block[n]), Nul)
         /\ seqs[n] \in Seq(ByteValues)
         /\ Len(seqs[n]) = Len(Value(block[n])) + 1
         /\ \A k \in 1 .. Len(Value(block[n])) : seqs[n][k] = Value(block[n])[k]
         /\ seqs[n][Len(Value(block[n])) + 1] = Nul
  <2>1. \A n \in 1 .. len : seqs[n] = Append(Value(block[n]), Nul)
    BY <1>1
  <2> HIDE DEF seqs, len
  <2>2. QED
    BY <1>2, <1>3, <2>1, AppendProperties
<1>5. seqs \in Seq(Seq(ByteValues)) /\ Len(seqs) = len
  <2>1. seqs = [n \in 1 .. len |-> seqs[n]]
    BY <1>1
  <2> HIDE DEF seqs, len
  <2>2. QED
    BY <1>1, <1>4, <2>1
<1>6. data = FlattenSeq(seqs)
  BY DEF Data
<1> HIDE DEF seqs, data, len
<1>7. data \in Seq(ByteValues)
  BY <1>5, <1>6, FlattenFacts
<1>8. PICK starts : Flattened(seqs, starts, data)
  BY <1>5, <1>6, FlattenFacts
<1>9. /\ starts \in [1 .. len + 1 -> Nat]
      /\ starts[1] = 0
      /\ \A i \in 1 .. len : starts[i + 1] = starts[i] + Len(seqs[i])
      /\ \A i \in 1 .. len, k \in Nat :
            k \in 1 .. Len(seqs[i]) =>
               /\ starts[i] + k \in 1 .. Len(data)
               /\ data[starts[i] + k] = seqs[i][k]
  BY <1>5, <1>8 DEF Flattened
<1>10. \A i \in 1 .. len : starts[i + 1] = starts[i] + Len(Value(block[i])) + 1
  <2>1. \A i \in 1 .. len : starts[i] \in Nat
    BY <1>1, <1>9
  <2>2. ASSUME NEW i \in 1 .. len
        PROVE  starts[i + 1] = starts[i] + Len(Value(block[i])) + 1
    <3>1. starts[i + 1] = starts[i] + Len(seqs[i]) /\ starts[i] \in Nat
      BY <1>9, <2>1
    <3>2. Len(seqs[i]) = Len(Value(block[i])) + 1 /\ Len(Value(block[i])) \in Nat
      BY <1>2, <1>4
    <3>3. QED
      BY <3>1, <3>2
  <2>3. QED
    BY <2>2
<1>11. ASSUME NEW n \in 1 .. len PROVE Offset(block, n) = starts[n]
  <2> DEFINE next == CHOOSE f : OffsetLoop(f, block, n)
             g == [k \in 1 .. n |-> starts[k]]
  <2>1. ASSUME NEW k \in 1 .. n
        PROVE  g[k] = IF k = 1 THEN 0 ELSE g[k - 1] + Len(Value(block[k - 1])) + 1
    <3>1. CASE k = 1
      BY <1>9, <3>1
    <3>2. CASE k # 1
      <4>1. k - 1 \in 1 .. len /\ k - 1 \in 1 .. n /\ (k - 1) + 1 = k
        BY <1>1, <3>2
      <4>2. g[k] = starts[(k - 1) + 1] /\ g[k - 1] = starts[k - 1]
        BY <4>1
      <4> HIDE DEF g
      <4>3. QED
        BY <1>10, <3>2, <4>1, <4>2
    <3>3. QED
      BY <3>1, <3>2
  <2>2. g = [k \in 1 .. n |->
               IF k = 1 THEN 0 ELSE g[k - 1] + Len(Value(block[k - 1])) + 1]
    <3> DEFINE h == [k \in 1 .. n |->
                       IF k = 1 THEN 0 ELSE g[k - 1] + Len(Value(block[k - 1])) + 1]
    <3>1. \A k \in 1 .. n : g[k] = h[k]
      BY <2>1
    <3>2. QED
      BY <3>1
  <2>3. OffsetLoop(next, block, n)
    <3>1. OffsetLoop(g, block, n)
      BY <2>2 DEF OffsetLoop
    <3>2. QED
      BY <3>1, Zenon
  <2>4. Offset(block, n) = next[n]
    BY DEF Offset, OffsetLoop
  <2> HIDE DEF next, g
  <2>5. \A k \in 1 .. n :
           next[k] = IF k = 1 THEN 0 ELSE next[k - 1] + Len(Value(block[k - 1])) + 1
    BY <2>3, Zenon DEF OffsetLoop
  <2> DEFINE Good == {m \in Nat : m + 1 <= n => next[m + 1] = starts[m + 1]}
  <2>6. 0 \in Good
    <3>1. 0 + 1 = 1 /\ 1 \in 1 .. n
      BY <1>1
    <3>2. QED
      BY <1>9, <2>5, <3>1
  <2>7. ASSUME NEW m \in Good PROVE m + 1 \in Good
    <3>1. ASSUME (m + 1) + 1 <= n PROVE next[(m + 1) + 1] = starts[(m + 1) + 1]
      <4>1. /\ m + 1 <= n /\ m + 1 \in 1 .. len /\ (m + 1) + 1 \in 1 .. n
            /\ (m + 1) + 1 # 1 /\ ((m + 1) + 1) - 1 = m + 1
        BY <1>1, <3>1
      <4>2. next[m + 1] = starts[m + 1]
        BY <4>1
      <4>3. next[(m + 1) + 1] = next[m + 1] + Len(Value(block[m + 1])) + 1
        BY <2>5, <4>1
      <4>4. starts[(m + 1) + 1] = starts[m + 1] + Len(Value(block[m + 1])) + 1
        BY <1>10, <4>1
      <4>5. QED
        BY <4>2, <4>3, <4>4
    <3>2. QED
      BY <3>1
  <2>8. Good \in SUBSET Nat
    OBVIOUS
  <2> HIDE DEF Good
  <2>9. n - 1 \in Good /\ (n - 1) + 1 = n
    <3>1. n - 1 \in Nat /\ (n - 1) + 1 = n
      BY <1>1
    <3>2. QED
      BY <2>6, <2>7, <2>8, <3>1, InductionOverNat
  <2>10. QED
    BY <1>1, <2>4, <2>9 DEF Good
<1>12. ASSUME NEW n \in 1 .. len
       PROVE  LET at == Offset(block, n)
                  value == Value(block[n])
              IN /\ at \in Nat /\ Len(value) \in Nat
                 /\ at + Len(value) + 1 <= Len(data)
                 /\ \A k \in 1 .. Len(value) : data[at + k] = value[k]
                 /\ data[at + Len(value) + 1] = Nul
  <2> DEFINE at == Offset(block, n)
             value == Value(block[n])
  <2>1. at = starts[n] /\ at \in Nat /\ Len(value) \in Nat
    BY <1>1, <1>2, <1>9, <1>11
  <2>2. /\ Len(seqs[n]) = Len(value) + 1
        /\ \A k \in 1 .. Len(value) : seqs[n][k] = value[k]
        /\ seqs[n][Len(value) + 1] = Nul
    BY <1>4
  <2> HIDE DEF at, value
  <2>3. ASSUME NEW k \in 1 .. Len(value) + 1
        PROVE  at + k \in 1 .. Len(data) /\ data[at + k] = seqs[n][k]
    <3>1. k \in Nat /\ k \in 1 .. Len(seqs[n])
      BY <2>1, <2>2
    <3>2. QED
      BY <1>9, <2>1, <3>1
  <2>4. Len(value) + 1 \in 1 .. Len(value) + 1
    BY <2>1
  <2>5. /\ at + (Len(value) + 1) \in 1 .. Len(data)
        /\ data[at + (Len(value) + 1)] = Nul
    BY <2>2, <2>3, <2>4
  <2>6. at + (Len(value) + 1) = at + Len(value) + 1
    BY <2>1
  <2>7. at + Len(value) + 1 <= Len(data)
    <3>1. Len(data) \in Nat
      BY <1>7, LenProperties
    <3>2. QED
      BY <2>5, <2>6, <3>1
  <2>8. \A k \in 1 .. Len(value) : data[at + k] = value[k]
    <3>1. \A k \in 1 .. Len(value) : k \in 1 .. Len(value) + 1
      BY <2>1
    <3>2. QED
      BY <2>2, <2>3, <3>1
  <2>9. QED
    BY <2>1, <2>5, <2>6, <2>7, <2>8 DEF at, value
<1>13. QED
  BY <1>7, <1>12, LenProperties DEF data, len

(* list() has three words for each string.                                   *)
LEMMA ListFacts ==
    ASSUME NEW block \in Blocks
    PROVE  /\ List(block) \in Seq(Nat)
           /\ Len(block) \in Nat /\ Len(List(block)) = 3 * Len(block)
           /\ \A n \in 1 .. Len(block) :
                 /\ 3 * (n - 1) + 1 \in 1 .. 3 * Len(block)
                 /\ 3 * (n - 1) + 2 \in 1 .. 3 * Len(block)
                 /\ 3 * (n - 1) + 3 \in 1 .. 3 * Len(block)
                 /\ List(block)[3 * (n - 1) + 1] = block[n].id
                 /\ List(block)[3 * (n - 1) + 2] = Offset(block, n)
                 /\ List(block)[3 * (n - 1) + 3] = Len(Value(block[n]))
<1> DEFINE len == Len(block)
           id(n) == block[n].id
           at(n) == Offset(block, n)
           size(n) == Len(Value(block[n]))
           seqs == [n \in DOMAIN block |-> <<id(n), at(n), size(n)>>]
           list == List(block)
<1>1. /\ len \in Nat /\ DOMAIN block = 1 .. len
      /\ \A n \in 1 .. len : block[n] \in Entries
  BY DEF Blocks
<1>2. \A n \in 1 .. len : id(n) \in Nat /\ at(n) \in Nat /\ size(n) \in Nat
  BY <1>1, DataFacts DEF Entries
<1>3. list = FlattenSeq(seqs)
  BY DEF List
<1> HIDE DEF id, at, size
<1>4. /\ \A n \in 1 .. len : seqs[n] = <<id(n), at(n), size(n)>>
      /\ seqs = [n \in 1 .. len |-> seqs[n]]
  BY <1>1
<1> HIDE DEF seqs
<1>5. \A n \in 1 .. len :
         /\ seqs[n] \in Seq(Nat) /\ Len(seqs[n]) = 3
         /\ seqs[n][1] = id(n) /\ seqs[n][2] = at(n) /\ seqs[n][3] = size(n)
  <2>1. ASSUME NEW a \in Nat, NEW b \in Nat, NEW c \in Nat
        PROVE  LET t == <<a, b, c>> IN
               t \in Seq(Nat) /\ Len(t) = 3 /\ t[1] = a /\ t[2] = b /\ t[3] = c
    OBVIOUS
  <2> HIDE DEF len
  <2>2. ASSUME NEW n \in 1 .. len
        PROVE  /\ seqs[n] \in Seq(Nat) /\ Len(seqs[n]) = 3
               /\ seqs[n][1] = id(n) /\ seqs[n][2] = at(n) /\ seqs[n][3] = size(n)
    <3>1. seqs[n] = <<id(n), at(n), size(n)>>
      BY <1>4
    <3>2. id(n) \in Nat /\ at(n) \in Nat /\ size(n) \in Nat
      BY <1>2
    <3>3. QED
      BY <2>1, <3>1, <3>2
  <2>3. QED
    BY <2>2
<1> HIDE DEF len
<1>6. seqs \in Seq(Seq(Nat)) /\ Len(seqs) = len
  BY <1>1, <1>4, <1>5
<1> HIDE DEF list
<1>7. list \in Seq(Nat)
  BY <1>3, <1>6, FlattenFacts
<1>8. PICK starts : Flattened(seqs, starts, list)
  BY <1>3, <1>6, FlattenFacts
<1>9. /\ starts \in [1 .. len + 1 -> Nat]
      /\ starts[1] = 0
      /\ \A i \in 1 .. len : starts[i + 1] = starts[i] + Len(seqs[i])
      /\ Len(list) = starts[len + 1]
      /\ \A i \in 1 .. len, k \in Nat :
            k \in 1 .. Len(seqs[i]) =>
               /\ starts[i] + k \in 1 .. Len(list)
               /\ list[starts[i] + k] = seqs[i][k]
  BY <1>6, <1>8 DEF Flattened
<1>10. ASSUME NEW n \in 1 .. len + 1 PROVE starts[n] = 3 * (n - 1)
  <2> DEFINE Good == {m \in Nat : m <= len => starts[m + 1] = 3 * m}
  <2>1. 0 \in Good
    BY <1>9
  <2>2. ASSUME NEW m \in Good PROVE m + 1 \in Good
    <3>1. ASSUME m + 1 <= len PROVE starts[(m + 1) + 1] = 3 * (m + 1)
      <4>1. m <= len /\ m + 1 \in 1 .. len
        BY <1>1, <3>1
      <4>2. starts[m + 1] = 3 * m
        BY <4>1
      <4>3. starts[(m + 1) + 1] = starts[m + 1] + 3
        BY <1>5, <1>9, <4>1
      <4>4. QED
        BY <4>2, <4>3
    <3>2. QED
      BY <3>1
  <2>3. Good \in SUBSET Nat
    OBVIOUS
  <2> HIDE DEF Good
  <2>4. n - 1 \in Good /\ (n - 1) + 1 = n /\ n - 1 <= len
    <3>1. n - 1 \in Nat /\ (n - 1) + 1 = n /\ n - 1 <= len
      BY <1>1
    <3>2. QED
      BY <2>1, <2>2, <2>3, <3>1, InductionOverNat
  <2>5. QED
    BY <2>4 DEF Good
<1>11. Len(list) = 3 * len
  <2>1. len + 1 \in 1 .. len + 1 /\ (len + 1) - 1 = len
    BY <1>1
  <2>2. QED
    BY <1>9, <1>10, <2>1
<1>12. ASSUME NEW n \in 1 .. len
       PROVE  /\ 3 * (n - 1) + 1 \in 1 .. 3 * len
              /\ 3 * (n - 1) + 2 \in 1 .. 3 * len
              /\ 3 * (n - 1) + 3 \in 1 .. 3 * len
              /\ list[3 * (n - 1) + 1] = id(n)
              /\ list[3 * (n - 1) + 2] = at(n)
              /\ list[3 * (n - 1) + 3] = size(n)
  <2>1. starts[n] = 3 * (n - 1)
    BY <1>1, <1>10
  <2>2. ASSUME NEW k \in 1 .. 3
        PROVE  3 * (n - 1) + k \in 1 .. 3 * len /\ list[3 * (n - 1) + k] = seqs[n][k]
    <3>1. k \in Nat /\ k \in 1 .. Len(seqs[n])
      BY <1>5
    <3>2. starts[n] + k \in 1 .. Len(list) /\ list[starts[n] + k] = seqs[n][k]
      BY <1>9, <3>1
    <3>3. QED
      BY <1>11, <2>1, <3>2
  <2>3. 1 \in 1 .. 3 /\ 2 \in 1 .. 3 /\ 3 \in 1 .. 3
    OBVIOUS
  <2>4. QED
    BY <1>5, <2>2, <2>3
<1>13. QED
  BY <1>1, <1>7, <1>11, <1>12 DEF id, at, size, list, len

(* The words of a section                                                    *)
LEMMA SectionFacts ==
    ASSUME NEW id \in Nat, NEW block \in Blocks, block # <<>>
    PROVE  LET s == Section(id, block)
               n3 == 3 * Len(block)
               P == Pack(Data(block))
           IN /\ s \in Seq(Nat) /\ Len(s) = 4 + n3 + Len(P)
              /\ Len(block) \in Nat \ {0} /\ Len(P) \in Nat
              /\ s[1] = id /\ s[2] = n3 + 2 + Len(P) /\ s[3] = Len(block)
              /\ s[4] = n3 + 4
              /\ \A k \in 1 .. n3 : s[4 + k] = List(block)[k]
              /\ \A k \in 1 .. Len(P) : s[4 + n3 + k] = P[k]
<1> DEFINE s == Section(id, block)
           list == List(block)
           P == Pack(Data(block))
           n3 == 3 * Len(block)
           head == <<id, n3 + 2 + Len(P), Len(block), n3 + 4>>
<1>1. list \in Seq(Nat) /\ Len(block) \in Nat /\ Len(list) = n3
  BY ListFacts
<1>2. P \in Seq(Nat) /\ Len(P) \in Nat
  BY DataFacts, PackFacts
<1>3. Len(block) # 0
  BY EmptySeq DEF Blocks
<1> HIDE DEF P, list
<1>4. head \in Seq(Nat) /\ Len(head) = 4
  BY <1>1, <1>2
<1>5. head[1] = id /\ head[2] = n3 + 2 + Len(P) /\ head[3] = Len(block) /\ head[4] = n3 + 4
  OBVIOUS
<1>6. s = (head \o list) \o P
  BY DEF Section, list, P
<1> HIDE DEF head, s
<1> DEFINE hl == head \o list
<1>7. /\ hl \in Seq(Nat) /\ Len(hl) = 4 + n3
      /\ \A i \in 1 .. 4 + n3 : hl[i] = IF i <= 4 THEN head[i] ELSE list[i - 4]
  <2>1. /\ head \o list \in Seq(Nat)
        /\ Len(head \o list) = Len(head) + Len(list)
        /\ \A i \in 1 .. Len(head) + Len(list) :
              (head \o list)[i] = IF i <= Len(head) THEN head[i]
                                  ELSE list[i - Len(head)]
    BY <1>1, <1>4, ConcatProperties
  <2>2. Len(head) + Len(list) = 4 + n3
    BY <1>1, <1>4
  <2> HIDE DEF n3
  <2>3. QED
    BY <1>1, <1>4, <2>1, <2>2
<1>8. n3 \in Nat
  BY <1>1
<1> HIDE DEF hl, n3
<1>9. /\ s \in Seq(Nat) /\ Len(s) = 4 + n3 + Len(P)
      /\ \A i \in 1 .. (4 + n3) + Len(P) :
            s[i] = IF i <= 4 + n3 THEN hl[i] ELSE P[i - (4 + n3)]
  <2>1. s = hl \o P
    BY <1>6 DEF hl
  <2>2. /\ hl \o P \in Seq(Nat)
        /\ Len(hl \o P) = Len(hl) + Len(P)
        /\ \A i \in 1 .. Len(hl) + Len(P) :
              (hl \o P)[i] = IF i <= Len(hl) THEN hl[i] ELSE P[i - Len(hl)]
    BY <1>2, <1>7, ConcatProperties
  <2>3. QED
    BY <1>7, <2>1, <2>2
<1>10. ASSUME NEW i \in 1 .. 4 PROVE s[i] = head[i]
  <2>1. i \in 1 .. (4 + n3) + Len(P) /\ i <= 4 + n3 /\ i \in 1 .. 4 + n3 /\ i <= 4
    BY <1>2, <1>8
  <2>2. QED
    BY <1>7, <1>9, <2>1
<1>11. ASSUME NEW k \in 1 .. n3 PROVE s[4 + k] = list[k]
  <2> DEFINE i == 4 + k
  <2>1. /\ i \in 1 .. (4 + n3) + Len(P) /\ i <= 4 + n3 /\ i \in 1 .. 4 + n3
        /\ ~(i <= 4) /\ i - 4 = k
    BY <1>2, <1>8
  <2> HIDE DEF i
  <2>2. s[i] = list[k]
    BY <1>7, <1>9, <2>1
  <2>3. QED
    BY <2>2 DEF i
<1>12. ASSUME NEW k \in 1 .. Len(P) PROVE s[4 + n3 + k] = P[k]
  <2> DEFINE i == 4 + n3 + k
  <2>1. i \in 1 .. (4 + n3) + Len(P) /\ ~(i <= 4 + n3) /\ i - (4 + n3) = k
    BY <1>2, <1>8
  <2> HIDE DEF i
  <2>2. s[i] = P[k]
    BY <1>9, <2>1
  <2>3. QED
    BY <2>2 DEF i
<1>13. 1 \in 1 .. 4 /\ 2 \in 1 .. 4 /\ 3 \in 1 .. 4 /\ 4 \in 1 .. 4
  OBVIOUS
<1>14. s[1] = id /\ s[2] = n3 + 2 + Len(P) /\ s[3] = Len(block) /\ s[4] = n3 + 4
  BY <1>5, <1>10, <1>13
<1>15. QED
  BY <1>1, <1>2, <1>3, <1>9, <1>11, <1>12, <1>14 DEF s, list, P, n3

------------------------------------------------------------------------------
(* The sections of a file *)

WholeCatalogs == [serial : Nat, attrs : Blocks, strings : Blocks, keys : Blocks]

(* Where the sections begin                                                  *)
AttrsAt(f)   == 6
StringsAt(f) == AttrsAt(f) + Len(Section(attrtext_tag, f.attrs))
KeysAt(f)    == StringsAt(f) + Len(Section(strstext_tag, f.strings))
LastAt(f)    == KeysAt(f) + Len(Section(keystext_tag, f.keys))

(* A section is in the file, from a place up to the next.                    *)
LaidOut(words, at, tag, block, next) ==
    LET s == Section(tag, block) IN
    /\ at \in Nat /\ next = at + Len(s)
    /\ \A k \in 1 .. Len(s) : words[at + k - 1] = s[k]

LEMMA TagFacts ==
    /\ langtext_tag \in Nat /\ hdrtext_tag \in Nat /\ attrtext_tag \in Nat
    /\ strstext_tag \in Nat /\ keystext_tag \in Nat /\ lasttext_tag \in Nat
    /\ lasttext_tag # hdrtext_tag /\ lasttext_tag # attrtext_tag
    /\ lasttext_tag # strstext_tag /\ lasttext_tag # keystext_tag
    /\ attrtext_tag # strstext_tag /\ attrtext_tag # keystext_tag
    /\ strstext_tag # keystext_tag
    /\ hdrtext_tag # attrtext_tag /\ hdrtext_tag # strstext_tag
    /\ hdrtext_tag # keystext_tag
<1>1. Tags \subseteq Nat /\ Cardinality(Tags) = 6
  BY LngFileAssumption
<1> DEFINE s1 == {langtext_tag}
           s2 == s1 \cup {hdrtext_tag}
           s3 == s2 \cup {attrtext_tag}
           s4 == s3 \cup {strstext_tag}
           s5 == s4 \cup {keystext_tag}
           s6 == s5 \cup {lasttext_tag}
<1>2. ASSUME NEW S, IsFiniteSet(S), NEW x
      PROVE  /\ IsFiniteSet(S \cup {x}) /\ Cardinality(S) \in Nat
             /\ Cardinality(S \cup {x}) =
                   IF x \in S THEN Cardinality(S) ELSE Cardinality(S) + 1
  BY <1>2, FS_AddElement, FS_CardinalityType
<1>3. IsFiniteSet(s1) /\ Cardinality(s1) = 1
  BY FS_Singleton
<1>4. Tags = s6
  BY DEF Tags
<1>5. IsFiniteSet(s2) /\ IsFiniteSet(s3) /\ IsFiniteSet(s4) /\ IsFiniteSet(s5)
  <2> HIDE DEF s1, s2, s3, s4, s5
  <2>1. IsFiniteSet(s2)
    BY <1>2, <1>3, Zenon DEF s2
  <2>2. IsFiniteSet(s3)
    BY <1>2, <2>1, Zenon DEF s3
  <2>3. IsFiniteSet(s4)
    BY <1>2, <2>2, Zenon DEF s4
  <2>4. IsFiniteSet(s5)
    BY <1>2, <2>3, Zenon DEF s5
  <2>5. QED
    BY <2>1, <2>2, <2>3, <2>4
<1> HIDE DEF s2, s3, s4, s5, s6
<1>6. /\ Cardinality(s2) = IF hdrtext_tag \in s1 THEN 1 ELSE 2
      /\ Cardinality(s3) = IF attrtext_tag \in s2 THEN Cardinality(s2)
                           ELSE Cardinality(s2) + 1
      /\ Cardinality(s4) = IF strstext_tag \in s3 THEN Cardinality(s3)
                           ELSE Cardinality(s3) + 1
      /\ Cardinality(s5) = IF keystext_tag \in s4 THEN Cardinality(s4)
                           ELSE Cardinality(s4) + 1
      /\ Cardinality(s6) = IF lasttext_tag \in s5 THEN Cardinality(s5)
                           ELSE Cardinality(s5) + 1
  <2> HIDE DEF s1
  <2>0. 1 + 1 = 2
    OBVIOUS
  <2>1. Cardinality(s2) = IF hdrtext_tag \in s1 THEN 1 ELSE 2
    BY <1>2, <1>3, <2>0, Zenon DEF s2
  <2>2. Cardinality(s3) = IF attrtext_tag \in s2 THEN Cardinality(s2)
                          ELSE Cardinality(s2) + 1
    BY <1>2, <1>5, Zenon DEF s3
  <2>3. Cardinality(s4) = IF strstext_tag \in s3 THEN Cardinality(s3)
                          ELSE Cardinality(s3) + 1
    BY <1>2, <1>5, Zenon DEF s4
  <2>4. Cardinality(s5) = IF keystext_tag \in s4 THEN Cardinality(s4)
                          ELSE Cardinality(s4) + 1
    BY <1>2, <1>5, Zenon DEF s5
  <2>5. Cardinality(s6) = IF lasttext_tag \in s5 THEN Cardinality(s5)
                          ELSE Cardinality(s5) + 1
    BY <1>2, <1>5, Zenon DEF s6
  <2>6. QED
    BY <2>1, <2>2, <2>3, <2>4, <2>5
<1>7. /\ hdrtext_tag \notin s1 /\ attrtext_tag \notin s2 /\ strstext_tag \notin s3
      /\ keystext_tag \notin s4 /\ lasttext_tag \notin s5
  <2> DEFINE c2 == Cardinality(s2)
             c3 == Cardinality(s3)
             c4 == Cardinality(s4)
             c5 == Cardinality(s5)
  <2>1. c2 \in Nat /\ c3 \in Nat /\ c4 \in Nat /\ c5 \in Nat
    BY <1>5, FS_CardinalityType
  <2>2. Cardinality(s6) = 6
    BY <1>1, <1>4
  <2>3. /\ c2 = IF hdrtext_tag \in s1 THEN 1 ELSE 2
        /\ c3 = IF attrtext_tag \in s2 THEN c2 ELSE c2 + 1
        /\ c4 = IF strstext_tag \in s3 THEN c3 ELSE c3 + 1
        /\ c5 = IF keystext_tag \in s4 THEN c4 ELSE c4 + 1
        /\ 6 = IF lasttext_tag \in s5 THEN c5 ELSE c5 + 1
    BY <1>6, <2>2
  <2> HIDE DEF c2, c3, c4, c5, s1
  <2>4. QED
    BY <2>1, <2>3
<1>8. QED
  BY <1>1, <1>7 DEF Tags, s2, s3, s4, s5

LEMMA Concatenated ==
    ASSUME NEW s \in Seq(Nat), NEW t \in Seq(Nat)
    PROVE  /\ s \o t \in Seq(Nat) /\ Len(s) \in Nat /\ Len(t) \in Nat
           /\ Len(s \o t) = Len(s) + Len(t)
           /\ \A i \in 1 .. Len(s) : (s \o t)[i] = s[i]
           /\ \A k \in 1 .. Len(t) : (s \o t)[Len(s) + k] = t[k]
<1>1. /\ s \o t \in Seq(Nat)
      /\ Len(s \o t) = Len(s) + Len(t)
      /\ \A i \in 1 .. Len(s) + Len(t) :
            (s \o t)[i] = IF i <= Len(s) THEN s[i] ELSE t[i - Len(s)]
  BY ConcatProperties
<1>2. Len(s) \in Nat /\ Len(t) \in Nat
  OBVIOUS
<1> DEFINE st == s \o t
<1>3. \A i \in 1 .. Len(s) + Len(t) :
         st[i] = IF i <= Len(s) THEN s[i] ELSE t[i - Len(s)]
  BY <1>1
<1> HIDE DEF st
<1>4. ASSUME NEW i \in 1 .. Len(s) PROVE st[i] = s[i]
  BY <1>2, <1>3
<1>5. ASSUME NEW k \in 1 .. Len(t) PROVE st[Len(s) + k] = t[k]
  <2> DEFINE i == Len(s) + k
  <2>1. i \in 1 .. Len(s) + Len(t) /\ ~(i <= Len(s)) /\ i - Len(s) = k
    BY <1>2
  <2> HIDE DEF i
  <2>2. st[i] = t[k]
    BY <1>3, <2>1
  <2>3. QED
    BY <2>2 DEF i
<1>6. QED
  BY <1>1, <1>2, <1>4, <1>5 DEF st

LEMMA SectionTypes ==
    ASSUME NEW id \in Nat, NEW block \in Blocks
    PROVE  /\ Section(id, block) \in Seq(Nat)
           /\ Len(Section(id, block)) \in Nat
           /\ block = <<>> <=> Len(Section(id, block)) = 0
<1>1. CASE block = <<>>
  BY <1>1 DEF Section
<1>2. CASE block # <<>>
  <2>1. /\ Section(id, block) \in Seq(Nat)
        /\ Len(Section(id, block)) = 4 + 3 * Len(block) + Len(Pack(Data(block)))
        /\ Len(block) \in Nat /\ Len(Pack(Data(block))) \in Nat
    BY <1>2, SectionFacts
  <2>2. QED
    BY <1>2, <2>1
<1>3. QED
  BY <1>1, <1>2

(* What file::write gives: a header, three sections or fewer, the end.       *)
LEMMA WordsFacts ==
    ASSUME NEW f \in WholeCatalogs
    PROVE  LET W == Words(f) IN
           /\ W \in Seq(Nat) /\ Len(W) = LastAt(f) + 1
           /\ AttrsAt(f) \in Nat /\ StringsAt(f) \in Nat /\ KeysAt(f) \in Nat
           /\ LastAt(f) \in Nat
           /\ 6 <= AttrsAt(f) /\ AttrsAt(f) <= StringsAt(f)
           /\ StringsAt(f) <= KeysAt(f) /\ KeysAt(f) <= LastAt(f)
           /\ W[1] = langtext_tag /\ W[2] = hdrtext_tag /\ W[3] = 2
           /\ W[4] = version /\ W[5] = f.serial
           /\ LaidOut(W, AttrsAt(f), attrtext_tag, f.attrs, StringsAt(f))
           /\ LaidOut(W, StringsAt(f), strstext_tag, f.strings, KeysAt(f))
           /\ LaidOut(W, KeysAt(f), keystext_tag, f.keys, LastAt(f))
           /\ W[LastAt(f)] = lasttext_tag
<1> DEFINE head == <<langtext_tag, hdrtext_tag, 2, version, f.serial>>
           A == Section(attrtext_tag, f.attrs)
           S == Section(strstext_tag, f.strings)
           K == Section(keystext_tag, f.keys)
           tail == <<lasttext_tag, 0>>
           w1 == head \o A
           w2 == w1 \o S
           w3 == w2 \o K
           W == w3 \o tail
<1>1. Words(f) = W
  BY DEF Words
<1>2. f.serial \in Nat /\ f.attrs \in Blocks /\ f.strings \in Blocks /\ f.keys \in Blocks
  BY DEF WholeCatalogs
<1>3. /\ A \in Seq(Nat) /\ Len(A) \in Nat
      /\ S \in Seq(Nat) /\ Len(S) \in Nat
      /\ K \in Seq(Nat) /\ Len(K) \in Nat
  BY <1>2, TagFacts, SectionTypes
<1>4. version \in Nat
  BY LngFileAssumption
<1>5. /\ head \in Seq(Nat) /\ Len(head) = 5
      /\ head[1] = langtext_tag /\ head[2] = hdrtext_tag /\ head[3] = 2
      /\ head[4] = version /\ head[5] = f.serial
  BY <1>2, <1>4, TagFacts
<1>6. tail \in Seq(Nat) /\ Len(tail) = 2 /\ tail[1] = lasttext_tag
  BY TagFacts
<1>7. /\ AttrsAt(f) = 6 /\ StringsAt(f) = 6 + Len(A)
      /\ KeysAt(f) = 6 + Len(A) + Len(S)
      /\ LastAt(f) = 6 + Len(A) + Len(S) + Len(K)
  BY DEF AttrsAt, StringsAt, KeysAt, LastAt
<1> HIDE DEF head, A, S, K, tail
<1>8. /\ w1 \in Seq(Nat) /\ Len(w1) = 5 + Len(A)
      /\ \A i \in 1 .. 5 : w1[i] = head[i]
      /\ \A k \in 1 .. Len(A) : w1[5 + k] = A[k]
  <2>1. /\ head \in Seq(Nat) /\ Len(head) = 5 /\ A \in Seq(Nat) /\ Len(A) = Len(A)
    BY <1>3, <1>5 
  <2>2. /\ w1 \in Seq(Nat) /\ Len(w1) = Len(head) + Len(A)
        /\ \A i \in 1 .. Len(head) : w1[i] = head[i]
        /\ \A k \in 1 .. Len(A) : w1[Len(head) + k] = A[k]
    BY <2>1, Concatenated
  <2> HIDE DEF w1
  <2>3. QED
    BY <2>1, <2>2
<1> HIDE DEF w1
<1>9. /\ w2 \in Seq(Nat) /\ Len(w2) = 5 + Len(A) + Len(S)
      /\ \A i \in 1 .. 5 + Len(A) : w2[i] = w1[i]
      /\ \A k \in 1 .. Len(S) : w2[5 + Len(A) + k] = S[k]
  <2>1. /\ w1 \in Seq(Nat) /\ Len(w1) = 5 + Len(A) /\ S \in Seq(Nat) /\ Len(S) = Len(S)
    BY <1>3, <1>8 
  <2>2. /\ w2 \in Seq(Nat) /\ Len(w2) = Len(w1) + Len(S)
        /\ \A i \in 1 .. Len(w1) : w2[i] = w1[i]
        /\ \A k \in 1 .. Len(S) : w2[Len(w1) + k] = S[k]
    BY <2>1, Concatenated
  <2> HIDE DEF w2
  <2>3. QED
    BY <2>1, <2>2
<1> HIDE DEF w2
<1>10. /\ w3 \in Seq(Nat) /\ Len(w3) = 5 + Len(A) + Len(S) + Len(K)
       /\ \A i \in 1 .. 5 + Len(A) + Len(S) : w3[i] = w2[i]
       /\ \A k \in 1 .. Len(K) : w3[5 + Len(A) + Len(S) + k] = K[k]
  <2>1. /\ w2 \in Seq(Nat) /\ Len(w2) = 5 + Len(A) + Len(S) /\ K \in Seq(Nat) /\ Len(K) = Len(K)
    BY <1>3, <1>9 
  <2>2. /\ w3 \in Seq(Nat) /\ Len(w3) = Len(w2) + Len(K)
        /\ \A i \in 1 .. Len(w2) : w3[i] = w2[i]
        /\ \A k \in 1 .. Len(K) : w3[Len(w2) + k] = K[k]
    BY <2>1, Concatenated
  <2> HIDE DEF w3
  <2>3. QED
    BY <2>1, <2>2
<1> HIDE DEF w3
<1> DEFINE last == 5 + Len(A) + Len(S) + Len(K)
<1>11. /\ W \in Seq(Nat) /\ Len(W) = last + 2
       /\ \A i \in 1 .. last : W[i] = w3[i]
       /\ \A k \in 1 .. 2 : W[last + k] = tail[k]
  <2>1. /\ w3 \in Seq(Nat) /\ Len(w3) = last /\ tail \in Seq(Nat) /\ Len(tail) = 2
    BY <1>6, <1>10 DEF last
  <2>2. /\ W \in Seq(Nat) /\ Len(W) = Len(w3) + Len(tail)
        /\ \A i \in 1 .. Len(w3) : W[i] = w3[i]
        /\ \A k \in 1 .. Len(tail) : W[Len(w3) + k] = tail[k]
    BY <2>1, Concatenated
  <2> HIDE DEF W
  <2>3. QED
    BY <2>1, <2>2
<1> HIDE DEF W
<1>12. ASSUME NEW i \in 1 .. 5 PROVE W[i] = head[i]
  <2>1. i \in 1 .. 5 + Len(A) /\ i \in 1 .. 5 + Len(A) + Len(S) /\ i \in 1 .. last
    BY <1>3
  <2>2. QED
    BY <1>8, <1>9, <1>10, <1>11, <2>1
<1>13. ASSUME NEW k \in 1 .. Len(A) PROVE W[AttrsAt(f) + k - 1] = A[k]
  <2> DEFINE i == 5 + k
  <2>1. /\ i \in 1 .. 5 + Len(A) /\ i \in 1 .. 5 + Len(A) + Len(S) /\ i \in 1 .. last
        /\ i = AttrsAt(f) + k - 1
    BY <1>3, <1>7
  <2>2. w1[i] = A[k]
    BY <1>8
  <2> HIDE DEF i
  <2>3. QED
    BY <1>9, <1>10, <1>11, <2>1, <2>2
<1>14. ASSUME NEW k \in 1 .. Len(S) PROVE W[StringsAt(f) + k - 1] = S[k]
  <2> DEFINE i == 5 + Len(A) + k
  <2>1. /\ i \in 1 .. 5 + Len(A) + Len(S) /\ i \in 1 .. last
        /\ i = StringsAt(f) + k - 1
    BY <1>3, <1>7
  <2>2. w2[i] = S[k]
    BY <1>9
  <2> HIDE DEF i
  <2>3. QED
    BY <1>10, <1>11, <2>1, <2>2
<1>15. ASSUME NEW k \in 1 .. Len(K) PROVE W[KeysAt(f) + k - 1] = K[k]
  <2> DEFINE i == 5 + Len(A) + Len(S) + k
  <2>1. i \in 1 .. last /\ i = KeysAt(f) + k - 1
    BY <1>3, <1>7
  <2>2. w3[i] = K[k]
    BY <1>10
  <2> HIDE DEF i
  <2>3. QED
    BY <1>11, <2>1, <2>2
<1>16. W[LastAt(f)] = lasttext_tag
  <2>1. 1 \in 1 .. 2 /\ last + 1 = LastAt(f)
    BY <1>3, <1>7
  <2> HIDE DEF last
  <2>2. QED
    BY <1>6, <1>11, <2>1
<1>17. /\ AttrsAt(f) \in Nat /\ StringsAt(f) \in Nat /\ KeysAt(f) \in Nat
       /\ LastAt(f) \in Nat /\ Len(W) = LastAt(f) + 1
       /\ 6 <= AttrsAt(f) /\ AttrsAt(f) <= StringsAt(f)
       /\ StringsAt(f) <= KeysAt(f) /\ KeysAt(f) <= LastAt(f)
       /\ StringsAt(f) = AttrsAt(f) + Len(A) /\ KeysAt(f) = StringsAt(f) + Len(S)
       /\ LastAt(f) = KeysAt(f) + Len(K)
  BY <1>3, <1>7, <1>11
<1>18. 1 \in 1 .. 5 /\ 2 \in 1 .. 5 /\ 3 \in 1 .. 5 /\ 4 \in 1 .. 5 /\ 5 \in 1 .. 5
  OBVIOUS
<1>19. /\ W[1] = langtext_tag /\ W[2] = hdrtext_tag /\ W[3] = 2
       /\ W[4] = version /\ W[5] = f.serial
  BY <1>5, <1>12, <1>18
<1>20. /\ LaidOut(W, AttrsAt(f), attrtext_tag, f.attrs, StringsAt(f))
       /\ LaidOut(W, StringsAt(f), strstext_tag, f.strings, KeysAt(f))
       /\ LaidOut(W, KeysAt(f), keystext_tag, f.keys, LastAt(f))
  BY <1>13, <1>14, <1>15, <1>17 DEF LaidOut, A, S, K
<1>21. QED
  BY <1>1, <1>11, <1>16, <1>17, <1>19, <1>20


(* The sections one after the other: one that is not there takes no place.   *)
LEMMA PlaceFacts ==
    ASSUME NEW f \in WholeCatalogs
    PROVE  LET W == Words(f)
               a == AttrsAt(f)
               s == StringsAt(f)
               k == KeysAt(f)
               l == LastAt(f)
           IN /\ W \in Seq(Nat) /\ Len(W) = l + 1
              /\ s \in Nat /\ k \in Nat /\ l \in Nat
              /\ a = 6 /\ a <= s /\ s <= k /\ k <= l
              /\ f.attrs # <<>> <=> a < s
              /\ f.strings # <<>> <=> s < k
              /\ f.keys # <<>> <=> k < l
              /\ W[1] = langtext_tag /\ W[2] = hdrtext_tag /\ W[3] = 2
              /\ W[4] = version /\ W[5] = f.serial
              /\ a < s => a + 4 <= s /\ W[a] = attrtext_tag /\ W[a + 1] + 2 = s - a
              /\ s < k => s + 4 <= k /\ W[s] = strstext_tag /\ W[s + 1] + 2 = k - s
              /\ k < l => k + 4 <= l /\ W[k] = keystext_tag /\ W[k + 1] + 2 = l - k
              /\ W[l] = lasttext_tag
<1> DEFINE W == Words(f)
<1>1. f.attrs \in Blocks /\ f.strings \in Blocks /\ f.keys \in Blocks
  BY DEF WholeCatalogs
<1>2. ASSUME NEW tag \in Nat, NEW block \in Blocks, NEW at \in Nat, NEW next \in Nat,
             LaidOut(W, at, tag, block, next)
      PROVE  /\ block # <<>> <=> at < next
             /\ at < next => /\ at + 4 <= next /\ W[at] = tag
                             /\ W[at + 1] + 2 = next - at
  <2> DEFINE s == Section(tag, block)
  <2>1. /\ next = at + Len(s) /\ Len(s) \in Nat
        /\ \A k \in 1 .. Len(s) : W[at + k - 1] = s[k]
        /\ block = <<>> <=> Len(s) = 0
    BY <1>2, SectionTypes DEF LaidOut
  <2>2. block # <<>> <=> at < next
    <3> HIDE DEF s
    <3>1. QED
      BY <2>1
  <2>3. ASSUME block # <<>> PROVE /\ at + 4 <= next /\ W[at] = tag
                                  /\ W[at + 1] + 2 = next - at
    <3> DEFINE n3 == 3 * Len(block)
               m == Len(Pack(Data(block)))
    <3>1. /\ s[1] = tag /\ s[2] = n3 + 2 + m
          /\ n3 \in Nat /\ m \in Nat /\ Len(s) = 4 + n3 + m
      BY <2>3, SectionFacts
    <3> HIDE DEF s, n3, m, W
    <3>2. /\ 1 \in 1 .. Len(s) /\ 2 \in 1 .. Len(s)
          /\ at + 1 - 1 = at /\ at + 2 - 1 = at + 1
      BY <3>1
    <3>3. W[at] = s[1] /\ W[at + 1] = s[2]
      BY <2>1, <3>2
    <3>4. QED
      BY <2>1, <3>1, <3>3
  <2>4. QED
    BY <2>2, <2>3
<1>3. /\ attrtext_tag \in Nat /\ strstext_tag \in Nat /\ keystext_tag \in Nat
  BY TagFacts
<1>4. /\ W \in Seq(Nat) /\ Len(W) = LastAt(f) + 1
      /\ AttrsAt(f) \in Nat /\ StringsAt(f) \in Nat /\ KeysAt(f) \in Nat
      /\ LastAt(f) \in Nat
      /\ AttrsAt(f) <= StringsAt(f)
      /\ StringsAt(f) <= KeysAt(f) /\ KeysAt(f) <= LastAt(f)
      /\ W[1] = langtext_tag /\ W[2] = hdrtext_tag /\ W[3] = 2
      /\ W[4] = version /\ W[5] = f.serial
      /\ LaidOut(W, AttrsAt(f), attrtext_tag, f.attrs, StringsAt(f))
      /\ LaidOut(W, StringsAt(f), strstext_tag, f.strings, KeysAt(f))
      /\ LaidOut(W, KeysAt(f), keystext_tag, f.keys, LastAt(f))
      /\ W[LastAt(f)] = lasttext_tag
  BY WordsFacts
<1>5. AttrsAt(f) = 6
  BY DEF AttrsAt
<1> HIDE DEF W
<1>6. /\ f.attrs # <<>> <=> AttrsAt(f) < StringsAt(f)
      /\ AttrsAt(f) < StringsAt(f) =>
            /\ AttrsAt(f) + 4 <= StringsAt(f) /\ W[AttrsAt(f)] = attrtext_tag
            /\ W[AttrsAt(f) + 1] + 2 = StringsAt(f) - AttrsAt(f)
  <2>1. /\ attrtext_tag \in Nat /\ f.attrs \in Blocks /\ AttrsAt(f) \in Nat /\ StringsAt(f) \in Nat
        /\ LaidOut(W, AttrsAt(f), attrtext_tag, f.attrs, StringsAt(f))
    BY <1>1, <1>3, <1>4
  <2>2. QED
    BY <1>2, <2>1, Zenon
<1>7. /\ f.strings # <<>> <=> StringsAt(f) < KeysAt(f)
      /\ StringsAt(f) < KeysAt(f) =>
            /\ StringsAt(f) + 4 <= KeysAt(f) /\ W[StringsAt(f)] = strstext_tag
            /\ W[StringsAt(f) + 1] + 2 = KeysAt(f) - StringsAt(f)
  <2>1. /\ strstext_tag \in Nat /\ f.strings \in Blocks /\ StringsAt(f) \in Nat /\ KeysAt(f) \in Nat
        /\ LaidOut(W, StringsAt(f), strstext_tag, f.strings, KeysAt(f))
    BY <1>1, <1>3, <1>4
  <2>2. QED
    BY <1>2, <2>1, Zenon
<1>8. /\ f.keys # <<>> <=> KeysAt(f) < LastAt(f)
      /\ KeysAt(f) < LastAt(f) =>
            /\ KeysAt(f) + 4 <= LastAt(f) /\ W[KeysAt(f)] = keystext_tag
            /\ W[KeysAt(f) + 1] + 2 = LastAt(f) - KeysAt(f)
  <2>1. /\ keystext_tag \in Nat /\ f.keys \in Blocks /\ KeysAt(f) \in Nat /\ LastAt(f) \in Nat
        /\ LaidOut(W, KeysAt(f), keystext_tag, f.keys, LastAt(f))
    BY <1>1, <1>3, <1>4
  <2>2. QED
    BY <1>2, <2>1, Zenon
<1>9. QED
  BY <1>4, <1>5, <1>6, <1>7, <1>8 DEF W

(* Where the walk over the sections stops                                    *)
Places(f) == {2, AttrsAt(f), StringsAt(f), KeysAt(f), LastAt(f)}

(* From one section to the next: how far it is, and which sections the walk  *)
(* has then come to.                                                         *)
LEMMA NextPlace ==
    ASSUME NEW f \in WholeCatalogs, NEW p \in Places(f), p # LastAt(f)
    PROVE  LET W == Words(f)
               q == p + W[p + 1] + 2
           IN /\ p \in Nat /\ p + 1 \in 1 .. Len(W) /\ W[p + 1] \in Nat
              /\ q \in Places(f) \ {2} /\ q > p
              /\ f.attrs # <<>> => (q >= AttrsAt(f) <=> p >= AttrsAt(f) \/ q = AttrsAt(f))
              /\ f.strings # <<>> =>
                    (q >= StringsAt(f) <=> p >= StringsAt(f) \/ q = StringsAt(f))
              /\ f.keys # <<>> => (q >= KeysAt(f) <=> p >= KeysAt(f) \/ q = KeysAt(f))
              /\ W[q] = attrtext_tag <=> f.attrs # <<>> /\ q = AttrsAt(f)
              /\ W[q] = strstext_tag <=> f.strings # <<>> /\ q = StringsAt(f)
              /\ W[q] = keystext_tag <=> f.keys # <<>> /\ q = KeysAt(f)
<1> DEFINE W == Words(f)
           a == AttrsAt(f)
           s == StringsAt(f)
           k == KeysAt(f)
           l == LastAt(f)
           q == p + W[p + 1] + 2
<1>1. /\ W \in Seq(Nat) /\ Len(W) = l + 1
      /\ s \in Nat /\ k \in Nat /\ l \in Nat
      /\ a = 6 /\ a <= s /\ s <= k /\ k <= l
      /\ f.attrs # <<>> <=> a < s
      /\ f.strings # <<>> <=> s < k
      /\ f.keys # <<>> <=> k < l
      /\ W[3] = 2
      /\ a < s => a + 4 <= s /\ W[a] = attrtext_tag /\ W[a + 1] + 2 = s - a
      /\ s < k => s + 4 <= k /\ W[s] = strstext_tag /\ W[s + 1] + 2 = k - s
      /\ k < l => k + 4 <= l /\ W[k] = keystext_tag /\ W[k + 1] + 2 = l - k
      /\ W[l] = lasttext_tag
  BY PlaceFacts
<1>2. p \in {2, a, s, k, l} /\ p # l
  BY DEF Places
<1> HIDE DEF W, a, s, k, l
<1>3. p \in Nat /\ p + 1 \in 1 .. Len(W)
  BY <1>1, <1>2
<1>4. W[p + 1] \in Nat
  BY <1>1, <1>3
<1>5. \/ p = 2 /\ q = a
      \/ p = a /\ a < s /\ q = s
      \/ p = s /\ s < k /\ q = k
      \/ p = k /\ k < l /\ q = l
  <2>1. \/ p = 2
        \/ p = a /\ a < s
        \/ p = s /\ s < k
        \/ p = k /\ k < l
    <3>1. /\ a \in Nat /\ s \in Nat /\ k \in Nat /\ l \in Nat
          /\ a <= s /\ s <= k /\ k <= l
      BY <1>1
    <3>2. QED
      BY <1>2, <3>1
  <2>2. CASE p = 2
    BY <1>1, <2>2
  <2>3. CASE p = a /\ a < s
    <3>1. W[p + 1] + 2 = s - a
      BY <1>1, <2>3
    <3>2. a \in Nat /\ s \in Nat
      BY <1>1
    <3> DEFINE w == W[p + 1]
    <3> HIDE DEF w
    <3>3. q = p + w + 2 /\ w \in Nat /\ w + 2 = s - a
      BY <1>4, <3>1 DEF w, q
    <3>4. q = s
      <4> HIDE DEF q
      <4>1. QED
        BY <2>3, <3>2, <3>3
    <3>5. QED
      BY <2>3, <3>4
  <2>4. CASE p = s /\ s < k
    <3>1. W[p + 1] + 2 = k - s
      BY <1>1, <2>4
    <3>2. s \in Nat /\ k \in Nat
      BY <1>1
    <3> DEFINE w == W[p + 1]
    <3> HIDE DEF w
    <3>3. q = p + w + 2 /\ w \in Nat /\ w + 2 = k - s
      BY <1>4, <3>1 DEF w, q
    <3>4. q = k
      <4> HIDE DEF q
      <4>1. QED
        BY <2>4, <3>2, <3>3
    <3>5. QED
      BY <2>4, <3>4
  <2>5. CASE p = k /\ k < l
    <3>1. W[p + 1] + 2 = l - k
      BY <1>1, <2>5
    <3>2. k \in Nat /\ l \in Nat
      BY <1>1
    <3> DEFINE w == W[p + 1]
    <3> HIDE DEF w
    <3>3. q = p + w + 2 /\ w \in Nat /\ w + 2 = l - k
      BY <1>4, <3>1 DEF w, q
    <3>4. q = l
      <4> HIDE DEF q
      <4>1. QED
        BY <2>5, <3>2, <3>3
    <3>5. QED
      BY <2>5, <3>4
  <2>6. QED
    BY <2>1, <2>2, <2>3, <2>4, <2>5
<1> HIDE DEF q
<1>6. q \in {a, s, k, l} /\ q > p
  BY <1>1, <1>5
<1>7. /\ a < s => (q >= a <=> p >= a \/ q = a)
      /\ s < k => (q >= s <=> p >= s \/ q = s)
      /\ k < l => (q >= k <=> p >= k \/ q = k)
  <2>1. /\ a \in Nat /\ s \in Nat /\ k \in Nat /\ l \in Nat /\ p \in Nat
        /\ a = 6 /\ a <= s /\ s <= k /\ k <= l
    BY <1>1, <1>3
  <2>2. QED
    BY <1>5, <2>1
<1>8. /\ attrtext_tag \in Nat
      /\ strstext_tag \in Nat /\ keystext_tag \in Nat /\ lasttext_tag \in Nat
      /\ lasttext_tag # attrtext_tag
      /\ lasttext_tag # strstext_tag /\ lasttext_tag # keystext_tag
      /\ attrtext_tag # strstext_tag /\ attrtext_tag # keystext_tag
      /\ strstext_tag # keystext_tag
  BY TagFacts
<1>9. \/ q = a /\ a < s /\ W[q] = attrtext_tag
      \/ q = s /\ s < k /\ W[q] = strstext_tag
      \/ q = k /\ k < l /\ W[q] = keystext_tag
      \/ q = l /\ W[q] = lasttext_tag
  <2>1. /\ a \in Nat /\ s \in Nat /\ k \in Nat /\ l \in Nat
        /\ a <= s /\ s <= k /\ k <= l
    BY <1>1
  <2>2. \/ q = a /\ a < s
        \/ q = s /\ s < k
        \/ q = k /\ k < l
        \/ q = l
    BY <1>6, <2>1
  <2>3. /\ a < s => W[a] = attrtext_tag
        /\ s < k => W[s] = strstext_tag
        /\ k < l => W[k] = keystext_tag
        /\ W[l] = lasttext_tag
    BY <1>1
  <2>4. QED
    BY <2>2, <2>3
<1>10. /\ W[q] = attrtext_tag <=> a < s /\ q = a
       /\ W[q] = strstext_tag <=> s < k /\ q = s
       /\ W[q] = keystext_tag <=> k < l /\ q = k
  BY <1>1, <1>8, <1>9
<1>11. q \in Places(f) \ {2}
  BY <1>1, <1>6 DEF Places, a, s, k, l
<1>12. QED
  BY <1>1, <1>3, <1>4, <1>6, <1>7, <1>10, <1>11 DEF W, a, s, k, l, q

------------------------------------------------------------------------------
(* The inductive invariant *)

(* The section read from a place, once the walk has come that far            *)
Passed(block, at) ==
    IF block # <<>> /\ uints >= at THEN SectionRead(at, Len(view) - at + 1)
    ELSE Closed

(* While a file is open or being opened, what the reader was given is a part *)
(* of what was written, the walk is at the beginning of a section of it, and *)
(* a section has been read exactly when the walk has come to it.             *)
WalkInv ==
    rpc \in {"sections", "open"} =>
        /\ IsPrefix(view, Words(origin)) /\ Len(view) >= 5
        /\ serial = origin.serial
        /\ uints \in Places(origin) /\ uints <= Len(view)
        /\ ints = Len(view) - uints + 1
        /\ attrs = Passed(origin.attrs, AttrsAt(origin))
        /\ strings = Passed(origin.strings, StringsAt(origin))
        /\ keys = Passed(origin.keys, KeysAt(origin))

(* A file is open when the walk has come to the end of all that was written. *)
EndInv == rpc = "open" => uints = LastAt(origin)

IInv == TypeOK /\ WalkInv /\ EndInv


LEMMA WholeOrigin ==
    ASSUME TypeOK
    PROVE  file \in WholeCatalogs /\ origin \in WholeCatalogs
BY LngFileAssumption DEF TypeOK, WholeCatalogs

LEMMA SectionReadTypes ==
    ASSUME NEW v \in Seq(Nat), NEW at \in Nat \ {0}, view = v,
           NEW left \in Nat, at + left = Len(v) + 1
    PROVE  SectionRead(at, left) \in Sections
<1>1. CASE Whole(at, left)
  <2>1. left >= 4 /\ Len(v) \in Nat
    BY <1>1 DEF Whole
  <2>2. at + 2 \in 1 .. Len(v) /\ at + 3 \in 1 .. Len(v)
    BY <2>1
  <2>3. view[at + 2] \in Nat /\ view[at + 3] \in Nat
    BY <2>2
  <2>4. SectionAt(at) \in Sections
    BY <2>3 DEF SectionAt, Sections
  <2>5. QED
    BY <1>1, <2>4 DEF SectionRead
<1>2. CASE ~ Whole(at, left)
  BY <1>2 DEF SectionRead, Unknown, Sections
<1>3. QED
  BY <1>1, <1>2

LEMMA InvInit ==
    ASSUME Init
    PROVE  IInv
<1>1. file \in WholeCatalogs
  BY LngFileAssumption DEF Init, WholeCatalogs
<1>2. Words(file) \in Seq(Nat)
  BY <1>1, WordsFacts
<1>3. disk \in Seq(Nat) /\ IsPrefix(disk, Words(file))
  <2>1. disk = <<>> /\ disk \in Seq(Nat) /\ Len(disk) = 0 /\ Len(Words(file)) \in Nat
    BY <1>2 DEF Init
  <2> HIDE DEF Init
  <2>2. Len(disk) <= Len(Words(file)) /\ \A i \in 1 .. Len(disk) : disk[i] = Words(file)[i]
    BY <2>1
  <2>3. QED
    BY <1>2, <2>1, <2>2, PrefixFacts
<1>4. TypeOK
  BY <1>3 DEF Init, TypeOK, Closed, Sections
<1>5. QED
  BY <1>4 DEF Init, IInv, WalkInv, EndInv

(* A step that leaves the reader alone                                       *)
LEMMA ReaderIsLeftAlone ==
    ASSUME IInv, UNCHANGED <<view, rpc, uints, ints, lang_file, origin>>
    PROVE  WalkInv' /\ EndInv'
BY DEF IInv, WalkInv, EndInv, lang_file, Passed, SectionRead, Whole, SectionAt,
       Places

LEMMA StartWriteKeeps ==
    ASSUME IInv, NEW catalog \in Catalogs, StartWrite(catalog)
    PROVE  IInv'
<1>1. catalog \in WholeCatalogs
  BY LngFileAssumption DEF WholeCatalogs
<1>2. Words(catalog) \in Seq(Nat)
  BY <1>1, WordsFacts
<1>3. IsPrefix(<<>>, Words(catalog))
  <2>1. <<>> \in Seq(Nat) /\ Len(<<>>) = 0 /\ Len(Words(catalog)) \in Nat
    BY <1>2
  <2>2. Len(<<>>) <= Len(Words(catalog))
    BY <2>1
  <2>3. \A i \in 1 .. Len(<<>>) : <<>>[i] = Words(catalog)[i]
    BY <2>1
  <2>4. QED
    BY <1>2, <2>1, <2>2, <2>3, PrefixFacts
<1>4. TypeOK'
  BY <1>3 DEF IInv, TypeOK, StartWrite, lang_file, Sections
<1>5. WalkInv' /\ EndInv'
  BY ReaderIsLeftAlone DEF StartWrite
<1>6. QED
  BY <1>4, <1>5 DEF IInv

LEMMA WriteWordKeeps ==
    ASSUME IInv, WriteWord
    PROVE  IInv'
<1>1. file \in WholeCatalogs
  BY WholeOrigin DEF IInv
<1>2. Words(file) \in Seq(Nat) /\ disk \in Seq(Nat) /\ IsPrefix(disk, Words(file))
  BY <1>1, WordsFacts DEF IInv, TypeOK
<1>3. disk' \in Seq(Nat) /\ IsPrefix(disk', Words(file)) /\ file' = file
  BY <1>2, PrefixGrows DEF WriteWord
<1>4. TypeOK'
  <2>1. file' \in Catalogs /\ origin' \in Catalogs /\ disk' \in Seq(Nat)
    BY <1>3 DEF IInv, TypeOK, WriteWord
  <2>2. IsPrefix(disk, Words(file))'
    BY <1>3
  <2>3. UNCHANGED <<view, rpc, uints, ints, serial, attrs, strings, keys>>
    BY DEF WriteWord, lang_file
  <2>4. QED
    BY <2>1, <2>2, <2>3 DEF IInv, TypeOK, Sections
<1>5. WalkInv' /\ EndInv'
  BY ReaderIsLeftAlone DEF WriteWord
<1>6. QED
  BY <1>4, <1>5 DEF IInv

LEMMA OpenKeeps ==
    ASSUME IInv, Open
    PROVE  IInv'
<1>1. file \in WholeCatalogs /\ file \in Catalogs /\ origin' = file /\ file' = file /\ disk' = disk
  BY WholeOrigin DEF IInv, TypeOK, Open, writer_vars
<1>2. /\ attrs' = Closed /\ strings' = Closed /\ keys' = Closed /\ Closed \in Sections
  BY DEF Open, CloseSections, Closed, Sections
<1>3. disk \in Seq(Nat) /\ IsPrefix(disk, Words(file))
  BY DEF IInv, TypeOK
<1>4. CASE HeaderIsRead
  <2>1. /\ view' = disk /\ serial' = disk[5] /\ rpc' = "sections"
        /\ uints' = 2 /\ ints' = Len(disk) - 1
    BY <1>4 DEF Open
  <2>2. Len(disk) >= 5 /\ Len(disk) \in Nat
    BY <1>3, <1>4 DEF HeaderIsRead
  <2>3. Words(file) \in Seq(Nat) /\ Words(file)[5] = file.serial
    BY <1>1, WordsFacts
  <2>4. \A i \in 1 .. Len(disk) : disk[i] = Words(file)[i]
    BY <1>3, <2>3, PrefixFacts
  <2>5. serial' = file.serial /\ serial' \in Nat
    <3>1. 5 \in 1 .. Len(disk)
      BY <2>2
    <3>2. QED
      BY <1>3, <2>1, <2>3, <2>4, <3>1
  <2>6. TypeOK'
    <3>1. ints' \in Nat /\ uints' \in Nat
      BY <2>1, <2>2
    <3>2. IsPrefix(disk, Words(file))'
      BY <1>1, <1>3
    <3>3. QED
      BY <1>1, <1>2, <1>3, <2>1, <2>5, <3>1, <3>2 DEF TypeOK
  <2>7. WalkInv'
    <3>1. IsPrefix(view, Words(origin))' /\ Len(view') >= 5
      BY <1>1, <1>3, <2>1, <2>2
    <3>2. uints' \in Places(origin') /\ uints' <= Len(view') /\ ints' = Len(view') - uints' + 1
      BY <2>1, <2>2 DEF Places
    <3>3. /\ Passed(origin.attrs, AttrsAt(origin))' = Closed
          /\ Passed(origin.strings, StringsAt(origin))' = Closed
          /\ Passed(origin.keys, KeysAt(origin))' = Closed
      <4>1. /\ ~(2 >= AttrsAt(file)) /\ ~(2 >= StringsAt(file)) /\ ~(2 >= KeysAt(file))
        <5>1. /\ StringsAt(file) \in Nat /\ KeysAt(file) \in Nat
              /\ AttrsAt(file) = 6 /\ AttrsAt(file) <= StringsAt(file)
              /\ StringsAt(file) <= KeysAt(file)
          BY <1>1, PlaceFacts
        <5>2. QED
          BY <5>1
      <4>2. QED
        BY <1>1, <2>1, <4>1 DEF Passed
    <3>4. QED
      BY <1>1, <1>2, <2>5, <3>1, <3>2, <3>3 DEF WalkInv
  <2>8. QED
    BY <2>1, <2>6, <2>7 DEF IInv, EndInv
<1>5. CASE ~ HeaderIsRead
  <2>1. view' = <<>> /\ rpc' = "closed" /\ UNCHANGED <<serial, uints, ints>>
    BY <1>5 DEF Open
  <2>2. IsPrefix(disk, Words(file))'
    BY <1>1, <1>3
  <2>3. view' \in Seq(Nat)
    BY <2>1
  <2>4. TypeOK'
    BY <1>1, <1>2, <1>3, <2>1, <2>2, <2>3 DEF IInv, TypeOK
  <2>5. QED
    BY <2>1, <2>4 DEF IInv, WalkInv, EndInv
<1>6. QED
  BY <1>4, <1>5


(* Where the walk is, in what the reader was given                           *)
LEMMA WalkFacts ==
    ASSUME IInv, rpc = "sections", view[uints] # lasttext_tag
    PROVE  LET at == uints + view[uints + 1] + 2
               left == ints - view[uints + 1] - 2
           IN /\ origin \in WholeCatalogs
              /\ view \in Seq(Nat) /\ Len(view) \in Nat
              /\ ints \in Nat /\ uints \in Nat
              /\ ~(ints < 2 \/ view[uints + 1] + 2 >= ints) =>
                    /\ at = uints + Words(origin)[uints + 1] + 2
                    /\ uints \in Places(origin) /\ uints # LastAt(origin)
                    /\ at \in 1 .. Len(view) /\ view[at] = Words(origin)[at]
                    /\ at \in Places(origin) /\ at > uints
                    /\ left \in Nat /\ left = Len(view) - at + 1
<1> DEFINE W == Words(origin)
<1>1. origin \in WholeCatalogs /\ view \in Seq(Nat) /\ Len(view) \in Nat
  BY WholeOrigin DEF IInv, TypeOK
<1>2. /\ IsPrefix(view, W) /\ uints \in Places(origin) /\ uints <= Len(view)
      /\ ints = Len(view) - uints + 1
  BY DEF IInv, WalkInv
<1>3. ints \in Nat /\ uints \in Nat
  BY DEF IInv, TypeOK
<1>4. W \in Seq(Nat) /\ W[LastAt(origin)] = lasttext_tag
  BY <1>1, PlaceFacts
<1>5. Len(view) <= Len(W) /\ \A i \in 1 .. Len(view) : view[i] = W[i]
  BY <1>1, <1>2, <1>4, PrefixFacts
<1>6. SUFFICES ASSUME ~(ints < 2 \/ view[uints + 1] + 2 >= ints)
               PROVE  LET at == uints + view[uints + 1] + 2
                          left == ints - view[uints + 1] - 2
                      IN /\ at = uints + W[uints + 1] + 2
                         /\ uints \in Places(origin) /\ uints # LastAt(origin)
                         /\ at \in 1 .. Len(view) /\ view[at] = W[at]
                         /\ at \in Places(origin) /\ at > uints
                         /\ left \in Nat /\ left = Len(view) - at + 1
  BY <1>1, <1>3
<1>7. uints # LastAt(origin)
  <2>1. uints >= 1
    <3>1. /\ StringsAt(origin) \in Nat /\ KeysAt(origin) \in Nat /\ LastAt(origin) \in Nat
          /\ AttrsAt(origin) = 6 /\ 6 <= StringsAt(origin)
          /\ 6 <= KeysAt(origin) /\ 6 <= LastAt(origin)
      <4>1. /\ StringsAt(origin) \in Nat /\ KeysAt(origin) \in Nat
            /\ LastAt(origin) \in Nat /\ AttrsAt(origin) = 6
            /\ AttrsAt(origin) <= StringsAt(origin)
            /\ StringsAt(origin) <= KeysAt(origin) /\ KeysAt(origin) <= LastAt(origin)
        BY <1>1, PlaceFacts
      <4>2. QED
        BY <4>1
    <3>2. QED
      BY <1>2, <3>1 DEF Places
  <2>2. uints \in 1 .. Len(view)
    BY <1>1, <1>2, <1>3, <2>1
  <2>3. QED
    BY <1>4, <1>5, <2>2
<1>8. uints + 1 \in 1 .. Len(view)
  BY <1>1, <1>2, <1>3, <1>6
<1>9. view[uints + 1] = W[uints + 1] /\ view[uints + 1] \in Nat
  BY <1>1, <1>5, <1>8
<1> DEFINE at == uints + view[uints + 1] + 2
           left == ints - view[uints + 1] - 2
<1>10. at = uints + W[uints + 1] + 2
  BY <1>9
<1>11. at \in 1 .. Len(view) /\ at > uints /\ left \in Nat /\ left = Len(view) - at + 1
  <2> DEFINE w == view[uints + 1]
  <2>1. w \in Nat /\ ~(ints < 2 \/ w + 2 >= ints) /\ at = uints + w + 2 /\ left = ints - w - 2
    BY <1>6, <1>9
  <2> HIDE DEF at, left, w
  <2>2. QED
    BY <1>1, <1>2, <1>3, <2>1
<1>12. at \in Places(origin)
  <2> DEFINE q == uints + W[uints + 1] + 2
  <2>1. q \in Places(origin) \ {2}
    BY <1>1, <1>2, <1>7, NextPlace
  <2>2. QED
    BY <1>10, <2>1
<1> HIDE DEF at, left
<1>13. view[at] = W[at]
  BY <1>5, <1>11
<1>14. QED
  BY <1>2, <1>7, <1>10, <1>11, <1>12, <1>13 DEF at, left

LEMMA OpenFailsKeeps ==
    ASSUME IInv, OpenFails, UNCHANGED <<writer_vars, serial, origin>>
    PROVE  IInv'
<1>1. /\ view' = <<>> /\ rpc' = "closed" /\ attrs' = Closed /\ strings' = Closed
      /\ keys' = Closed /\ UNCHANGED <<uints, ints, serial, origin, file, disk>>
  BY DEF OpenFails, CloseSections, writer_vars
<1>2. view' \in Seq(Nat) /\ Closed \in Sections
  BY <1>1 DEF Closed, Sections
<1>3. IsPrefix(disk, Words(file))' /\ disk' \in Seq(Nat)
  BY <1>1 DEF IInv, TypeOK
<1>4. TypeOK'
  BY <1>1, <1>2, <1>3 DEF IInv, TypeOK
<1>5. QED
  BY <1>1, <1>4 DEF IInv, WalkInv, EndInv

LEMMA LastSectionKeeps ==
    ASSUME IInv, LastSection
    PROVE  IInv'
<1> DEFINE W == Words(origin)
<1>1. /\ rpc = "sections" /\ view[uints] = lasttext_tag /\ rpc' = "open"
      /\ UNCHANGED <<file, disk, view, uints, ints, serial, attrs, strings, keys, origin>>
  BY DEF LastSection, writer_vars, lang_file
<1>2. TypeOK'
  <2>1. IsPrefix(disk, Words(file))' /\ disk' \in Seq(Nat)
    BY <1>1 DEF IInv, TypeOK
  <2>2. QED
    BY <1>1, <2>1 DEF IInv, TypeOK, Sections
<1>3. WalkInv'
  BY <1>1 DEF IInv, WalkInv, Passed, SectionRead, Whole, SectionAt, Places
<1>4. uints = LastAt(origin)
  <2>1. origin \in WholeCatalogs /\ view \in Seq(Nat) /\ Len(view) \in Nat /\ uints \in Nat
    BY WholeOrigin DEF IInv, TypeOK
  <2>2. /\ IsPrefix(view, W) /\ uints \in Places(origin) /\ uints <= Len(view)
    BY <1>1 DEF IInv, WalkInv
  <2>3. W \in Seq(Nat)
    BY <2>1, PlaceFacts
  <2>4. \A i \in 1 .. Len(view) : view[i] = W[i]
    BY <2>1, <2>2, <2>3, PrefixFacts
  <2> DEFINE a == AttrsAt(origin)
             s == StringsAt(origin)
             k == KeysAt(origin)
             l == LastAt(origin)
  <2>5. /\ s \in Nat /\ k \in Nat /\ l \in Nat
        /\ a = 6 /\ a <= s /\ s <= k /\ k <= l
        /\ W[2] = hdrtext_tag
        /\ a < s => W[a] = attrtext_tag
        /\ s < k => W[s] = strstext_tag
        /\ k < l => W[k] = keystext_tag
        /\ W[l] = lasttext_tag
    BY <2>1, PlaceFacts
  <2>6. uints \in {2, a, s, k, l}
    BY <2>2 DEF Places
  <2> HIDE DEF W, a, s, k, l
  <2>7. /\ lasttext_tag # hdrtext_tag /\ lasttext_tag # attrtext_tag
        /\ lasttext_tag # strstext_tag /\ lasttext_tag # keystext_tag
    BY TagFacts
  <2>8. uints \in 1 .. Len(view)
    BY <2>1, <2>2, <2>5, <2>6
  <2>9. W[uints] = lasttext_tag
    BY <1>1, <2>4, <2>8
  <2>10. uints # 2 /\ ~(uints = a /\ a < s) /\ ~(uints = s /\ s < k) /\ ~(uints = k /\ k < l)
    BY <2>5, <2>7, <2>9
  <2>11. uints = l
    <3>1. s \in Nat /\ k \in Nat /\ l \in Nat /\ a = 6 /\ a <= s /\ s <= k /\ k <= l
      BY <2>5
    <3>2. QED
      BY <2>6, <2>10, <3>1
  <2>12. QED
    BY <2>11 DEF l
<1>5. EndInv'
  BY <1>1, <1>4 DEF EndInv
<1>6. QED
  BY <1>2, <1>3, <1>5 DEF IInv


LEMMA NextSectionKeeps ==
    ASSUME IInv, NextSection
    PROVE  IInv'
<1> DEFINE at == uints + view[uints + 1] + 2
           left == ints - view[uints + 1] - 2
           W == Words(origin)
           f == origin
<1>1. /\ rpc = "sections" /\ view[uints] # lasttext_tag
      /\ UNCHANGED <<writer_vars, serial, origin>>
  BY DEF NextSection
<1>2. CASE ints < 2 \/ view[uints + 1] + 2 >= ints
  <2>1. OpenFails
    BY <1>2 DEF NextSection
  <2>2. QED
    BY <1>1, <2>1, OpenFailsKeeps
<1>3. CASE ~(ints < 2 \/ view[uints + 1] + 2 >= ints)
  <2>1. EnterSection(at, left)
    BY <1>3 DEF NextSection
  <2>2. /\ origin \in WholeCatalogs
        /\ view \in Seq(Nat) /\ Len(view) \in Nat
        /\ uints \in Nat
        /\ at = uints + W[uints + 1] + 2
        /\ uints \in Places(f) /\ uints # LastAt(f)
        /\ at \in 1 .. Len(view) /\ view[at] = W[at]
        /\ at \in Places(f) /\ at > uints
        /\ left \in Nat /\ left = Len(view) - at + 1
    BY <1>1, <1>3, WalkFacts
  <2> DEFINE q == uints + W[uints + 1] + 2
  <2>3. /\ f.attrs # <<>> => (q >= AttrsAt(f) <=> uints >= AttrsAt(f) \/ q = AttrsAt(f))
        /\ f.strings # <<>> =>
              (q >= StringsAt(f) <=> uints >= StringsAt(f) \/ q = StringsAt(f))
        /\ f.keys # <<>> => (q >= KeysAt(f) <=> uints >= KeysAt(f) \/ q = KeysAt(f))
        /\ W[q] = attrtext_tag <=> f.attrs # <<>> /\ q = AttrsAt(f)
        /\ W[q] = strstext_tag <=> f.strings # <<>> /\ q = StringsAt(f)
        /\ W[q] = keystext_tag <=> f.keys # <<>> /\ q = KeysAt(f)
    BY <2>2, NextPlace
  <2>4. at = q
    BY <2>2
  <2>5. CASE OpenFails
    BY <1>1, <2>5, OpenFailsKeeps
  <2>6. CASE ~ OpenFails
    <3> DEFINE section == SectionRead(at, left)
               tag == view[at]
    <3>1. /\ uints' = at /\ ints' = left /\ UNCHANGED <<view, rpc>>
          /\ attrs' = IF tag = attrtext_tag THEN section ELSE attrs
          /\ strings' = IF tag = strstext_tag THEN section ELSE strings
          /\ keys' = IF tag = keystext_tag THEN section ELSE keys
      <4> HIDE DEF at, left
      <4>1. /\ attrtext_tag # strstext_tag /\ attrtext_tag # keystext_tag
            /\ strstext_tag # keystext_tag
        BY TagFacts
      <4>2. CASE tag \notin {attrtext_tag, strstext_tag, keystext_tag}
        BY <2>1, <4>2 DEF EnterSection
      <4>3. CASE tag \in {attrtext_tag, strstext_tag, keystext_tag}
        <5>1. PICK ok \in Verdicts(at, left) :
                 IF ~ok THEN OpenFails
                 ELSE LET sec == SectionRead(at, left) IN
                      /\ uints' = at /\ ints' = left
                      /\ attrs' = IF tag = attrtext_tag THEN sec ELSE attrs
                      /\ strings' = IF tag = strstext_tag THEN sec ELSE strings
                      /\ keys' = IF tag = keystext_tag THEN sec ELSE keys
                      /\ UNCHANGED <<view, rpc>>
          BY <2>1, <4>3 DEF EnterSection
        <5>2. QED
          BY <2>6, <5>1
      <4>4. QED
        BY <4>2, <4>3
    <3>2. section \in Sections
      <4>1. at \in Nat \ {0} /\ at + left = Len(view) + 1 /\ left \in Nat
        <5> HIDE DEF at, left
        <5>1. /\ Len(view) \in Nat /\ at \in 1 .. Len(view)
              /\ left \in Nat /\ left = Len(view) - at + 1
          BY <2>2
        <5>2. QED
          BY <5>1
      <4> HIDE DEF at, left
      <4>2. QED
        BY <2>2, <4>1, SectionReadTypes
    <3>3. TypeOK'
      <4>1. at \in Nat /\ left \in Nat
        <5> HIDE DEF at, left
        <5>1. QED
          BY <2>2
      <4> HIDE DEF at, left, section, tag
      <4>2. IsPrefix(disk, Words(file))' /\ disk' \in Seq(Nat)
        BY <1>1 DEF IInv, TypeOK, writer_vars
      <4>3. attrs \in Sections /\ strings \in Sections /\ keys \in Sections
        BY DEF IInv, TypeOK
      <4>4. attrs' \in Sections /\ strings' \in Sections /\ keys' \in Sections
        BY <3>1, <3>2, <4>3
      <4>5. QED
        BY <1>1, <3>1, <4>1, <4>2, <4>4 DEF IInv, TypeOK, writer_vars
    <3>4. WalkInv'
      <4>1. rpc' = "sections" /\ view' = view /\ origin' = origin /\ serial' = serial
        BY <1>1, <3>1
      <4>2. /\ IsPrefix(view, Words(origin)) /\ Len(view) >= 5
            /\ serial = origin.serial
            /\ attrs = Passed(origin.attrs, AttrsAt(origin))
            /\ strings = Passed(origin.strings, StringsAt(origin))
            /\ keys = Passed(origin.keys, KeysAt(origin))
        BY <1>1 DEF IInv, WalkInv
      <4>3. uints' = q /\ ints' = left /\ left = Len(view) - q + 1
        BY <2>2, <3>1
      <4>4. q \in Places(f) /\ q \in 1 .. Len(view) /\ view[q] = W[q] /\ tag = W[q]
            /\ section = SectionRead(q, Len(view) - q + 1) /\ q \in Nat
        BY <2>2, <2>4
      <4> HIDE DEF q, at, left, section, tag
      <4>5. AttrsAt(f) \in Nat /\ StringsAt(f) \in Nat /\ KeysAt(f) \in Nat
        BY <2>2, WordsFacts
      <4> DEFINE now(block, place) ==
                   IF block # <<>> /\ q >= place
                     THEN SectionRead(place, Len(view) - place + 1) ELSE Closed
      <4>6. attrs' = now(f.attrs, AttrsAt(f))
        <5>1. CASE f.attrs # <<>> /\ q = AttrsAt(f)
          BY <2>3, <3>1, <4>4, <4>5, <5>1
        <5>2. CASE ~(f.attrs # <<>> /\ q = AttrsAt(f))
          BY <2>3, <3>1, <4>2, <4>4, <5>2 DEF Passed
        <5>3. QED
          BY <5>1, <5>2
      <4>7. strings' = now(f.strings, StringsAt(f))
        <5>1. CASE f.strings # <<>> /\ q = StringsAt(f)
          BY <2>3, <3>1, <4>4, <4>5, <5>1
        <5>2. CASE ~(f.strings # <<>> /\ q = StringsAt(f))
          BY <2>3, <3>1, <4>2, <4>4, <5>2 DEF Passed
        <5>3. QED
          BY <5>1, <5>2
      <4>8. keys' = now(f.keys, KeysAt(f))
        <5>1. CASE f.keys # <<>> /\ q = KeysAt(f)
          BY <2>3, <3>1, <4>4, <4>5, <5>1
        <5>2. CASE ~(f.keys # <<>> /\ q = KeysAt(f))
          BY <2>3, <3>1, <4>2, <4>4, <5>2 DEF Passed
        <5>3. QED
          BY <5>1, <5>2
      <4>9. /\ now(f.attrs, AttrsAt(f)) = Passed(f.attrs, AttrsAt(f))'
            /\ now(f.strings, StringsAt(f)) = Passed(f.strings, StringsAt(f))'
            /\ now(f.keys, KeysAt(f)) = Passed(f.keys, KeysAt(f))'
        BY <4>1, <4>3 DEF Passed, SectionRead, Whole, SectionAt
      <4>10. IsPrefix(view, Words(origin))' /\ Len(view') >= 5 /\ serial' = origin'.serial
        BY <4>1, <4>2
      <4>11. uints' \in Places(origin') /\ uints' <= Len(view')
             /\ ints' = Len(view') - uints' + 1
        BY <4>1, <4>3, <4>4
      <4>12. QED
        BY <4>6, <4>7, <4>8, <4>9, <4>10, <4>11 DEF WalkInv
    <3>5. EndInv'
      BY <1>1, <3>1 DEF EndInv
    <3>6. QED
      BY <3>3, <3>4, <3>5 DEF IInv
  <2>7. QED
    BY <2>5, <2>6
<1>4. QED
  BY <1>2, <1>3


LEMMA InvStep ==
    ASSUME IInv, [Next]_vars
    PROVE  IInv'
<1>1. ASSUME NEW catalog \in Catalogs, StartWrite(catalog) PROVE IInv'
  BY <1>1, StartWriteKeeps
<1>2. CASE WriteWord
  BY <1>2, WriteWordKeeps
<1>3. CASE Open
  BY <1>3, OpenKeeps
<1>4. CASE NextSection
  BY <1>4, NextSectionKeeps
<1>5. CASE LastSection
  BY <1>5, LastSectionKeeps
<1>6. CASE UNCHANGED vars
  <2>1. UNCHANGED <<view, rpc, uints, ints, lang_file, origin, file, disk>>
    BY <1>6 DEF vars, writer_vars
  <2>2. WalkInv' /\ EndInv'
    BY <2>1, ReaderIsLeftAlone
  <2>3. IsPrefix(disk, Words(file))' /\ disk' \in Seq(Nat)
    BY <2>1 DEF IInv, TypeOK
  <2>4. TypeOK'
    BY <2>1, <2>3 DEF IInv, TypeOK, lang_file, Sections
  <2>5. QED
    BY <2>2, <2>4 DEF IInv
<1>7. QED
  BY <1>1, <1>2, <1>3, <1>4, <1>5, <1>6 DEF Next

(* The reader and the writer keep to their types; what is on the disk is     *)
(* always a part of what is being written.                                   *)
THEOREM LngFileTypeCorrect == Spec => []TypeOK
<1>1. IInv => TypeOK
  BY DEF IInv
<1>2. QED
  BY InvInit, InvStep, <1>1, PTL DEF Spec

------------------------------------------------------------------------------
(* What an open file is *)

LEMMA InvOnlyWhole ==
    ASSUME IInv
    PROVE  OnlyWholeFilesOpen
<1> SUFFICES ASSUME rpc = "open" PROVE IsPrefix(Enough(origin), view)
  BY DEF OnlyWholeFilesOpen
<1> DEFINE W == Words(origin)
<1>1. /\ IsPrefix(view, W) /\ uints <= Len(view) /\ uints = LastAt(origin)
  BY DEF IInv, WalkInv, EndInv
<1>2. origin \in WholeCatalogs /\ view \in Seq(Nat) /\ Len(view) \in Nat
  BY WholeOrigin DEF IInv, TypeOK
<1>3. W \in Seq(Nat) /\ Len(W) = LastAt(origin) + 1 /\ LastAt(origin) \in Nat
  BY <1>2, PlaceFacts
<1>4. W # <<>> /\ Len(view) >= Len(W) - 1
  BY <1>1, <1>2, <1>3
<1>5. QED
  BY <1>1, <1>2, <1>3, <1>4, PrefixOfFront DEF Enough

(* A file is open only if all of its words but, at most, the very last are   *)
(* there: a file that was cut anywhere, by a full disk or an interrupted     *)
(* make, is turned down by the walk of lang_file::open.                      *)
THEOREM OnlyWholeOpen == Spec => []OnlyWholeFilesOpen
<1>1. IInv => OnlyWholeFilesOpen
  BY InvOnlyWhole
<1>2. QED
  BY InvInit, InvStep, <1>1, PTL DEF Spec


------------------------------------------------------------------------------
(* What is read from a section of which all words are there *)

InView(at, tag, block) ==
    LET s == Section(tag, block) IN
    /\ at \in Nat \ {0} /\ at + Len(s) - 1 <= Len(view)
    /\ \A i \in 1 .. Len(s) : view[at + i - 1] = s[i]

(* The section that is found is the block.                                   *)
IsBlock(section, block) ==
    /\ section.count = Len(block)
    /\ \A n \in 1 .. Len(block) :
          /\ Key(section, n).id = block[n].id
          /\ Text(section, n) = Value(block[n])

LEMMA SectionInView ==
    ASSUME NEW at, NEW tag \in Nat, NEW block \in Blocks, block # <<>>,
           view \in Seq(Nat), InView(at, tag, block)
    PROVE  /\ Whole(at, Len(view) - at + 1)
           /\ ReadStrings(at)
           /\ IsBlock(SectionAt(at), block)
<1> DEFINE s == Section(tag, block)
           n3 == 3 * Len(block)
           data == Data(block)
           P == Pack(data)
           list == List(block)
           len == Len(block)
           m == Len(P)
<1>1. /\ s \in Seq(Nat) /\ Len(s) = 4 + n3 + m
      /\ len \in Nat \ {0} /\ m \in Nat
      /\ s[1] = tag /\ s[2] = n3 + 2 + m /\ s[3] = len
      /\ s[4] = n3 + 4
      /\ \A k \in 1 .. n3 : s[4 + k] = list[k]
      /\ \A k \in 1 .. m : s[4 + n3 + k] = P[k]
  BY SectionFacts
<1>2. n3 \in Nat /\ n3 = 3 * len
  BY <1>1
<1>3. /\ at \in Nat \ {0} /\ at + Len(s) - 1 <= Len(view)
      /\ \A i \in 1 .. Len(s) : view[at + i - 1] = s[i]
  BY DEF InView
<1>4. Len(view) \in Nat
  OBVIOUS
<1>5. /\ data \in Seq(ByteValues) /\ Len(data) \in Nat
      /\ \A n \in 1 .. len :
            LET o == Offset(block, n)
                value == Value(block[n])
            IN /\ o \in Nat /\ Len(value) \in Nat
               /\ o + Len(value) + 1 <= Len(data)
               /\ \A k \in 1 .. Len(value) : data[o + k] = value[k]
               /\ data[o + Len(value) + 1] = Nul
  BY DataFacts
<1>6. \A n \in 1 .. len : Value(block[n]) \in Seq(ByteValues)
  <2>1. \A n \in 1 .. len : block[n] \in Entries
    BY DEF Blocks
  <2>2. QED
    BY <2>1, ValueTypes
<1>7. /\ m * WordSize \in Nat /\ Len(data) <= m * WordSize
      /\ \A n \in 0 .. Len(data) - 1 :
            /\ n \div WordSize + 1 \in 1 .. m
            /\ P[n \div WordSize + 1] = Word(data, n \div WordSize + 1)
  BY <1>5, PackFacts
<1>8. \A n \in 1 .. len :
         /\ 3 * (n - 1) + 1 \in 1 .. n3
         /\ 3 * (n - 1) + 2 \in 1 .. n3
         /\ 3 * (n - 1) + 3 \in 1 .. n3
         /\ list[3 * (n - 1) + 1] = block[n].id
         /\ list[3 * (n - 1) + 2] = Offset(block, n)
         /\ list[3 * (n - 1) + 3] = Len(Value(block[n]))
  BY ListFacts
<1>9. view[at + 1] = n3 + 2 + m /\ view[at + 2] = len /\ view[at + 3] = n3 + 4
  <2>1. /\ 2 \in 1 .. Len(s) /\ 3 \in 1 .. Len(s) /\ 4 \in 1 .. Len(s)
        /\ at + 2 - 1 = at + 1 /\ at + 3 - 1 = at + 2 /\ at + 4 - 1 = at + 3
    <3> HIDE DEF s, n3, m
    <3>1. QED
      BY <1>1, <1>2, <1>3
  <2> HIDE DEF s, n3, m
  <2>2. QED
    BY <1>1, <1>3, <2>1
<1> DEFINE section == SectionAt(at)
<1>10. /\ section.count = len /\ section.keys = at + 4
       /\ section.strings = at + (n3 + 4)
  BY <1>9 DEF SectionAt
<1> HIDE DEF section, s, n3, data, P, list, m
<1>11. ASSUME NEW n \in 1 .. len
       PROVE  /\ Key(section, n).id = block[n].id
              /\ Key(section, n).offset = Offset(block, n)
              /\ Key(section, n).length = Len(Value(block[n]))
  <2> DEFINE b == 3 * (n - 1)
  <2>1. b + 1 \in 1 .. n3 /\ b + 2 \in 1 .. n3 /\ b + 3 \in 1 .. n3 /\ b \in Int
    BY <1>8
  <2>2. /\ list[b + 1] = block[n].id
        /\ list[b + 2] = Offset(block, n)
        /\ list[b + 3] = Len(Value(block[n]))
    BY <1>8
  <2>3. section.keys + b = (at + 4) + b
    BY <1>10
  <2>4. Key(section, n) = [id |-> view[(at + 4) + b], offset |-> view[(at + 4) + b + 1],
                           length |-> view[(at + 4) + b + 2]]
    BY <1>10 DEF Key
  <2> HIDE DEF b
  <2>5. ASSUME NEW k \in 1 .. n3 PROVE view[at + 3 + k] = list[k]
    <3> DEFINE i == 4 + k
    <3>1. i \in 1 .. Len(s) /\ at + i - 1 = at + 3 + k
      BY <1>1, <1>2, <1>3
    <3> HIDE DEF i
    <3>2. view[at + i - 1] = s[i]
      BY <1>3, <3>1
    <3>3. s[i] = list[k]
      BY <1>1 DEF i
    <3>4. QED
      BY <3>1, <3>2, <3>3
  <2>6. /\ (at + 4) + b = at + 3 + (b + 1)
        /\ (at + 4) + b + 1 = at + 3 + (b + 2)
        /\ (at + 4) + b + 2 = at + 3 + (b + 3)
    BY <1>3, <2>1
  <2>7. /\ view[(at + 4) + b] = list[b + 1]
        /\ view[(at + 4) + b + 1] = list[b + 2]
        /\ view[(at + 4) + b + 2] = list[b + 3]
    BY <2>1, <2>5, <2>6
  <2>8. QED
    BY <2>2, <2>4, <2>7
<1>12. ASSUME NEW n \in 0 .. Len(data) - 1
       PROVE  Byte(section.strings, n) = data[n + 1]
  <2> DEFINE q == n \div WordSize
             word == section.strings
  <2>1. q + 1 \in 1 .. m /\ P[q + 1] = Word(data, q + 1) /\ n \in Nat
    BY <1>5, <1>7
  <2>2. q \in Nat
    <3>1. WordSize \in Nat \ {0} /\ n \in Nat
      BY <2>1, LngFileAssumption
    <3>2. QED
      BY <3>1, Division
  <2> HIDE DEF q
  <2>3. view[word + q] = P[q + 1]
    <3> DEFINE i == 4 + n3 + (q + 1)
    <3>1. i \in 1 .. Len(s) /\ at + i - 1 = at + (n3 + 4) + q
      BY <1>1, <1>2, <1>3, <2>1, <2>2
    <3> HIDE DEF i
    <3>2. view[at + i - 1] = s[i]
      BY <1>3, <3>1
    <3>3. s[i] = P[q + 1]
      BY <1>1, <2>1 DEF i
    <3>4. word = at + (n3 + 4)
      BY <1>10
    <3>5. QED
      BY <3>1, <3>2, <3>3, <3>4
  <2>4. view[word + n \div WordSize] = Word(data, n \div WordSize + 1)
    BY <2>1, <2>3 DEF q
  <2> HIDE DEF word
  <2>5. Byte(word, n) = Padded(data, n + 1)
    BY <1>5, <2>1, <2>4, ByteOfPacked
  <2>6. n + 1 <= Len(data)
    BY <1>5
  <2>7. QED
    BY <2>5, <2>6 DEF Padded, word
<1>13. Whole(at, Len(view) - at + 1)
  <2>1. Len(view) - at + 1 >= 4 /\ (n3 + 2 + m) + 2 <= Len(view) - at + 1
    BY <1>1, <1>2, <1>3, <1>4
  <2>2. QED
    BY <1>9, <2>1 DEF Whole
<1>14. ASSUME NEW n \in 1 .. len
       PROVE  Text(section, n) = Value(block[n])
  <2> DEFINE value == Value(block[n])
             o == Offset(block, n)
  <2>1. /\ o \in Nat /\ Len(value) \in Nat
        /\ o + Len(value) + 1 <= Len(data)
        /\ \A k \in 1 .. Len(value) : data[o + k] = value[k]
    BY <1>5
  <2>2. value \in Seq(ByteValues)
    BY <1>6
  <2>3. value = [k \in 1 .. Len(value) |-> value[k]]
    <3>1. ASSUME NEW s1 \in Seq(ByteValues) PROVE s1 = [k \in 1 .. Len(s1) |-> s1[k]]
      <4>1. s1 \in [1 .. Len(s1) -> ByteValues]
        BY LenProperties
      <4>2. QED
        BY <4>1
    <3> HIDE DEF value
    <3>2. QED
      BY <2>2, <3>1
  <2>4. Text(section, n) = [k \in 1 .. Len(value) |-> Byte(section.strings, o + k - 1)]
    BY <1>11 DEF Text
  <2> HIDE DEF value, o
  <2>5. ASSUME NEW k \in 1 .. Len(value)
        PROVE  Byte(section.strings, o + k - 1) = value[k]
    <3> DEFINE i == o + k - 1
    <3>1. i \in 0 .. Len(data) - 1 /\ i + 1 = o + k
      BY <1>5, <2>1
    <3> HIDE DEF i
    <3>2. Byte(section.strings, i) = data[i + 1]
      BY <1>12, <3>1
    <3>3. QED
      BY <2>1, <3>1, <3>2 DEF i
  <2>6. QED
    BY <2>3, <2>4, <2>5 DEF value
<1>15. ReadStrings(at)
  <2> DEFINE space == ((n3 + 2 + m) + 2 - (n3 + 4)) * WordSize
  <2>1. space = m * WordSize
    <3>1. (n3 + 2 + m) + 2 - (n3 + 4) = m
      BY <1>1, <1>2
    <3>2. QED
      BY <3>1
  <2>2. (n3 + 4) - 2 <= n3 + 2 + m /\ (n3 + 4) - 4 >= 3 * len
    BY <1>1, <1>2
  <2> HIDE DEF space
  <2>3. ASSUME NEW n \in 1 .. section.count
        PROVE  LET key == Key(section, n) IN
               /\ key.offset <= space
               /\ key.offset + key.length <= space
               /\ Byte(section.strings, key.offset + key.length) = Nul
    <3> DEFINE value == Value(block[n])
               o == Offset(block, n)
               l == Len(value)
    <3>1. n \in 1 .. len
      BY <1>10
    <3>2. /\ o \in Nat /\ l \in Nat /\ o + l + 1 <= Len(data)
          /\ data[o + l + 1] = Nul
      BY <1>5, <3>1
    <3>3. Key(section, n).offset = o /\ Key(section, n).length = l
      BY <1>11, <3>1
    <3> HIDE DEF o, l
    <3>4. o <= space /\ o + l <= space
      BY <1>5, <1>7, <2>1, <3>2
    <3>5. o + l \in 0 .. Len(data) - 1 /\ (o + l) + 1 = o + l + 1
      BY <1>5, <3>2
    <3>6. Byte(section.strings, o + l) = Nul
      BY <1>12, <3>2, <3>5
    <3>7. QED
      BY <3>3, <3>4, <3>6
  <2>4. /\ view[at + 1] = n3 + 2 + m /\ view[at + 3] = n3 + 4 /\ section.count = len
    BY <1>9, <1>10
  <2>5. QED
    BY <2>2, <2>3, <2>4 DEF ReadStrings, section, space
<1>16. QED
  BY <1>10, <1>11, <1>13, <1>14, <1>15 DEF IsBlock, section


(* When nothing but the last word is missing, all sections are there.        *)
LEMMA SectionsInView ==
    ASSUME NEW f \in WholeCatalogs, view \in Seq(Nat), IsPrefix(view, Words(f)),
           Len(view) >= LastAt(f)
    PROVE  /\ InView(AttrsAt(f), attrtext_tag, f.attrs)
           /\ InView(StringsAt(f), strstext_tag, f.strings)
           /\ InView(KeysAt(f), keystext_tag, f.keys)
<1> DEFINE W == Words(f)
<1>1. /\ W \in Seq(Nat) /\ Len(W) = LastAt(f) + 1
      /\ AttrsAt(f) \in Nat /\ StringsAt(f) \in Nat /\ KeysAt(f) \in Nat
      /\ LastAt(f) \in Nat
      /\ 6 <= AttrsAt(f) /\ AttrsAt(f) <= StringsAt(f)
      /\ StringsAt(f) <= KeysAt(f) /\ KeysAt(f) <= LastAt(f)
      /\ LaidOut(W, AttrsAt(f), attrtext_tag, f.attrs, StringsAt(f))
      /\ LaidOut(W, StringsAt(f), strstext_tag, f.strings, KeysAt(f))
      /\ LaidOut(W, KeysAt(f), keystext_tag, f.keys, LastAt(f))
  BY WordsFacts
<1>2. /\ f.attrs \in Blocks /\ f.strings \in Blocks /\ f.keys \in Blocks
      /\ attrtext_tag \in Nat /\ strstext_tag \in Nat /\ keystext_tag \in Nat
  BY TagFacts DEF WholeCatalogs
<1>3. Len(view) \in Nat /\ \A i \in 1 .. Len(view) : view[i] = W[i]
  <2>1. Len(view) \in Nat /\ view \in Seq(Nat) /\ W \in Seq(Nat) /\ IsPrefix(view, W)
    BY <1>1
  <2> HIDE DEF W
  <2>2. QED
    BY <2>1, PrefixFacts
<1> HIDE DEF W
<1>4. ASSUME NEW tag \in Nat, NEW block \in Blocks, NEW at \in Nat, NEW next \in Nat,
             6 <= at, next <= LastAt(f), LaidOut(W, at, tag, block, next)
      PROVE  InView(at, tag, block)
  <2> DEFINE s == Section(tag, block)
  <2>1. /\ next = at + Len(s) /\ Len(s) \in Nat
        /\ \A k \in 1 .. Len(s) : W[at + k - 1] = s[k]
    BY <1>4, SectionTypes DEF LaidOut
  <2> HIDE DEF s
  <2>2. at \in Nat \ {0} /\ at + Len(s) - 1 <= Len(view)
    <3>1. /\ 6 <= at /\ next <= LastAt(f) /\ LastAt(f) \in Nat
          /\ Len(view) \in Nat /\ Len(view) >= LastAt(f)
      BY <1>1, <1>3, <1>4
    <3>2. QED
      BY <2>1, <3>1
  <2>3. ASSUME NEW i \in 1 .. Len(s) PROVE view[at + i - 1] = s[i]
    <3>1. at + i - 1 \in 1 .. Len(view)
      BY <1>3, <1>4, <2>1, <2>2
    <3>2. QED
      BY <1>3, <2>1, <3>1
  <2>4. QED
    BY <2>2, <2>3 DEF InView, s
<1>5. /\ 6 <= StringsAt(f) /\ 6 <= KeysAt(f) /\ StringsAt(f) <= LastAt(f)
      /\ LastAt(f) <= LastAt(f)
  <2>1. /\ AttrsAt(f) \in Nat /\ StringsAt(f) \in Nat /\ KeysAt(f) \in Nat
        /\ LastAt(f) \in Nat
        /\ 6 <= AttrsAt(f) /\ AttrsAt(f) <= StringsAt(f)
        /\ StringsAt(f) <= KeysAt(f) /\ KeysAt(f) <= LastAt(f)
    BY <1>1
  <2>2. QED
    BY <2>1
<1>6. InView(AttrsAt(f), attrtext_tag, f.attrs)
  BY <1>1, <1>2, <1>4, <1>5, Zenon
<1>7. InView(StringsAt(f), strstext_tag, f.strings)
  BY <1>1, <1>2, <1>4, <1>5, Zenon
<1>8. InView(KeysAt(f), keystext_tag, f.keys)
  BY <1>1, <1>2, <1>4, <1>5, Zenon
<1>9. QED
  BY <1>6, <1>7, <1>8

LEMMA WholeGoesOn ==
    ASSUME IInv, NextSection, IsPrefix(Enough(origin), view)
    PROVE  rpc' # "closed"
<1> DEFINE W == Words(origin)
           f == origin
           at == uints + view[uints + 1] + 2
           left == ints - view[uints + 1] - 2
<1>1. rpc = "sections" /\ view[uints] # lasttext_tag
  BY DEF NextSection
<1>2. /\ f \in WholeCatalogs /\ view \in Seq(Nat) /\ Len(view) \in Nat
      /\ uints \in Nat /\ ints \in Nat
  BY WholeOrigin DEF IInv, TypeOK
<1>3. /\ IsPrefix(view, W) /\ uints \in Places(f) /\ uints <= Len(view)
      /\ ints = Len(view) - uints + 1
  BY <1>1 DEF IInv, WalkInv
<1>4. W \in Seq(Nat) /\ Len(W) = LastAt(f) + 1 /\ LastAt(f) \in Nat /\ W[LastAt(f)] = lasttext_tag
  BY <1>2, PlaceFacts
<1>5. Len(view) >= LastAt(f)
  <2>1. W # <<>> /\ Len(W) - 1 = LastAt(f)
    BY <1>4
  <2>2. QED
    BY <1>2, <1>3, <1>4, <2>1, PrefixOfFront DEF Enough
<1>6. Len(view) <= Len(W) /\ \A i \in 1 .. Len(view) : view[i] = W[i]
  BY <1>2, <1>3, <1>4, PrefixFacts
<1>7. \A p \in Places(f) : p \in Nat \ {0} /\ p <= LastAt(f)
  <2>1. /\ StringsAt(f) \in Nat /\ KeysAt(f) \in Nat /\ LastAt(f) \in Nat
        /\ AttrsAt(f) = 6 /\ AttrsAt(f) <= StringsAt(f)
        /\ StringsAt(f) <= KeysAt(f) /\ KeysAt(f) <= LastAt(f)
    BY <1>2, PlaceFacts
  <2>2. QED
    BY <2>1 DEF Places
<1>8. uints # LastAt(f)
  <2>1. LastAt(f) \in 1 .. Len(view)
    <3>1. LastAt(f) # 0
      BY <1>7 DEF Places
    <3>2. QED
      BY <1>2, <1>4, <1>5, <3>1
  <2>2. QED
    BY <1>1, <1>4, <1>6, <2>1
<1> DEFINE q == uints + W[uints + 1] + 2
<1>9. W[uints + 1] \in Nat /\ q \in Places(f) /\ q > uints
  BY <1>2, <1>3, <1>8, NextPlace
<1>10. /\ W[q] = attrtext_tag <=> f.attrs # <<>> /\ q = AttrsAt(f)
       /\ W[q] = strstext_tag <=> f.strings # <<>> /\ q = StringsAt(f)
       /\ W[q] = keystext_tag <=> f.keys # <<>> /\ q = KeysAt(f)
  BY <1>2, <1>3, <1>8, NextPlace
<1>11. q <= LastAt(f) /\ q \in Nat \ {0}
  BY <1>7, <1>9
<1>12. uints + 1 \in 1 .. Len(view)
  <2> HIDE DEF q
  <2>1. QED
    BY <1>2, <1>3, <1>4, <1>5, <1>9, <1>11
<1>13. view[uints + 1] = W[uints + 1]
  BY <1>6, <1>12
<1>14. ~(ints < 2 \/ view[uints + 1] + 2 >= ints)
  <2> DEFINE w == W[uints + 1]
  <2>1. w \in Nat /\ uints + w + 2 <= Len(view) /\ Len(view) \in Nat /\ uints \in Nat
        /\ ints = Len(view) - uints + 1
    <3>1. w \in Nat /\ q = uints + w + 2
      BY <1>9
    <3>2. q <= LastAt(f) /\ q \in Nat
      BY <1>11
    <3> HIDE DEF q, w
    <3>3. QED
      BY <1>2, <1>3, <1>4, <1>5, <3>1, <3>2
  <2> HIDE DEF w
  <2>2. ~(ints < 2) /\ ~(w + 2 >= ints)
    BY <2>1
  <2>3. QED
    BY <1>13, <2>2 DEF w
<1>15. EnterSection(at, left)
  BY <1>14 DEF NextSection
<1>16. /\ at = q /\ left = Len(view) - q + 1 /\ view[q] = W[q]
  BY <1>1, <1>14, WalkFacts
<1>17. /\ f.attrs # <<>> => Whole(AttrsAt(f), Len(view) - AttrsAt(f) + 1)
                            /\ ReadStrings(AttrsAt(f))
       /\ f.strings # <<>> => Whole(StringsAt(f), Len(view) - StringsAt(f) + 1)
                              /\ ReadStrings(StringsAt(f))
       /\ f.keys # <<>> => Whole(KeysAt(f), Len(view) - KeysAt(f) + 1)
                           /\ ReadStrings(KeysAt(f))
  <2>1. /\ f.attrs \in Blocks /\ f.strings \in Blocks /\ f.keys \in Blocks
        /\ attrtext_tag \in Nat /\ strstext_tag \in Nat /\ keystext_tag \in Nat
    BY <1>2, TagFacts DEF WholeCatalogs
  <2>2. /\ InView(AttrsAt(f), attrtext_tag, f.attrs)
        /\ InView(StringsAt(f), strstext_tag, f.strings)
        /\ InView(KeysAt(f), keystext_tag, f.keys)
    BY <1>2, <1>3, <1>5, SectionsInView
  <2>3. QED
    BY <1>2, <2>1, <2>2, SectionInView
<1> HIDE DEF at, left, q, W
<1>18. CASE view[at] \notin {attrtext_tag, strstext_tag, keystext_tag}
  BY <1>1, <1>15, <1>18 DEF EnterSection
<1>19. CASE view[at] \in {attrtext_tag, strstext_tag, keystext_tag}
  <2>1. Whole(q, Len(view) - q + 1) /\ ReadStrings(q)
    BY <1>10, <1>16, <1>17, <1>19
  <2>2. Verdicts(at, left) = {TRUE}
    <3>1. Whole(at, left) /\ ReadStrings(at)
      BY <1>16, <2>1
    <3>2. Verdicts(at, left) = {ReadStrings(at)}
      BY <3>1 DEF Verdicts
    <3>3. ReadStrings(at) = TRUE
      BY <3>1 DEF ReadStrings
    <3>4. QED
      BY <3>2, <3>3
  <2>3. \E ok \in Verdicts(at, left) : IF ~ok THEN OpenFails ELSE UNCHANGED rpc
    BY <1>15, <1>19 DEF EnterSection
  <2>4. UNCHANGED rpc
    BY <2>2, <2>3
  <2>5. QED
    BY <1>1, <2>4
<1>20. QED
  BY <1>18, <1>19

LEMMA StepWhole ==
    ASSUME IInv, [Next]_vars, rpc = "sections", rpc' = "closed"
    PROVE  ~ IsPrefix(Enough(origin), view)
<1>1. ASSUME NEW catalog \in Catalogs, StartWrite(catalog) PROVE FALSE
  BY <1>1 DEF StartWrite
<1>2. CASE WriteWord
  BY <1>2 DEF WriteWord
<1>3. CASE Open
  BY <1>3 DEF Open
<1>4. CASE NextSection
  BY <1>4, WholeGoesOn
<1>5. CASE LastSection
  BY <1>5 DEF LastSection
<1>6. CASE UNCHANGED vars
  BY <1>6 DEF vars
<1>7. QED
  BY <1>1, <1>2, <1>3, <1>4, <1>5, <1>6 DEF Next

(* A file that was complete when it was read is not turned down: the check   *)
(* of each section (lang_file::section::read_strings) accepts what           *)
(* app::file::write lays out, whatever the strings are.                      *)
THEOREM WholeOpen == Spec => WholeFilesOpen
<1>1. IInv /\ [Next]_vars =>
         [rpc = "sections" /\ rpc' = "closed" => ~ IsPrefix(Enough(origin), view)]_vars
  BY StepWhole
<1>2. QED
  BY InvInit, InvStep, <1>1, PTL DEF Spec, WholeFilesOpen


------------------------------------------------------------------------------
(* What was written is what is read *)

LEMMA OpenSections ==
    ASSUME IInv, rpc = "open"
    PROVE  /\ serial = origin.serial
           /\ origin.attrs \in Blocks /\ origin.strings \in Blocks /\ origin.keys \in Blocks
           /\ IsBlock(attrs, origin.attrs)
           /\ IsBlock(strings, origin.strings)
           /\ IsBlock(keys, origin.keys)
<1> DEFINE f == origin
<1>1. f \in WholeCatalogs /\ view \in Seq(Nat) /\ Len(view) \in Nat
  BY WholeOrigin DEF IInv, TypeOK
<1>2. /\ f.attrs \in Blocks /\ f.strings \in Blocks /\ f.keys \in Blocks
      /\ attrtext_tag \in Nat /\ strstext_tag \in Nat /\ keystext_tag \in Nat
  BY <1>1, TagFacts DEF WholeCatalogs
<1>3. /\ IsPrefix(view, Words(f)) /\ uints = LastAt(f) /\ uints <= Len(view)
      /\ serial = f.serial
      /\ attrs = Passed(f.attrs, AttrsAt(f))
      /\ strings = Passed(f.strings, StringsAt(f))
      /\ keys = Passed(f.keys, KeysAt(f))
  BY DEF IInv, WalkInv, EndInv
<1>4. /\ uints >= AttrsAt(f) /\ uints >= StringsAt(f) /\ uints >= KeysAt(f)
      /\ Len(view) >= LastAt(f)
  <2>1. /\ StringsAt(f) \in Nat /\ KeysAt(f) \in Nat /\ LastAt(f) \in Nat
        /\ AttrsAt(f) = 6 /\ AttrsAt(f) <= StringsAt(f)
        /\ StringsAt(f) <= KeysAt(f) /\ KeysAt(f) <= LastAt(f)
    BY <1>1, PlaceFacts
  <2>2. QED
    BY <1>1, <1>3, <2>1
<1>5. /\ InView(AttrsAt(f), attrtext_tag, f.attrs)
      /\ InView(StringsAt(f), strstext_tag, f.strings)
      /\ InView(KeysAt(f), keystext_tag, f.keys)
  BY <1>1, <1>3, <1>4, SectionsInView
<1>6. ASSUME NEW block \in Blocks, NEW at, NEW tag \in Nat, InView(at, tag, block),
             uints >= at
      PROVE  IsBlock(Passed(block, at), block)
  <2>1. CASE block = <<>>
    <3>1. Passed(block, at) = Closed
      BY <2>1 DEF Passed
    <3>2. Closed.count = 0 /\ Len(block) = 0
      BY <2>1 DEF Closed
    <3>3. QED
      BY <3>1, <3>2 DEF IsBlock
  <2>2. CASE block # <<>>
    <3>1. Whole(at, Len(view) - at + 1) /\ IsBlock(SectionAt(at), block)
      BY <1>1, <1>6, <2>2, SectionInView
    <3>2. Passed(block, at) = SectionAt(at)
      BY <1>6, <2>2, <3>1 DEF Passed, SectionRead
    <3>3. QED
      BY <3>1, <3>2
  <2>3. QED
    BY <2>1, <2>2
<1>7. IsBlock(Passed(f.attrs, AttrsAt(f)), f.attrs)
  BY <1>2, <1>4, <1>5, <1>6
<1>8. IsBlock(Passed(f.strings, StringsAt(f)), f.strings)
  BY <1>2, <1>4, <1>5, <1>6
<1>9. IsBlock(Passed(f.keys, KeysAt(f)), f.keys)
  BY <1>2, <1>4, <1>5, <1>6
<1>10. QED
  BY <1>2, <1>3, <1>7, <1>8, <1>9

(* The first of some numbers                                                 *)
LEMMA FirstIsMin ==
    ASSUME NEW len \in Nat, NEW S \in SUBSET (1 .. len), NEW n \in S,
           \A m \in 1 .. n - 1 : m \notin S
    PROVE  S # {} /\ Min(S) = n
<1>1. S # {} /\ S \in SUBSET Int /\ IsFiniteSet(S)
  <2>1. IsFiniteSet(1 .. len)
    BY FS_Interval
  <2>2. IsFiniteSet(S)
    BY <2>1, FS_Subset
  <2>3. QED
    BY <2>2
<1>2. Min(S) \in S /\ \A x \in S : Min(S) <= x
  BY <1>1, MinIsSmallest
<1> DEFINE k == Min(S)
<1> HIDE DEF k
<1>3. k \in S /\ k <= n /\ n \in 1 .. len /\ k \in 1 .. len
  BY <1>2 DEF k
<1>4. k \in 1 .. n - 1 \/ k = n
  BY <1>3
<1>5. k = n
  BY <1>3, <1>4
<1>6. QED
  BY <1>1, <1>5 DEF k

LEMMA HoldsBlock ==
    ASSUME NEW block \in Blocks, NEW section, IsBlock(section, block)
    PROVE  Holds(section, block)
<1> DEFINE len == Len(block)
<1>1. /\ len \in Nat /\ DOMAIN block = 1 .. len /\ section.count = len
      /\ \A n \in 1 .. len : /\ Key(section, n).id = block[n].id
                             /\ Text(section, n) = Value(block[n])
  BY DEF Blocks, IsBlock
<1> HIDE DEF len
<1>2. ASSUME NEW n \in 1 .. len, IsFirst(block, n)
      PROVE  String(section, block[n].id) = Value(block[n])
  <2> DEFINE M == Matches(section, block[n].id)
  <2>1. M = {m \in 1 .. len : Key(section, m).id = block[n].id}
    BY <1>1 DEF Matches
  <2>2. M \in SUBSET (1 .. len) /\ n \in M
    BY <1>1, <2>1
  <2>3. ASSUME NEW m \in 1 .. n - 1 PROVE m \notin M
    <3>1. m \in 1 .. len
      BY <1>1
    <3>2. block[m].id # block[n].id
      BY <1>2 DEF IsFirst
    <3>3. QED
      BY <1>1, <2>1, <3>1, <3>2
  <2> HIDE DEF M
  <2>4. M # {} /\ Min(M) = n
    BY <1>1, <2>2, <2>3, FirstIsMin
  <2>5. QED
    BY <1>1, <2>4 DEF String, M
<1>3. QED
  BY <1>1, <1>2 DEF Holds, len

LEMMA InvReadsWhat ==
    ASSUME IInv
    PROVE  ReadsWhatWasWritten
BY OpenSections, HoldsBlock DEF ReadsWhatWasWritten

LEMMA InvKeysAreFound ==
    ASSUME IInv
    PROVE  KeysAreFound
<1> SUFFICES ASSUME rpc = "open", NEW n \in DOMAIN origin.keys,
                    Value(origin.keys[n]) # <<>>,
                    \A m \in 1 .. n - 1 : Value(origin.keys[m]) # Value(origin.keys[n])
             PROVE  FindKey(Value(origin.keys[n])) = origin.keys[n].id
  BY DEF KeysAreFound
<1> DEFINE block == origin.keys
           len == Len(block)
           text == Value(block[n])
           found == {m \in 1 .. keys.count : Text(keys, m) = text}
<1>1. block \in Blocks /\ IsBlock(keys, block)
  BY OpenSections
<1>2. /\ len \in Nat /\ n \in 1 .. len /\ keys.count = len
      /\ \A m \in 1 .. len : /\ Key(keys, m).id = block[m].id
                             /\ Text(keys, m) = Value(block[m])
  BY <1>1 DEF Blocks, IsBlock
<1> HIDE DEF block, len
<1>3. found \in SUBSET (1 .. len) /\ n \in found
  BY <1>2
<1>4. ASSUME NEW m \in 1 .. n - 1 PROVE m \notin found
  <2>1. m \in 1 .. len
    BY <1>2
  <2>2. Value(block[m]) # text
    BY DEF block
  <2>3. QED
    BY <1>2, <2>1, <2>2
<1>5. found # {} /\ Min(found) = n
  <2> HIDE DEF found
  <2>1. QED
    BY <1>2, <1>3, <1>4, FirstIsMin
<1>6. text # <<>>
  BY DEF block
<1>7. FindKey(text) = Key(keys, n).id
  BY <1>5, <1>6 DEF FindKey
<1>8. QED
  BY <1>2, <1>7 DEF block


------------------------------------------------------------------------------
(* The forms of a plural *)

(* Where the forms are in the value: v holds form i behind the place b[i],   *)
(* and a zero between each two.                                              *)
Joined(v, b, forms) ==
    LET N == Len(forms) IN
    /\ b \in [1 .. N -> Nat] /\ b[1] = 0
    /\ \A i \in 1 .. N : \A j \in 1 .. Len(forms[i]) :
          /\ forms[i][j] \in 1 .. Base - 1
          /\ v[b[i] + j] = forms[i][j]
    /\ \A i \in 1 .. N - 1 : /\ b[i + 1] = b[i] + Len(forms[i]) + 1
                             /\ v[b[i + 1]] = Nul
    /\ Len(v) = b[N] + Len(forms[N])

LEMMA ValueJoins ==
    ASSUME NEW entry \in Entries
    PROVE  /\ entry.forms \in Seq(Seq(1 .. Base - 1)) /\ Len(entry.forms) \in Nat \ {0}
           /\ \E b : Joined(Value(entry), b, entry.forms)
<1> DEFINE forms == entry.forms
           N == Len(forms)
           seqs == [n \in DOMAIN forms |->
                      IF n = 1 THEN forms[n] ELSE <<Nul>> \o forms[n]]
           v == Value(entry)
           starts == CHOOSE p : Flattened(seqs, p, v)
           b == [i \in 1 .. N |-> IF i = 1 THEN 0 ELSE starts[i] + 1]
<1>1. /\ forms \in Seq(Seq(1 .. Base - 1)) /\ forms # <<>>
      /\ N \in Nat /\ DOMAIN forms = 1 .. N
  BY DEF Entries
<1>2. N # 0
  BY <1>1, EmptySeq
<1>3. Base \in Nat \ {0}
  BY LngFileAssumption
<1>4. \A n \in 1 .. N : /\ forms[n] \in Seq(1 .. Base - 1)
                        /\ forms[n] \in Seq(ByteValues) /\ Len(forms[n]) \in Nat
                        /\ \A j \in 1 .. Len(forms[n]) : forms[n][j] \in 1 .. Base - 1
  <2>1. ASSUME NEW n \in 1 .. N PROVE forms[n] \in Seq(1 .. Base - 1)
    BY <1>1
  <2> HIDE DEF N, forms
  <2>2. ASSUME NEW t \in Seq(1 .. Base - 1)
        PROVE  /\ t \in Seq(ByteValues) /\ Len(t) \in Nat
               /\ \A j \in 1 .. Len(t) : t[j] \in 1 .. Base - 1
    <3>1. \A j \in 1 .. Len(t) : t[j] \in 1 .. Base - 1
      BY ElementOfSeq
    <3>2. \A j \in 1 .. Len(t) : t[j] \in ByteValues
      BY <1>3, <3>1 DEF ByteValues
    <3>3. t = [j \in 1 .. Len(t) |-> t[j]] /\ Len(t) \in Nat
      OBVIOUS
    <3>4. QED
      BY <3>1, <3>2, <3>3
  <2>3. QED
    BY <2>1, <2>2
<1>5. v = FlattenSeq(seqs)
  BY DEF Value
<1>6. /\ \A n \in 1 .. N : seqs[n] = IF n = 1 THEN forms[n] ELSE <<Nul>> \o forms[n]
      /\ seqs = [n \in 1 .. N |-> seqs[n]]
  BY <1>1
<1> HIDE DEF seqs, v, forms, N
<1>7. ASSUME NEW n \in 1 .. N, n # 1
      PROVE  /\ seqs[n] \in Seq(ByteValues) /\ Len(seqs[n]) = Len(forms[n]) + 1
             /\ seqs[n][1] = Nul
             /\ \A j \in 1 .. Len(forms[n]) : seqs[n][j + 1] = forms[n][j]
  <2> DEFINE t == forms[n]
             z == <<Nul>> \o t
  <2>1. seqs[n] = z
    BY <1>6, <1>7
  <2>2. t \in Seq(ByteValues) /\ Len(t) \in Nat
    BY <1>4
  <2>3. <<Nul>> \in Seq(ByteValues) /\ Len(<<Nul>>) = 1 /\ <<Nul>>[1] = Nul
    BY <1>3 DEF ByteValues, Nul
  <2> HIDE DEF t
  <2>4. /\ <<Nul>> \o t \in Seq(ByteValues)
        /\ Len(<<Nul>> \o t) = Len(<<Nul>>) + Len(t)
        /\ \A i \in 1 .. Len(<<Nul>>) + Len(t) :
              (<<Nul>> \o t)[i] = IF i <= Len(<<Nul>>) THEN <<Nul>>[i]
                                  ELSE t[i - Len(<<Nul>>)]
    BY <2>2, <2>3, ConcatProperties
  <2>5. /\ z \in Seq(ByteValues) /\ Len(z) = Len(t) + 1
        /\ \A i \in 1 .. Len(t) + 1 : z[i] = IF i <= 1 THEN Nul ELSE t[i - 1]
    <3> HIDE DEF z
    <3>1. /\ z \in Seq(ByteValues) /\ Len(z) = Len(<<Nul>>) + Len(t)
          /\ \A i \in 1 .. Len(<<Nul>>) + Len(t) :
                z[i] = IF i <= Len(<<Nul>>) THEN <<Nul>>[i] ELSE t[i - Len(<<Nul>>)]
      BY <2>4 DEF z
    <3>2. Len(<<Nul>>) + Len(t) = Len(t) + 1 /\ Len(<<Nul>>) = 1
      BY <2>2, <2>3
    <3>3. ASSUME NEW i \in 1 .. Len(t) + 1 PROVE z[i] = IF i <= 1 THEN Nul ELSE t[i - 1]
      <4>1. z[i] = IF i <= 1 THEN <<Nul>>[i] ELSE t[i - 1]
        BY <3>1, <3>2
      <4>2. i <= 1 => i = 1
        BY <2>2
      <4>3. QED
        BY <2>3, <4>1, <4>2
    <3>4. QED
      BY <3>1, <3>2, <3>3
  <2> HIDE DEF z
  <2>6. z[1] = Nul
    <3>1. 1 \in 1 .. Len(t) + 1
      BY <2>2
    <3>2. QED
      BY <2>5, <3>1
  <2>7. ASSUME NEW j \in 1 .. Len(t) PROVE z[j + 1] = t[j]
    <3>1. j + 1 \in 1 .. Len(t) + 1 /\ ~(j + 1 <= 1) /\ (j + 1) - 1 = j
      BY <2>2
    <3>2. QED
      BY <2>5, <3>1
  <2>8. QED
    BY <2>1, <2>5, <2>6, <2>7 DEF t
<1>8. 1 \in 1 .. N => seqs[1] = forms[1]
  BY <1>6
<1>9. seqs \in Seq(Seq(ByteValues)) /\ Len(seqs) = N
  <2>1. ASSUME NEW n \in 1 .. N PROVE seqs[n] \in Seq(ByteValues)
    BY <1>4, <1>7, <1>8
  <2>2. seqs \in [1 .. N -> Seq(ByteValues)]
    BY <1>6, <2>1, Zenon
  <2>3. QED
    BY <1>1, <2>2
<1>10. Flattened(seqs, starts, v)
  <2>1. \E p : Flattened(seqs, p, v)
    BY <1>5, <1>9, FlattenFacts
  <2>2. QED
    BY <2>1, Zenon
<1> HIDE DEF starts
<1>11. /\ starts \in [1 .. N + 1 -> Nat] /\ starts[1] = 0
       /\ \A i \in 1 .. N : starts[i + 1] = starts[i] + Len(seqs[i])
       /\ Len(v) = starts[N + 1]
       /\ \A i \in 1 .. N, k \in Nat :
             k \in 1 .. Len(seqs[i]) => v[starts[i] + k] = seqs[i][k]
  BY <1>9, <1>10 DEF Flattened
<1>12. b \in [1 .. N -> Nat] /\ b[1] = 0
  BY <1>1, <1>2, <1>11
<1>13. \A i \in 1 .. N : b[i] = IF i = 1 THEN 0 ELSE starts[i] + 1
  OBVIOUS
<1> HIDE DEF b
<1>14. ASSUME NEW i \in 1 .. N, NEW j \in 1 .. Len(forms[i])
       PROVE  forms[i][j] \in 1 .. Base - 1 /\ v[b[i] + j] = forms[i][j]
  <2>1. starts[i] \in Nat /\ Len(forms[i]) \in Nat
    BY <1>1, <1>4, <1>11
  <2>2. CASE i = 1
    <3>1. b[i] + j = starts[i] + j /\ j \in Nat /\ j \in 1 .. Len(seqs[i])
      BY <1>8, <1>11, <1>12, <2>2
    <3>2. QED
      BY <1>4, <1>8, <1>11, <2>2, <3>1
  <2>3. CASE i # 1
    <3>1. /\ b[i] + j = starts[i] + (j + 1) /\ j + 1 \in Nat
          /\ j + 1 \in 1 .. Len(forms[i]) + 1
      BY <1>13, <2>1, <2>3
    <3>2. v[starts[i] + (j + 1)] = seqs[i][j + 1] /\ seqs[i][j + 1] = forms[i][j]
      BY <1>7, <1>11, <2>3, <3>1
    <3>3. QED
      BY <1>4, <3>1, <3>2
  <2>4. QED
    BY <2>2, <2>3
<1>15. ASSUME NEW i \in 1 .. N
       PROVE  starts[i + 1] = b[i] + Len(forms[i]) /\ b[i] \in Nat /\ Len(forms[i]) \in Nat
  <2>1. starts[i] \in Nat /\ Len(forms[i]) \in Nat /\ b[i] \in Nat
    BY <1>1, <1>4, <1>11, <1>12
  <2>2. starts[i + 1] = starts[i] + Len(seqs[i])
    BY <1>11
  <2>3. CASE i = 1
    BY <1>8, <1>11, <1>12, <2>1, <2>2, <2>3
  <2>4. CASE i # 1
    <3>1. Len(seqs[i]) = Len(forms[i]) + 1 /\ b[i] = starts[i] + 1
      BY <1>7, <1>13, <2>4
    <3>2. QED
      BY <2>1, <2>2, <3>1
  <2>5. QED
    BY <2>1, <2>3, <2>4
<1>16. ASSUME NEW i \in 1 .. N - 1
       PROVE  b[i + 1] = b[i] + Len(forms[i]) + 1 /\ v[b[i + 1]] = Nul
  <2>1. i \in 1 .. N /\ i + 1 \in 1 .. N /\ i + 1 # 1
    BY <1>1
  <2>2. b[i + 1] = starts[i + 1] + 1
    BY <1>13, <2>1
  <2>3. 1 \in Nat /\ 1 \in 1 .. Len(seqs[i + 1]) /\ seqs[i + 1][1] = Nul
    <3>1. Len(forms[i + 1]) \in Nat
      BY <1>4, <2>1
    <3>2. Len(seqs[i + 1]) = Len(forms[i + 1]) + 1 /\ seqs[i + 1][1] = Nul
      BY <1>7, <2>1
    <3>3. QED
      BY <3>1, <3>2
  <2>4. v[starts[i + 1] + 1] = Nul
    BY <1>11, <2>1, <2>3
  <2>5. QED
    BY <1>15, <2>1, <2>2, <2>4
<1>17. Len(v) = b[N] + Len(forms[N])
  <2>1. N \in 1 .. N
    BY <1>1, <1>2
  <2>2. QED
    BY <1>11, <1>15, <2>1
<1>18. Joined(v, b, forms)
  BY <1>12, <1>14, <1>16, <1>17 DEF Joined, N
<1>19. QED
  BY <1>1, <1>2, <1>18 DEF v, forms, N


LEMMA JoinedFacts ==
    ASSUME NEW v \in Seq(ByteValues), NEW forms \in Seq(Seq(1 .. Base - 1)),
           Len(forms) \in Nat \ {0}, NEW b, Joined(v, b, forms)
    PROVE  /\ Len(v) \in Nat
           /\ \A i \in 1 .. Len(forms) :
                 /\ b[i] \in Nat /\ Len(forms[i]) \in Nat
                 /\ b[i] + Len(forms[i]) <= Len(v)
           /\ \A i \in 1 .. Len(forms) - 1 :
                 /\ b[i + 1] = b[i] + Len(forms[i]) + 1 /\ b[i + 1] \in 1 .. Len(v)
                 /\ v[b[i + 1]] = Nul
           /\ Cardinality(Zeros(v)) = Len(forms) - 1
<1> DEFINE N == Len(forms)
           L == Len(v)
           e(i) == b[i] + Len(forms[i])
<1>1. /\ N \in Nat \ {0} /\ b \in [1 .. N -> Nat] /\ b[1] = 0
      /\ \A i \in 1 .. N : \A j \in 1 .. Len(forms[i]) :
            forms[i][j] \in 1 .. Base - 1 /\ v[b[i] + j] = forms[i][j]
      /\ \A i \in 1 .. N - 1 : /\ b[i + 1] = b[i] + Len(forms[i]) + 1
                               /\ v[b[i + 1]] = Nul
      /\ L = e(N)
  BY DEF Joined
<1>2. \A i \in 1 .. N : forms[i] \in Seq(1 .. Base - 1)
  BY ElementOfSeq
<1>3. \A i \in 1 .. N : b[i] \in Nat /\ Len(forms[i]) \in Nat /\ e(i) \in Nat
  <2> HIDE DEF N
  <2>1. ASSUME NEW i \in 1 .. N PROVE b[i] \in Nat /\ Len(forms[i]) \in Nat
    BY <1>1, <1>2, LenProperties
  <2>2. QED
    BY <2>1
<1>4. L \in Nat /\ DOMAIN v = 1 .. L
  OBVIOUS
<1> HIDE DEF N, L
<1>5. \A i \in 1 .. N - 1 : /\ i \in 1 .. N /\ i + 1 \in 1 .. N
                            /\ e(i + 1) = e(i) + 1 + Len(forms[i + 1])
                            /\ b[i + 1] = e(i) + 1
  <2>1. ASSUME NEW i \in 1 .. N - 1 PROVE i \in 1 .. N /\ i + 1 \in 1 .. N
    BY <1>1
  <2>2. ASSUME NEW i \in 1 .. N - 1
        PROVE  e(i + 1) = e(i) + 1 + Len(forms[i + 1]) /\ b[i + 1] = e(i) + 1
    <3>1. /\ b[i + 1] = b[i] + Len(forms[i]) + 1 /\ b[i] \in Nat
          /\ Len(forms[i]) \in Nat /\ Len(forms[i + 1]) \in Nat
      BY <1>1, <1>3, <2>1
    <3>2. QED
      BY <3>1
  <2>3. QED
    BY <2>1, <2>2
<1> HIDE DEF e
<1>6. ASSUME NEW i \in 1 .. N PROVE e(i) <= L
  <2> DEFINE Good == {m \in Nat : m < N => e(N - m) <= L}
  <2>1. 0 \in Good
    <3>1. N - 0 = N /\ e(N) <= L
      BY <1>1, <1>4
    <3>2. QED
      BY <3>1
  <2>2. ASSUME NEW m \in Good PROVE m + 1 \in Good
    <3>1. ASSUME m + 1 < N PROVE e(N - (m + 1)) <= L
      <4> DEFINE k == N - (m + 1)
      <4>1. m < N /\ k \in 1 .. N - 1 /\ k + 1 = N - m
        BY <1>1, <3>1
      <4>2. e(N - m) <= L
        BY <4>1
      <4> HIDE DEF k
      <4>3. /\ e(k + 1) = e(k) + 1 + Len(forms[k + 1]) /\ e(k) \in Nat
            /\ Len(forms[k + 1]) \in Nat /\ e(k + 1) <= L
        BY <1>3, <1>5, <4>1, <4>2
      <4>4. e(k) <= L
        BY <1>4, <4>3
      <4>5. QED
        BY <4>4 DEF k
    <3>2. QED
      BY <3>1
  <2>3. Good \in SUBSET Nat
    OBVIOUS
  <2> HIDE DEF Good
  <2>4. N - i \in Nat /\ N - i < N /\ N - (N - i) = i
    BY <1>1
  <2>5. N - i \in Good
    BY <2>1, <2>2, <2>3, <2>4, InductionOverNat
  <2>6. QED
    BY <2>4, <2>5 DEF Good
<1>7. ASSUME NEW i \in 1 .. N - 1
      PROVE  /\ b[i + 1] = b[i] + Len(forms[i]) + 1 /\ b[i + 1] \in 1 .. L
             /\ v[b[i + 1]] = Nul
  <2>1. /\ b[i + 1] = e(i) + 1 /\ e(i + 1) <= L /\ e(i) \in Nat
        /\ Len(forms[i + 1]) \in Nat /\ e(i + 1) = e(i) + 1 + Len(forms[i + 1])
    BY <1>3, <1>5, <1>6
  <2>2. b[i + 1] \in 1 .. L
    BY <1>4, <2>1
  <2>3. QED
    BY <1>1, <2>2
<1> DEFINE Z(i) == {k \in 1 .. e(i) : v[k] = Nul}
<1>8. ASSUME NEW i \in 1 .. N, NEW k \in 1 .. e(i), v[k] = Nul
      PROVE  k <= b[i]
  <2>1. b[i] \in Nat /\ Len(forms[i]) \in Nat /\ e(i) = b[i] + Len(forms[i])
    BY <1>3 DEF e
  <2>2. ASSUME k > b[i] PROVE FALSE
    <3> DEFINE j == k - b[i]
    <3>1. j \in 1 .. Len(forms[i]) /\ b[i] + j = k
      BY <2>1, <2>2
    <3> HIDE DEF j
    <3>2. forms[i][j] \in 1 .. Base - 1 /\ v[k] = forms[i][j]
      BY <1>1, <3>1
    <3>3. 0 \in 1 .. Base - 1
      BY <1>8, <3>2 DEF Nul
    <3>4. QED
      BY <3>3
  <2>3. QED
    BY <2>1, <2>2
<1>9. ASSUME NEW i \in 1 .. N PROVE IsFiniteSet(Z(i)) /\ Cardinality(Z(i)) = i - 1
  <2> DEFINE Good == {m \in Nat : m < N =>
                         IsFiniteSet(Z(m + 1)) /\ Cardinality(Z(m + 1)) = m}
  <2>1. 0 \in Good
    <3>1. 1 \in 1 .. N /\ 0 + 1 = 1
      BY <1>1
    <3>2. Z(1) = {}
      <4>1. ASSUME NEW k \in Z(1) PROVE FALSE
        <5>1. k <= b[1] /\ k \in 1 .. e(1)
          BY <1>8, <3>1, <4>1
        <5>2. e(1) \in Nat
          BY <1>3, <3>1
        <5>3. QED
          BY <1>1, <5>1, <5>2
      <4>2. QED
        BY <4>1
    <3> HIDE DEF Z
    <3>3. IsFiniteSet(Z(0 + 1)) /\ Cardinality(Z(0 + 1)) = 0
      BY <3>1, <3>2, FS_EmptySet
    <3>4. QED
      BY <3>3
  <2>2. ASSUME NEW m \in Good PROVE m + 1 \in Good
    <3>1. ASSUME m + 1 < N
          PROVE  IsFiniteSet(Z((m + 1) + 1)) /\ Cardinality(Z((m + 1) + 1)) = m + 1
      <4> DEFINE k == m + 1
      <4>1. m \in Nat /\ m < N /\ k \in 1 .. N - 1
        BY <1>1, <3>1
      <4>2. IsFiniteSet(Z(k)) /\ Cardinality(Z(k)) = m
        BY <4>1
      <4> HIDE DEF k
      <4>3. /\ k \in 1 .. N /\ k + 1 \in 1 .. N
            /\ e(k + 1) = e(k) + 1 + Len(forms[k + 1]) /\ b[k + 1] = e(k) + 1
            /\ e(k) \in Nat /\ e(k + 1) \in Nat /\ Len(forms[k + 1]) \in Nat
            /\ v[b[k + 1]] = Nul
        BY <1>3, <1>5, <1>7, <4>1
      <4>4. Z(k + 1) = Z(k) \cup {e(k) + 1}
        <5>1. ASSUME NEW x \in Z(k + 1) PROVE x \in Z(k) \cup {e(k) + 1}
          <6>1. x \in 1 .. e(k + 1) /\ v[x] = Nul
            BY <5>1
          <6>2. x <= e(k) + 1
            BY <1>8, <4>3, <6>1
          <6>3. x \in 1 .. e(k) \/ x = e(k) + 1
            BY <4>3, <6>1, <6>2
          <6>4. QED
            BY <6>1, <6>3
        <5>2. ASSUME NEW x \in Z(k) PROVE x \in Z(k + 1)
          <6>1. x \in 1 .. e(k) /\ v[x] = Nul
            BY <5>2
          <6>2. x \in 1 .. e(k + 1)
            BY <4>3, <6>1
          <6>3. QED
            BY <6>1, <6>2
        <5>3. e(k) + 1 \in Z(k + 1)
          <6>1. e(k) + 1 \in 1 .. e(k + 1)
            BY <4>3
          <6>2. QED
            BY <4>3, <6>1
        <5> HIDE DEF Z
        <5>4. QED
          BY <5>1, <5>2, <5>3
      <4>5. e(k) + 1 \notin Z(k)
        BY <4>3
      <4> HIDE DEF Z
      <4>6. IsFiniteSet(Z(k + 1)) /\ Cardinality(Z(k + 1)) = Cardinality(Z(k)) + 1
        <5> DEFINE S == Z(k)
                   x == e(k) + 1
        <5>1. IsFiniteSet(S) /\ x \notin S /\ Z(k + 1) = S \cup {x}
          BY <4>2, <4>4, <4>5
        <5> HIDE DEF S, x
        <5>2. /\ IsFiniteSet(S \cup {x})
              /\ Cardinality(S \cup {x}) =
                    IF x \in S THEN Cardinality(S) ELSE Cardinality(S) + 1
          BY <5>1, FS_AddElement
        <5>3. QED
          BY <5>1, <5>2 DEF S
      <4>7. QED
        BY <4>2, <4>6 DEF k
    <3> HIDE DEF Z
    <3>2. QED
      BY <3>1
  <2>3. Good \in SUBSET Nat
    OBVIOUS
  <2> HIDE DEF Good
  <2>4. i - 1 \in Nat /\ i - 1 < N /\ (i - 1) + 1 = i
    BY <1>1
  <2>5. i - 1 \in Good
    BY <2>1, <2>2, <2>3, <2>4, InductionOverNat
  <2> HIDE DEF Z
  <2>6. IsFiniteSet(Z((i - 1) + 1)) /\ Cardinality(Z((i - 1) + 1)) = i - 1
    BY <2>4, <2>5 DEF Good
  <2>7. QED
    BY <2>4, <2>6
<1>10. Cardinality(Zeros(v)) = N - 1
  <2>1. Zeros(v) = Z(N)
    BY <1>1, <1>4 DEF Zeros
  <2>2. N \in 1 .. N
    BY <1>1
  <2> HIDE DEF Z
  <2>3. QED
    BY <1>9, <2>1, <2>2
<1>11. QED
  BY <1>3, <1>4, <1>6, <1>7, <1>10 DEF N, L, e


(* What is left of a value when the forms ahead of one are cut off, and the  *)
(* cut itself                                                                *)
Rest(v, b, i) == SubSeq(v, b[i] + 1, Len(v))

Cut(str) == SubSeq(str, Min(Zeros(str)) + 1, Len(str))

LEMMA SuffixFacts ==
    ASSUME NEW v \in Seq(ByteValues), NEW forms \in Seq(Seq(1 .. Base - 1)),
           Len(forms) \in Nat \ {0}, NEW b, Joined(v, b, forms),
           NEW i \in 1 .. Len(forms)
    PROVE  /\ UpToZero(Rest(v, b, i)) = forms[i]
           /\ i < Len(forms) => Cut(Rest(v, b, i)) = Rest(v, b, i + 1)
<1> DEFINE N == Len(forms)
           L == Len(v)
           p == b[i]
           w == forms[i]
           t == SubSeq(v, p + 1, L)
<1>1. /\ N \in Nat \ {0} /\ L \in Nat /\ p \in Nat /\ Len(w) \in Nat
      /\ p + Len(w) <= L /\ i \in 1 .. N
      /\ i < N => /\ b[i + 1] = p + Len(w) + 1 /\ b[i + 1] \in 1 .. L
                  /\ v[b[i + 1]] = Nul
  <2>1. i \in 1 .. N /\ (i < N => i \in 1 .. N - 1)
    OBVIOUS
  <2>2. QED
    BY <2>1, JoinedFacts
<1>2. /\ w \in Seq(1 .. Base - 1)
      /\ \A j \in 1 .. Len(w) : w[j] \in 1 .. Base - 1 /\ v[p + j] = w[j]
      /\ L = b[N] + Len(forms[N])
  BY ElementOfSeq DEF Joined
<1>3. \A j \in 1 .. L : v[j] \in ByteValues
  BY ElementOfSeq
<1> HIDE DEF L, p
<1>4. /\ t \in Seq(ByteValues) /\ Len(t) = L - p
      /\ \A j \in 1 .. L - p : t[j] = v[p + j]
  <2> DEFINE m == p + 1
  <2>1. m \in Int /\ L \in Int /\ \A j \in m .. L : v[j] \in ByteValues
    BY <1>1, <1>3
  <2> DEFINE u == SubSeq(v, m, L)
  <2> HIDE DEF m
  <2>2. /\ u \in Seq(ByteValues) /\ Len(u) = IF m <= L THEN L - m + 1 ELSE 0
        /\ \A j \in 1 .. L - m + 1 : u[j] = v[m + j - 1]
    BY <2>1, SubSeqProperties
  <2>3. t = u
    BY DEF m
  <2> HIDE DEF u, t
  <2>4. Len(u) = L - p /\ L - m + 1 = L - p
    BY <1>1, <2>2 DEF m
  <2>5. ASSUME NEW j \in 1 .. L - p PROVE u[j] = v[p + j]
    <3>1. m + j - 1 = p + j
      BY <1>1 DEF m
    <3>2. QED
      BY <2>2, <2>4, <3>1
  <2>6. QED
    BY <2>2, <2>3, <2>4, <2>5
<1> HIDE DEF t, w, N
<1>5. \A j \in 1 .. Len(w) : j \in 1 .. L - p /\ t[j] = w[j] /\ t[j] # Nul
  <2>1. ASSUME NEW j \in 1 .. Len(w) PROVE j \in 1 .. L - p
    BY <1>1
  <2>2. ASSUME NEW j \in 1 .. Len(w) PROVE t[j] = w[j] /\ w[j] \in 1 .. Base - 1
    BY <1>2, <1>4, <2>1
  <2>3. 0 \notin 1 .. Base - 1
    OBVIOUS
  <2>4. QED
    BY <2>1, <2>2, <2>3 DEF Nul
<1>6. DOMAIN t = 1 .. L - p
  BY <1>4
<1>7. ASSUME i < N
      PROVE  /\ Len(w) + 1 \in 1 .. L - p
             /\ Zeros(t) # {} /\ Min(Zeros(t)) = Len(w) + 1
  <2>1. Len(w) + 1 \in 1 .. L - p /\ p + (Len(w) + 1) = b[i + 1]
    BY <1>1, <1>7
  <2>2. t[Len(w) + 1] = Nul
    BY <1>1, <1>4, <1>7, <2>1
  <2>3. Zeros(t) \in SUBSET (1 .. L - p) /\ Len(w) + 1 \in Zeros(t)
    BY <1>6, <2>1, <2>2 DEF Zeros
  <2>4. ASSUME NEW m \in 1 .. (Len(w) + 1) - 1 PROVE m \notin Zeros(t)
    <3>1. m \in 1 .. Len(w)
      BY <1>1
    <3>2. QED
      BY <1>5, <3>1 DEF Zeros
  <2>5. L - p \in Nat
    BY <1>1
  <2>6. Zeros(t) # {} /\ Min(Zeros(t)) = Len(w) + 1
    BY <2>3, <2>4, <2>5, FirstIsMin
  <2>7. QED
    BY <2>1, <2>6
<1>8. ASSUME i = N PROVE Zeros(t) = {} /\ L - p = Len(w)
  <2>1. L - p = Len(w)
    BY <1>1, <1>2, <1>8 DEF N, p, w
  <2>2. QED
    BY <1>5, <1>6, <2>1 DEF Zeros
<1>9. UpToZero(t) = w
  <2>1. CASE i = N
    <3>1. UpToZero(t) = t
      BY <1>8, <2>1 DEF UpToZero
    <3>2. Len(t) = Len(w) /\ \A j \in 1 .. Len(t) : t[j] = w[j]
      BY <1>4, <1>5, <1>8, <2>1
    <3>3. w \in Seq(ByteValues)
      <4>1. \A j \in 1 .. Len(w) : w[j] \in ByteValues
        BY <1>3, <1>4, <1>5, <3>2, ElementOfSeq
      <4> DEFINE n == Len(w)
      <4>2. n \in Nat /\ w = [j \in 1 .. n |-> w[j]] /\ \A j \in 1 .. n : w[j] \in ByteValues
        BY <1>2, <4>1
      <4> HIDE DEF n
      <4>3. w \in [1 .. n -> ByteValues]
        BY <4>2, Zenon
      <4>4. QED
        BY <4>2, <4>3
    <3>4. t = w
      BY <1>4, <3>2, <3>3, SeqEqual
    <3>5. QED
      BY <3>1, <3>4
  <2>2. CASE i # N
    <3>1. i < N
      BY <1>1, <2>2
    <3>2. UpToZero(t) = SubSeq(t, 1, (Len(w) + 1) - 1)
      BY <1>7, <3>1 DEF UpToZero
    <3>3. (Len(w) + 1) - 1 = Len(w)
      BY <1>1
    <3> DEFINE u == SubSeq(t, 1, Len(w))
    <3>4. /\ u \in Seq(1 .. Base - 1) /\ Len(u) = IF 1 <= Len(w) THEN Len(w) - 1 + 1 ELSE 0
          /\ \A j \in 1 .. Len(w) - 1 + 1 : u[j] = t[1 + j - 1]
      <4>1. \A j \in 1 .. Len(w) : t[j] \in 1 .. Base - 1
        BY <1>2, <1>5
      <4>2. 1 \in Int /\ Len(w) \in Int
        BY <1>1
      <4>3. QED
        BY <4>1, <4>2, SubSeqProperties
    <3> HIDE DEF u
    <3>5. Len(u) = Len(w)
      BY <1>1, <3>4
    <3>6. ASSUME NEW j \in 1 .. Len(u) PROVE u[j] = w[j]
      <4>1. j \in 1 .. Len(w) - 1 + 1 /\ 1 + j - 1 = j /\ j \in 1 .. Len(w)
        BY <1>1, <3>5
      <4>2. QED
        BY <1>5, <3>4, <4>1
    <3>7. u = w
      BY <1>2, <3>4, <3>5, <3>6, SeqEqual
    <3>8. QED
      BY <3>2, <3>3, <3>7 DEF u
  <2>3. QED
    BY <2>1, <2>2
<1>10. ASSUME i < N
       PROVE  SubSeq(t, Min(Zeros(t)) + 1, Len(t)) = SubSeq(v, b[i + 1] + 1, L)
  <2> DEFINE c == Len(w) + 2
             d == b[i + 1] + 1
             l1 == L - p
             u1 == SubSeq(t, c, l1)
             u2 == SubSeq(v, d, L)
  <2>1. Min(Zeros(t)) + 1 = c /\ Len(t) = l1
    BY <1>1, <1>4, <1>7, <1>10
  <2>2. /\ c \in Int /\ d \in Int /\ l1 \in Int /\ L \in Int
        /\ p + c = d /\ c >= 1 /\ d >= 1 /\ c <= l1 + 1 /\ d <= L + 1
    BY <1>1, <1>7, <1>10
  <2>3. \A j \in c .. l1 : t[j] \in ByteValues
    BY <1>4, <2>2, ElementOfSeq
  <2>4. \A j \in d .. L : v[j] \in ByteValues
    BY <1>3, <2>2
  <2>5. p \in Nat
    BY <1>1
  <2>6. \A j \in 1 .. l1 : t[j] = v[p + j]
    BY <1>4
  <2>12. l1 = L - p
    OBVIOUS
  <2> HIDE DEF c, d, l1
  <2>7. /\ u1 \in Seq(ByteValues) /\ Len(u1) = IF c <= l1 THEN l1 - c + 1 ELSE 0
        /\ \A j \in 1 .. l1 - c + 1 : u1[j] = t[c + j - 1]
    BY <2>2, <2>3, SubSeqProperties
  <2>8. /\ u2 \in Seq(ByteValues) /\ Len(u2) = IF d <= L THEN L - d + 1 ELSE 0
        /\ \A j \in 1 .. L - d + 1 : u2[j] = v[d + j - 1]
    BY <2>2, <2>4, SubSeqProperties
  <2> HIDE DEF u1, u2
  <2>9. Len(u1) = l1 - c + 1 /\ Len(u2) = l1 - c + 1 /\ L - d + 1 = l1 - c + 1
    BY <2>2, <2>5, <2>7, <2>8, <2>12
  <2>10. ASSUME NEW j \in 1 .. Len(u1) PROVE u1[j] = u2[j]
    <3>1. /\ j \in 1 .. l1 - c + 1 /\ j \in 1 .. L - d + 1
          /\ c + j - 1 \in 1 .. l1 /\ p + (c + j - 1) = d + j - 1
      BY <2>2, <2>5, <2>9, <2>12
    <3>2. QED
      BY <2>6, <2>7, <2>8, <3>1
  <2>11. u1 = u2
    BY <2>7, <2>8, <2>9, <2>10, SeqEqual
  <2>13. QED
    BY <2>1, <2>11 DEF u1, u2, d
<1>11. QED
  BY <1>9, <1>10 DEF Rest, Cut, t, w, p, L, N


(* The recursive function in Form                                            *)
CutLoop(cur, str, sub) ==
    cur = [k \in 0 .. sub |->
             IF k = 0 THEN str ELSE Cut(cur[k - 1])]

(* The index of a form leads to the form, and any other to the first.        *)
LEMMA FormOfValue ==
    ASSUME NEW entry \in Entries, NEW sub \in Int
    PROVE  Form(Value(entry), sub) =
               IF sub \in 0 .. Len(entry.forms) - 1 THEN entry.forms[sub + 1]
               ELSE entry.forms[1]
<1> DEFINE v == Value(entry)
           forms == entry.forms
           N == Len(forms)
           L == Len(v)
           cur == CHOOSE f : CutLoop(f, v, sub)
<1>1. v \in Seq(ByteValues)
  BY ValueTypes
<1>2. forms \in Seq(Seq(1 .. Base - 1)) /\ N \in Nat \ {0}
  BY ValueJoins
<1>3. PICK b : Joined(v, b, forms)
  BY ValueJoins
<1>4. Form(v, sub) = UpToZero(IF sub \in 0 .. Cardinality(Zeros(v)) THEN cur[sub] ELSE v)
  BY DEF Form, CutLoop, Cut
<1> HIDE DEF v, forms
<1> DEFINE rest(i) == Rest(v, b, i)
<1>5. /\ Cardinality(Zeros(v)) = N - 1
      /\ \A i \in 1 .. N : b[i] \in Nat
      /\ L \in Nat /\ b[1] = 0
  BY <1>1, <1>2, <1>3, JoinedFacts DEF Joined
<1>6. \A i \in 1 .. N : /\ UpToZero(rest(i)) = forms[i]
                        /\ i < N => Cut(rest(i)) = rest(i + 1)
  BY <1>1, <1>2, <1>3, SuffixFacts
<1>7. rest(1) = v
  BY <1>1, <1>5, SubSeqFull DEF Rest
<1> HIDE DEF rest, N, L
<1>8. CASE sub \in 0 .. N - 1
  <2>1. \A k \in 0 .. sub : k + 1 \in 1 .. N /\ (k # 0 => k \in 1 .. N /\ k < N /\ k - 1 \in 0 .. sub)
    BY <1>2, <1>8
  <2> DEFINE g == [k \in 0 .. sub |-> rest(k + 1)]
  <2>2. ASSUME NEW k \in 0 .. sub
        PROVE  g[k] = IF k = 0 THEN v
                      ELSE Cut(g[k - 1])
    <3>1. CASE k = 0
      BY <1>7, <3>1
    <3>2. CASE k # 0
      <4>1. k \in 1 .. N /\ k < N /\ k - 1 \in 0 .. sub /\ (k - 1) + 1 = k
        BY <2>1, <3>2
      <4>2. g[k - 1] = rest(k) /\ g[k] = rest(k + 1)
        BY <4>1
      <4>3. Cut(rest(k)) = rest(k + 1)
        BY <1>6, <4>1
      <4> HIDE DEF g
      <4>4. QED
        BY <3>2, <4>2, <4>3
    <3>3. QED
      BY <3>1, <3>2
  <2>3. CutLoop(g, v, sub)
    <3>1. g = [k \in 0 .. sub |-> g[k]]
      OBVIOUS
    <3> HIDE DEF g
    <3>2. g = [k \in 0 .. sub |->
                 IF k = 0 THEN v
                 ELSE Cut(g[k - 1])]
      BY <2>2, <3>1, Zenon
    <3>3. QED
      BY <3>2, Zenon DEF CutLoop
  <2> HIDE DEF g
  <2>4. CutLoop(cur, v, sub)
    BY <2>3, Zenon
  <2> HIDE DEF cur
  <2>5. \A k \in 0 .. sub :
           cur[k] = IF k = 0 THEN v
                    ELSE Cut(cur[k - 1])
    BY <2>4, Zenon DEF CutLoop
  <2> DEFINE Good == {m \in Nat : m <= sub => cur[m] = rest(m + 1)}
  <2>6. 0 \in Good
    <3>1. 0 \in 0 .. sub
      BY <1>8
    <3>2. cur[0] = v /\ 0 + 1 = 1
      BY <2>5, <3>1
    <3>3. QED
      BY <1>7, <3>2
  <2>7. ASSUME NEW m \in Good PROVE m + 1 \in Good
    <3>1. ASSUME m + 1 <= sub PROVE cur[m + 1] = rest((m + 1) + 1)
      <4>1. m <= sub /\ m + 1 \in 0 .. sub /\ m + 1 # 0 /\ (m + 1) - 1 = m
        BY <1>8, <3>1
      <4>2. cur[m] = rest(m + 1)
        BY <4>1
      <4>3. m + 1 \in 1 .. N /\ m + 1 < N
        BY <2>1, <4>1
      <4>4. Cut(rest(m + 1)) = rest((m + 1) + 1)
        BY <1>6, <4>3
      <4>5. cur[m + 1] = Cut(cur[m])
        BY <2>5, <4>1
      <4>6. QED
        BY <4>2, <4>4, <4>5
    <3>2. QED
      BY <3>1
  <2>8. Good \in SUBSET Nat
    OBVIOUS
  <2> HIDE DEF Good
  <2>9. sub \in Nat /\ sub <= sub
    BY <1>8
  <2>10. sub \in Good
    BY <2>6, <2>7, <2>8, <2>9, InductionOverNat
  <2>11. cur[sub] = rest(sub + 1)
    BY <2>9, <2>10 DEF Good
  <2>12. sub + 1 \in 1 .. N
    BY <2>1, <2>9
  <2>13. Form(v, sub) = forms[sub + 1]
    BY <1>4, <1>5, <1>6, <1>8, <2>11, <2>12
  <2>14. QED
    BY <1>8, <2>13 DEF v, forms, N
<1>9. CASE sub \notin 0 .. N - 1
  <2>1. Form(v, sub) = UpToZero(v)
    BY <1>4, <1>5, <1>9
  <2>2. 1 \in 1 .. N
    BY <1>2
  <2>3. UpToZero(v) = forms[1]
    BY <1>6, <1>7, <2>2
  <2>4. QED
    BY <1>9, <2>1, <2>3 DEF v, forms, N
<1>10. QED
  BY <1>8, <1>9

LEMMA InvIndexFindsForm ==
    ASSUME IInv
    PROVE  IndexFindsForm
<1> SUFFICES ASSUME rpc = "open", NEW n \in DOMAIN origin.strings, NEW sub \in -1 .. 3,
                    IsFirst(origin.strings, n)
             PROVE  LET forms == origin.strings[n].forms IN
                    Form(String(strings, origin.strings[n].id), sub) =
                        IF sub \in 0 .. Len(forms) - 1 THEN forms[sub + 1] ELSE forms[1]
  BY DEF IndexFindsForm
<1> DEFINE block == origin.strings
<1>1. block \in Blocks /\ IsBlock(strings, block)
  BY OpenSections
<1>2. block[n] \in Entries /\ sub \in Int
  BY <1>1 DEF Blocks
<1>3. String(strings, block[n].id) = Value(block[n])
  BY <1>1, HoldsBlock DEF Holds
<1> HIDE DEF block
<1>4. Form(Value(block[n]), sub) =
          IF sub \in 0 .. Len(block[n].forms) - 1 THEN block[n].forms[sub + 1]
          ELSE block[n].forms[1]
  BY <1>2, FormOfValue
<1>5. QED
  BY <1>3, <1>4 DEF block

(* Whatever the catalogue: in a file that is open every string is found      *)
(* under its identifier, every key leads to its string, and the index of a   *)
(* plural finds its own form and never a part of another string              *)
(* (lang_file::get_string, get_key, find_key against app::file::write).      *)
THEOREM WhatIsReadWasWritten == Spec => []ReadsBack
<1>1. IInv => ReadsBack
  BY InvReadsWhat, InvKeysAreFound, InvIndexFindsForm DEF ReadsBack
<1>2. QED
  BY InvInit, InvStep, <1>1, PTL DEF Spec



------------------------------------------------------------------------------
(* Words that are taken apart and put together again *)

(* What is left of a word without its n least digits                         *)
Remaining(x, n) ==
    LET rest[k \in 0 .. n] == IF k = 0 THEN x ELSE rest[k - 1] \div Base
    IN rest[n]

LEMMA RestLoopSteps ==
    ASSUME NEW x \in Nat, NEW n \in Nat, NEW rest, RestLoop(rest, x, n)
    PROVE  /\ rest[0] = x
           /\ \A k \in 0 .. n : k # 0 => rest[k] = rest[k - 1] \div Base
<1>1. \A k \in 0 .. n : rest[k] = IF k = 0 THEN x ELSE rest[k - 1] \div Base
  BY Zenon DEF RestLoop
<1>2. 0 \in 0 .. n
  OBVIOUS
<1>3. QED
  BY <1>1, <1>2, Zenon

LEMMA RemainingLoop ==
    ASSUME NEW x \in Nat, NEW n \in Nat
    PROVE  \E rest : RestLoop(rest, x, n) /\ Remaining(x, n) = rest[n]
<1> DEFINE rest == CHOOSE f : RestLoop(f, x, n)
<1>1. RestLoop(rest, x, n)
  <2>1. \E f : RestLoop(f, x, n)
    BY RestLoopExists
  <2>2. QED
    BY <2>1, Zenon
<1>2. Remaining(x, n) = rest[n]
  BY DEF Remaining, RestLoop
<1>3. QED
  BY <1>1, <1>2, Zenon

(* A digit less is left, whichever loop it is taken off in.                  *)
LEMMA RemainingSteps ==
    ASSUME NEW x \in Nat
    PROVE  /\ Remaining(x, 0) = x
           /\ \A n \in Nat : /\ Remaining(x, n) \in Nat
                             /\ Remaining(x, n + 1) = Remaining(x, n) \div Base
<1>1. ASSUME NEW n \in Nat
      PROVE  /\ Remaining(x, n + 1) = Remaining(x, n) \div Base
  <2>1. PICK long : RestLoop(long, x, n + 1) /\ Remaining(x, n + 1) = long[n + 1]
    BY RemainingLoop
  <2>2. PICK short : RestLoop(short, x, n) /\ Remaining(x, n) = short[n]
    BY RemainingLoop
  <2>3. /\ long[0] = x
        /\ \A k \in 0 .. n + 1 : k # 0 => long[k] = long[k - 1] \div Base
    BY <2>1, RestLoopSteps
  <2>4. /\ short[0] = x
        /\ \A k \in 0 .. n : k # 0 => short[k] = short[k - 1] \div Base
    BY <2>2, RestLoopSteps
  <2> DEFINE Good == {k \in Nat : k <= n => long[k] = short[k]}
  <2>5. 0 \in Good
    BY <2>3, <2>4
  <2>6. ASSUME NEW k \in Good PROVE k + 1 \in Good
    <3>1. ASSUME k + 1 <= n PROVE long[k + 1] = short[k + 1]
      <4>1. k \in Nat /\ long[k] = short[k]
        BY <3>1
      <4>2. /\ k + 1 \in 0 .. n + 1 /\ k + 1 \in 0 .. n /\ k + 1 # 0
            /\ k + 1 - 1 = k
        BY <3>1, <4>1
      <4>3. long[k + 1] = long[k] \div Base /\ short[k + 1] = short[k] \div Base
        BY <2>3, <2>4, <4>2
      <4>4. QED
        BY <4>1, <4>3
    <3>2. QED
      BY <3>1
  <2>7. n \in Good
    BY <2>5, <2>6, InductionOverNat
  <2>8. n + 1 \in 0 .. n + 1 /\ n + 1 # 0 /\ n + 1 - 1 = n
    OBVIOUS
  <2>9. long[n + 1] = long[n] \div Base
    BY <2>3, <2>8
  <2>10. QED
    BY <2>1, <2>2, <2>7, <2>9
<1>2. Remaining(x, 0) = x
  <2>1. PICK rest : RestLoop(rest, x, 0) /\ Remaining(x, 0) = rest[0]
    BY RemainingLoop
  <2>2. QED
    BY <2>1, RestLoopSteps
<1> DEFINE Good == {n \in Nat : Remaining(x, n) \in Nat}
<1>3. 0 \in Good
  BY <1>2
<1>4. ASSUME NEW n \in Good PROVE n + 1 \in Good
  <2>1. n \in Nat /\ Remaining(x, n) \in Nat /\ Base \in Nat \ {0}
    BY LngFileAssumption
  <2>2. Remaining(x, n + 1) = Remaining(x, n) \div Base
    BY <1>1, <2>1
  <2>3. \A y \in Nat : y \div Base \in Nat
    BY <2>1, Division
  <2>4. QED
    BY <2>1, <2>2, <2>3
<1>5. \A n \in Nat : n \in Good
  BY <1>3, <1>4, InductionOverNat
<1>6. QED
  BY <1>1, <1>2, <1>5

(* Bytes that are the digits of words, least digit first, pack into them.    *)
LEMMA PackOfDigits ==
    ASSUME NEW words \in Seq(Nat), NEW bytes \in Seq(ByteValues),
           Len(bytes) = Len(words) * WordSize,
           \A w \in 1 .. Len(words) :
              /\ Remaining(words[w], WordSize) = 0
              /\ \A k \in 1 .. WordSize :
                   bytes[(w - 1) * WordSize + k] = Remaining(words[w], k - 1) % Base
    PROVE  Pack(bytes) = words
<1> DEFINE len == Len(words)
<1>1. /\ WordSize \in Nat \ {0} /\ Base \in Nat \ {0}
      /\ len \in Nat /\ Len(bytes) \in Nat
  BY LngFileAssumption
<1>2. (Len(bytes) + WordSize - 1) \div WordSize = len
  <2>1. \A y \in Nat, d \in 0 .. WordSize - 1 : (y * WordSize + d) \div WordSize = y
    BY <1>1, LastDigit
  <2>2. WordSize - 1 \in 0 .. WordSize - 1
    BY <1>1
  <2>3. (len * WordSize + (WordSize - 1)) \div WordSize = len
    BY <1>1, <2>1, <2>2
  <2>4. len * WordSize + (WordSize - 1) = Len(bytes) + WordSize - 1
    BY <1>1
  <2>5. QED
    BY <2>3, <2>4
<1>3. ASSUME NEW w \in 1 .. len PROVE Word(bytes, w) = words[w]
  <2> DEFINE x == words[w]
             digits == CHOOSE d : WordLoop(d, bytes, w)
             base == (w - 1) * WordSize
  <2>1. x \in Nat /\ w \in Nat \ {0}
    BY <1>1
  <2>2. WordLoop(digits, bytes, w)
    <3>1. \E d : WordLoop(d, bytes, w)
      BY <2>1, WordLoopExists
    <3>2. QED
      BY <3>1, Zenon
  <2>3. Word(bytes, w) = digits[WordSize]
    BY DEF Word, WordLoop
  <2> HIDE DEF digits
  <2>4. /\ digits[0] = 0
        /\ \A k \in 1 .. WordSize :
             digits[k] = digits[k - 1] * Base + Padded(bytes, w * WordSize + 1 - k)
    <3>1. \A k \in 0 .. WordSize :
             digits[k] = IF k = 0 THEN 0
                         ELSE digits[k - 1] * Base + Padded(bytes, w * WordSize + 1 - k)
      BY <2>2, Zenon DEF WordLoop
    <3>2. 0 \in 0 .. WordSize /\ \A k \in 1 .. WordSize : k \in 0 .. WordSize /\ k # 0
      BY <1>1
    <3>3. QED
      BY <3>1, <3>2, Zenon
  <2>5. /\ base \in Nat /\ w * WordSize = base + WordSize
        /\ base + WordSize <= Len(bytes)
    <3>1. \A y \in Nat : y * WordSize \in Nat /\ (y + 1) * WordSize = y * WordSize + WordSize
      BY <1>1
    <3>2. w - 1 \in Nat /\ w = (w - 1) + 1 /\ len - w \in Nat /\ len = w + (len - w)
      BY <1>1, <2>1
    <3>3. base \in Nat /\ w * WordSize = base + WordSize
      BY <3>1, <3>2
    <3>4. \A y \in Nat : (w + y) * WordSize = w * WordSize + y * WordSize
      BY <1>1, <2>1
    <3>5. len * WordSize = w * WordSize + (len - w) * WordSize /\ (len - w) * WordSize \in Nat
      BY <3>1, <3>2, <3>4
    <3>6. QED
      BY <1>1, <3>3, <3>5
  <2>6. ASSUME NEW j \in 1 .. WordSize
        PROVE  Padded(bytes, base + j) = Remaining(x, j - 1) % Base
    <3>1. base + j <= Len(bytes)
      BY <1>1, <2>5
    <3>2. Padded(bytes, base + j) = bytes[base + j]
      BY <3>1 DEF Padded
    <3>3. QED
      BY <3>2
  <2> HIDE DEF base, x
  <2>7. Remaining(x, WordSize) = 0
    BY DEF x
  <2> DEFINE Good == {k \in Nat : k <= WordSize => digits[k] = Remaining(x, WordSize - k)}
  <2>8. 0 \in Good
    BY <1>1, <2>4, <2>7
  <2>9. ASSUME NEW k \in Good PROVE k + 1 \in Good
    <3>1. ASSUME k + 1 <= WordSize
          PROVE  digits[k + 1] = Remaining(x, WordSize - (k + 1))
      <4> DEFINE j == WordSize - k
                 r == Remaining(x, j - 1)
      <4>1. k \in Nat /\ digits[k] = Remaining(x, WordSize - k)
        BY <1>1, <3>1
      <4>2. /\ j \in 1 .. WordSize /\ j - 1 \in Nat /\ j = (j - 1) + 1
            /\ w * WordSize + 1 - (k + 1) = base + j
            /\ k + 1 \in 1 .. WordSize /\ k + 1 - 1 = k
            /\ WordSize - (k + 1) = j - 1
        BY <1>1, <2>1, <2>5, <3>1, <4>1
      <4> HIDE DEF j
      <4>3. r \in Nat /\ Remaining(x, j) = r \div Base
        <5>1. /\ Remaining(x, j - 1) \in Nat
              /\ Remaining(x, (j - 1) + 1) = Remaining(x, j - 1) \div Base
          BY <2>1, <4>2, RemainingSteps
        <5>2. QED
          BY <4>2, <5>1
      <4>4. digits[k + 1] = digits[k] * Base + Padded(bytes, base + j)
        BY <2>4, <4>2
      <4>5. Padded(bytes, base + j) = r % Base
        BY <2>6, <4>2
      <4>6. digits[k] = r \div Base
        BY <4>1, <4>3 DEF j
      <4> HIDE DEF r
      <4>7. digits[k + 1] = r
        BY <1>1, <4>3, <4>4, <4>5, <4>6, Division
      <4>8. QED
        BY <4>2, <4>7 DEF r
    <3>2. QED
      BY <3>1
  <2>10. WordSize \in Good
    BY <1>1, <2>8, <2>9, InductionOverNat
  <2>11. digits[WordSize] = Remaining(x, 0)
    BY <1>1, <2>10
  <2>12. QED
    BY <2>1, <2>3, <2>11, RemainingSteps DEF x
<1>4. Pack(bytes) = [w \in 1 .. len |-> Word(bytes, w)]
  BY <1>2 DEF Pack
<1>5. words = [w \in 1 .. len |-> words[w]]
  OBVIOUS
<1>6. QED
  BY <1>3, <1>4, <1>5

==============================================================================
