--------------------------- MODULE NodeMapProofs ---------------------------
(***************************************************************************)
(* The fields of a compact_vector, and the memory of expand made of them,  *)
(* for every number of bits of a word, of a field and of an id, and every  *)
(* capacity.                                                               *)
(*                                                                         *)
(* Bit p of a vector is bit p % W of its word p \div W + 1.  A field is a  *)
(* range of bits (FieldIsBits), writing it changes the bits of that range  *)
(* and no others (SetFieldBits), and ranges of two fields are disjoint     *)
(* (FieldsApart).                                                          *)
(***************************************************************************)
EXTENDS NodeMap, SequenceTheorems, TLAPS

HasBit(v, p) == p % W \in v.words[p \div W + 1]

\* The words that fields of v lie in are there, and have no bit behind the last.
Formed(v, size, width) ==
  /\ v = [size |-> v.size, width |-> v.width, words |-> v.words]
  /\ v.size = size /\ v.width = width
  /\ v.words \in Seq(Word) /\ Len(v.words) = WordsFor(size * width)
  /\ \A k \in DOMAIN v.words, b \in 0 .. W - 1 :
       b \in v.words[k] => (k - 1) * W + b < size * width

----------------------------------------------------------------------------
(* Places of bits *)

LEMMA Divided ==
  ASSUME NEW p \in Nat
  PROVE  /\ p \div W \in Nat /\ p % W \in 0 .. W - 1
         /\ p = ((p \div W) * W) + (p % W)
  BY WordAssumption

LEMMA Undivided ==
  ASSUME NEW q \in Nat, NEW r \in 0 .. W - 1
  PROVE  (q * W + r) \div W = q /\ (q * W + r) % W = r
  BY WordAssumption

LEMMA ProductLE ==
  ASSUME NEW i \in Nat, NEW j \in Nat, NEW w \in Nat, i <= j
  PROVE  i * w <= j * w /\ i * w \in Nat /\ j * w \in Nat
<1>1. PICK d \in Nat : j = i + d
  <2>1. j - i \in Nat
    OBVIOUS
  <2>. QED
    BY <2>1
<1>2. d * w \in Nat /\ i * w \in Nat /\ (i + d) * w = i * w + d * w
  OBVIOUS
<1>. QED
  BY <1>1, <1>2

\* Field i ends before field j begins.
LEMMA FieldsApart ==
  ASSUME NEW i \in Nat, NEW j \in Nat, NEW w \in Nat, i < j
  PROVE  i * w + w <= j * w /\ i * w \in Nat /\ j * w \in Nat
<1>1. (i + 1) * w <= j * w
  BY ProductLE
<1>2. (i + 1) * w = i * w + w
  OBVIOUS
<1>. QED
  BY <1>1, <1>2, ProductLE

\* There are as many words as it takes.
LEMMA WordsEnough ==
  ASSUME NEW bits \in Nat, NEW p \in 0 .. bits - 1
  PROVE  WordsFor(bits) \in Nat /\ p \div W + 1 \in 1 .. WordsFor(bits)
<1>1. bits + W - 1 \in Nat /\ p \in Nat
  BY WordAssumption
<1>. DEFINE q == p \div W
            l == (bits + W - 1) \div W
<1>2. q \in Nat /\ l \in Nat /\ q * W <= p /\ bits + W - 1 < (l * W) + W
  BY <1>1, Divided, WordAssumption
<1>3. q * W \in Nat /\ l * W \in Nat
  BY <1>2, WordAssumption
<1>4. q * W < l * W
  BY <1>2, <1>3, WordAssumption
<1>5. q < l
  <2>1. SUFFICES ASSUME l <= q PROVE FALSE
    BY <1>2
  <2>2. l * W <= q * W
    BY <1>2, <2>1, ProductLE, WordAssumption
  <2>. QED
    BY <1>3, <1>4, <2>2
<1>. QED
  BY <1>2, <1>5 DEF WordsFor

\* Bit p is in word a where it is bit b of that word.
LEMMA PlaceOf ==
  ASSUME NEW p \in Nat, NEW a \in Nat, NEW b \in 0 .. W - 1, p = (a * W) + b
  PROVE  p \div W = a /\ p % W = b
  BY Undivided

----------------------------------------------------------------------------
(* Fields *)

\* A field begins in a word that is there, and ends in one that is there.
LEMMA FieldPlace ==
  ASSUME NEW v, NEW size \in Nat, NEW width \in 1 .. W - 1, Formed(v, size, width),
         NEW i \in 0 .. size - 1
  PROVE  /\ i * width \in Nat /\ (i * width) + width <= size * width
         /\ QuoOf(v, i) \in 1 .. Len(v.words) /\ ModOf(v, i) \in 0 .. W - 1
         /\ QuoOf(v, i) \in Nat \ {0}
         /\ i * width = ((QuoOf(v, i) - 1) * W) + ModOf(v, i)
         /\ Straddles(v, i) <=> ModOf(v, i) + width > W
         /\ Straddles(v, i) => QuoOf(v, i) + 1 \in 1 .. Len(v.words)
<1>. DEFINE n == i * width
            bits == size * width
            a == n \div W
            m == n % W
<1>1. n \in Nat /\ bits \in Nat /\ n + width <= bits
  BY FieldsApart, WordAssumption
<1>2. QuoOf(v, i) = a + 1 /\ ModOf(v, i) = m /\ (Straddles(v, i) <=> m + width > W)
  BY DEF QuoOf, ModOf, Straddles, Formed
<1>3. a \in Nat /\ m \in 0 .. W - 1 /\ n = (a * W) + m
  BY <1>1, Divided
<1>4. Len(v.words) = WordsFor(bits)
  BY DEF Formed
<1>5. a + 1 \in 1 .. Len(v.words)
  <2>1. n \in 0 .. bits - 1
    BY <1>1, WordAssumption
  <2>. QED
    BY <1>1, <1>4, <2>1, WordsEnough
<1>6. ASSUME m + width > W
      PROVE  a + 2 \in 1 .. Len(v.words)
  <2>1. n + width - 1 \in 0 .. bits - 1 /\ n + width - 1 \in Nat
    BY <1>1, WordAssumption
  <2>2. n + width - 1 = ((a + 1) * W) + (m + width - 1 - W)
    <3>1. (a + 1) * W = (a * W) + W /\ a * W \in Nat
      BY <1>3, WordAssumption
    <3>. QED
      BY <1>1, <1>3, <3>1, WordAssumption
  <2>3. m + width - 1 - W \in 0 .. W - 1
    BY <1>3, <1>6, WordAssumption
  <2>4. (n + width - 1) \div W = a + 1
    BY <1>3, <2>1, <2>2, <2>3, PlaceOf
  <2>5. /\ WordsFor(bits) \in Nat
        /\ (n + width - 1) \div W + 1 \in 1 .. WordsFor(bits)
    BY <1>1, <2>1, WordsEnough
  <2>. QED
    BY <1>3, <1>4, <2>4, <2>5
<1>. HIDE DEF n, a, m, bits
<1>. QED
  BY <1>1, <1>2, <1>3, <1>5, <1>6 DEF n, bits

\* A bit of a field is in the word where the field begins or in the next.
LEMMA BitPlace ==
  ASSUME NEW v, NEW size \in Nat, NEW width \in 1 .. W - 1, Formed(v, size, width),
         NEW i \in 0 .. size - 1, NEW b \in 0 .. width - 1
  PROVE  HasBit(v, (i * width) + b) <=>
           \/ ModOf(v, i) + b < W /\ ModOf(v, i) + b \in v.words[QuoOf(v, i)]
           \/ /\ ~(ModOf(v, i) + b < W) /\ Straddles(v, i)
              /\ ModOf(v, i) + b - W \in v.words[QuoOf(v, i) + 1]
<1>. DEFINE n == i * width
            a == QuoOf(v, i) - 1
            m == ModOf(v, i)
            k == m + b
<1>1. /\ n \in Nat /\ a \in Nat /\ m \in 0 .. W - 1 /\ n = (a * W) + m
      /\ Straddles(v, i) <=> m + width > W
      /\ QuoOf(v, i) = a + 1
  <2>1. /\ n \in Nat /\ QuoOf(v, i) \in Nat \ {0} /\ m \in 0 .. W - 1
        /\ n = ((QuoOf(v, i) - 1) * W) + m
        /\ Straddles(v, i) <=> m + width > W
    BY FieldPlace
  <2>2. QuoOf(v, i) - 1 \in Nat /\ QuoOf(v, i) = (QuoOf(v, i) - 1) + 1
    BY <2>1
  <2>. QED
    BY <2>1, <2>2
<1>. HIDE DEF n, a, m
<1>3. CASE k < W
  <2>1. k \in 0 .. W - 1 /\ n + b \in Nat /\ n + b = (a * W) + k
    BY <1>1, <1>3, WordAssumption
  <2>2. (n + b) \div W = a /\ (n + b) % W = k
    BY <1>1, <2>1, PlaceOf
  <2>. QED
    BY <1>1, <1>3, <2>2 DEF HasBit, n, m
<1>4. CASE ~(k < W)
  <2>1. k - W \in 0 .. W - 1 /\ n + b \in Nat /\ m + width > W
    BY <1>1, <1>4, WordAssumption
  <2>2. n + b = ((a + 1) * W) + (k - W)
    <3>1. (a + 1) * W = (a * W) + W /\ a * W \in Nat
      BY <1>1, WordAssumption
    <3>. QED
      BY <1>1, <3>1, WordAssumption
  <2>3. (n + b) \div W = a + 1 /\ (n + b) % W = k - W
    BY <1>1, <2>1, <2>2, PlaceOf
  <2>4. Straddles(v, i)
    BY <1>1, <2>1
  <2>. QED
    BY <1>1, <1>4, <2>1, <2>3, <2>4, WordAssumption DEF HasBit, n, m
<1>. QED
  BY <1>3, <1>4

\* get returns the bits of the field, numbered from its beginning.
LEMMA FieldIsBits ==
  ASSUME NEW v, NEW size \in Nat, NEW width \in 1 .. W - 1, Formed(v, size, width),
         NEW i \in 0 .. size - 1
  PROVE  GetField(v, i) = {b \in 0 .. width - 1 : HasBit(v, (i * width) + b)}
<1>. DEFINE q == QuoOf(v, i)
            m == ModOf(v, i)
<1>1. /\ q \in DOMAIN v.words /\ m \in 0 .. W - 1
      /\ Straddles(v, i) => q + 1 \in DOMAIN v.words
  BY FieldPlace DEF Formed
<1>2. v.words[q] \subseteq 0 .. W - 1
  BY <1>1 DEF Formed, Word
<1>3. Straddles(v, i) => v.words[q + 1] \subseteq 0 .. W - 1
  BY <1>1 DEF Formed, Word
<1>4. ASSUME NEW b \in 0 .. width - 1
      PROVE  b \in GetField(v, i) <=> HasBit(v, (i * width) + b)
  <2>1. b \in ShiftRight(v.words[q], m) <=> m + b \in v.words[q]
    BY <1>1, <1>2, WordAssumption DEF ShiftRight
  <2>2. ASSUME Straddles(v, i)
        PROVE  b \in ShiftLeft(v.words[q + 1], W - m) <=> m + b - W \in v.words[q + 1]
    BY <1>1, <1>3, <2>2, WordAssumption DEF ShiftLeft
  <2>3. b \in LowMask(v.width)
    BY DEF LowMask, Formed
  <2>4. b \in GetField(v, i) <=>
          \/ m + b \in v.words[q]
          \/ Straddles(v, i) /\ m + b - W \in v.words[q + 1]
    BY <2>1, <2>2, <2>3 DEF GetField
  <2>5. HasBit(v, (i * width) + b) <=>
          \/ m + b < W /\ m + b \in v.words[q]
          \/ ~(m + b < W) /\ Straddles(v, i) /\ m + b - W \in v.words[q + 1]
    BY BitPlace
  <2>6. m + b \in v.words[q] => m + b < W
    BY <1>1, <1>2, WordAssumption
  <2>7. Straddles(v, i) /\ m + b - W \in v.words[q + 1] => ~(m + b < W)
    BY <1>1, <1>3, WordAssumption
  <2>. QED
    BY <2>4, <2>5, <2>6, <2>7
<1>5. GetField(v, i) \subseteq 0 .. width - 1
  BY DEF GetField, LowMask, Formed
<1>. QED
  BY <1>4, <1>5

\* u is v with x written to field i, word by word.
WordsWritten(v, u, i, x) ==
  LET q == QuoOf(v, i)
      m == ModOf(v, i)
  IN /\ u = [size |-> v.size, width |-> v.width, words |-> u.words]
     /\ u.size = v.size /\ u.width = v.width
     /\ u.words \in Seq(Word) /\ Len(u.words) = Len(v.words)
     /\ \A b \in 0 .. W - 1 :
          b \in u.words[q] <=>
            IF m <= b /\ b < m + v.width THEN b - m \in x ELSE b \in v.words[q]
     /\ Straddles(v, i) =>
          \A b \in 0 .. W - 1 :
            b \in u.words[q + 1] <=>
              IF b + W - m < v.width THEN b + W - m \in x ELSE b \in v.words[q + 1]
     /\ \A k \in DOMAIN v.words :
          k # q /\ ~(Straddles(v, i) /\ k = q + 1) => u.words[k] = v.words[k]

\* The same, bit by bit: the bits of the field are written, and no others.
BitsWritten(v, u, i, x) ==
  \A a \in Nat, b \in 0 .. W - 1 :
    a + 1 \in DOMAIN v.words =>
      LET p == ((a * W) + b) - (i * v.width)
      IN b \in u.words[a + 1] <=>
           IF p \in 0 .. v.width - 1 THEN p \in x ELSE b \in v.words[a + 1]

LEMMA SetFieldWords ==
  ASSUME NEW v, NEW size \in Nat, NEW width \in 1 .. W - 1, Formed(v, size, width),
         NEW i \in 0 .. size - 1, NEW x \in SUBSET LowMask(width)
  PROVE  WordsWritten(v, SetField(v, i, x), i, x)
<1>. DEFINE u == SetField(v, i, x)
            q == QuoOf(v, i)
            m == ModOf(v, i)
            first == (v.words[q] \ ShiftLeft(LowMask(width), m)) \cup ShiftLeft(x, m)
            second == (v.words[q + 1] \ ShiftRight(LowMask(width), W - m))
                        \cup ShiftRight(x, W - m)
            begun == [v.words EXCEPT ![q] = first]
            words == IF Straddles(v, i) THEN [begun EXCEPT ![q + 1] = second] ELSE begun
<1>1. /\ v = [size |-> size, width |-> width, words |-> v.words]
      /\ v.words \in Seq(Word) /\ x \cap LowMask(width) = x
  BY DEF Formed
<1>2. /\ q \in DOMAIN v.words /\ m \in 0 .. W - 1 /\ q # q + 1
      /\ Straddles(v, i) => q + 1 \in DOMAIN v.words
  BY FieldPlace, <1>1
<1>3. u = [size |-> size, width |-> width, words |-> words]
  <2>1. v.width = width /\ v.size = size
    BY <1>1
  <2>. QED
    BY <1>1, <1>2, <2>1 DEF SetField
<1>4. v.words[q] \in Word /\ (Straddles(v, i) => v.words[q + 1] \in Word)
  BY <1>1, <1>2
<1>5. first \in Word
  BY <1>2, <1>4, WordAssumption DEF Word, ShiftLeft, LowMask
<1>6. Straddles(v, i) => second \in Word
  BY <1>2, <1>4, WordAssumption DEF Word, ShiftRight, LowMask
<1>7. ASSUME NEW b \in 0 .. W - 1
      PROVE  b \in first <=> IF m <= b /\ b < m + width THEN b - m \in x ELSE b \in v.words[q]
  <2>1. b \in ShiftLeft(LowMask(width), m) <=> m <= b /\ b < m + width
    <3>1. LowMask(width) \subseteq Int
      BY DEF LowMask
    <3>2. b \in ShiftLeft(LowMask(width), m) <=> b - m \in LowMask(width)
      BY <1>2, <3>1, WordAssumption DEF ShiftLeft
    <3>. QED
      BY <1>2, <3>2, WordAssumption DEF LowMask
  <2>2. b \in ShiftLeft(x, m) <=> m <= b /\ b - m \in x
    BY <1>2, WordAssumption DEF ShiftLeft, LowMask
  <2>3. b - m \in x => b < m + width
    BY <1>2, WordAssumption DEF LowMask
  <2>. QED
    BY <2>1, <2>2, <2>3
<1>8. ASSUME Straddles(v, i), NEW b \in 0 .. W - 1
      PROVE  b \in second <=>
               IF b + W - m < width THEN b + W - m \in x ELSE b \in v.words[q + 1]
  <2>1. b \in ShiftRight(LowMask(width), W - m) <=> b + W - m < width
    BY <1>2, WordAssumption DEF ShiftRight, LowMask
  <2>2. b \in ShiftRight(x, W - m) <=> b + W - m \in x
    BY <1>2, WordAssumption DEF ShiftRight, LowMask
  <2>3. b + W - m \in x => b + W - m < width
    BY <1>2, WordAssumption DEF LowMask
  <2>. QED
    BY <2>1, <2>2, <2>3
<1>. HIDE DEF first, second
<1>9. begun \in Seq(Word) /\ Len(begun) = Len(v.words) /\ DOMAIN begun = DOMAIN v.words
  BY <1>1, <1>2, <1>5
<1>10. words \in Seq(Word) /\ Len(words) = Len(v.words)
  BY <1>1, <1>2, <1>6, <1>9
<1>11. /\ words[q] = first
       /\ Straddles(v, i) => words[q + 1] = second
       /\ \A k \in DOMAIN v.words :
            k # q /\ ~(Straddles(v, i) /\ k = q + 1) => words[k] = v.words[k]
  BY <1>2, <1>9
<1>. HIDE DEF words, u, q, m
<1>12. u.words = words /\ u.size = size /\ u.width = width
  BY <1>3
<1>. QED
  <2>1. v.size = size /\ v.width = width
    BY <1>1
  <2>2. WordsWritten(v, u, i, x)
    BY <1>3, <1>7, <1>8, <1>10, <1>11, <1>12, <2>1 DEF WordsWritten, q, m
  <2>. QED
    BY <2>2 DEF u

LEMMA SetFieldBits ==
  ASSUME NEW v, NEW size \in Nat, NEW width \in 1 .. W - 1, Formed(v, size, width),
         NEW i \in 0 .. size - 1, NEW x \in SUBSET LowMask(width)
  PROVE  BitsWritten(v, SetField(v, i, x), i, x)
<1>. DEFINE u == SetField(v, i, x)
            n == i * width
            q == QuoOf(v, i)
            m == ModOf(v, i)
<1>8. v.width = width
  BY DEF Formed
<1>. SUFFICES ASSUME NEW a \in Nat, NEW b \in 0 .. W - 1, a + 1 \in DOMAIN v.words,
                     NEW p, p = ((a * W) + b) - n
              PROVE  b \in u.words[a + 1] <=>
                       IF p \in 0 .. width - 1 THEN p \in x ELSE b \in v.words[a + 1]
  BY <1>8 DEF BitsWritten
<1>0. p = ((a * W) + b) - n
  OBVIOUS
<1>1. /\ q \in Nat \ {0} /\ m \in 0 .. W - 1 /\ n \in Nat /\ n = ((q - 1) * W) + m
      /\ Straddles(v, i) <=> m + width > W
  BY FieldPlace
<1>2. PICK c \in Nat : q = c + 1
  <2>1. q - 1 \in Nat /\ q = (q - 1) + 1
    BY <1>1
  <2>. QED
    BY <2>1
<1>3. n = (c * W) + m /\ c * W \in Nat /\ a * W \in Nat /\ (c + 1) * W = (c * W) + W
  BY <1>1, <1>2, WordAssumption
<1>4. /\ \A b1 \in 0 .. W - 1 :
           b1 \in u.words[q] <=>
             IF m <= b1 /\ b1 < m + width THEN b1 - m \in x ELSE b1 \in v.words[q]
      /\ Straddles(v, i) =>
           \A b1 \in 0 .. W - 1 :
             b1 \in u.words[q + 1] <=>
               IF b1 + W - m < width THEN b1 + W - m \in x ELSE b1 \in v.words[q + 1]
      /\ \A k \in DOMAIN v.words :
           k # q /\ ~(Straddles(v, i) /\ k = q + 1) => u.words[k] = v.words[k]
  <2>1. WordsWritten(v, u, i, x)
    BY SetFieldWords
  <2>. HIDE DEF u, n, q, m
  <2>. QED
    BY <1>8, <2>1 DEF WordsWritten, q, m
<1>. HIDE DEF u, n, q, m
<1>5. CASE a = c
  <2>1. p = b - m
    BY <1>0, <1>1, <1>3, <1>5, WordAssumption
  <2>2. b - m \in 0 .. width - 1 <=> m <= b /\ b < m + width
    BY <1>1, WordAssumption
  <2>. QED
    BY <1>2, <1>4, <1>5, <2>1, <2>2
<1>6. CASE a = c + 1 /\ Straddles(v, i)
  <2>1. p = b + W - m
    BY <1>0, <1>1, <1>3, <1>6, WordAssumption
  <2>2. b + W - m \in 0 .. width - 1 <=> b + W - m < width
    BY <1>1, WordAssumption
  <2>3. a + 1 = q + 1
    BY <1>2, <1>6
  <2>. QED
    BY <1>4, <1>6, <2>1, <2>2, <2>3
<1>7. CASE a # c /\ ~(a = c + 1 /\ Straddles(v, i))
  <2>1. u.words[a + 1] = v.words[a + 1]
    BY <1>2, <1>4, <1>7
  <2>2. CASE a < c
    <3>1. (a * W) + W <= c * W
      BY <2>2, FieldsApart, WordAssumption
    <3>. QED
      BY <1>0, <1>1, <1>3, <2>1, <3>1, WordAssumption
  <2>3. CASE a = c + 1
    BY <1>0, <1>1, <1>3, <1>7, <2>1, <2>3, WordAssumption
  <2>4. CASE a > c + 1
    <3>1. ((c + 1) * W) + W <= a * W
      BY <2>4, FieldsApart, WordAssumption
    <3>. QED
      BY <1>0, <1>1, <1>3, <2>1, <3>1, WordAssumption
  <2>. QED
    BY <1>7, <2>2, <2>3, <2>4
<1>. QED
  BY <1>5, <1>6, <1>7

\* A vector keeps its form when a field is set.
LEMMA SetFieldFormed ==
  ASSUME NEW v, NEW size \in Nat, NEW width \in 1 .. W - 1, Formed(v, size, width),
         NEW i \in 0 .. size - 1, NEW x \in SUBSET LowMask(width)
  PROVE  Formed(SetField(v, i, x), size, width)
<1>. DEFINE u == SetField(v, i, x)
<1>1. /\ u = [size |-> size, width |-> width, words |-> u.words]
      /\ u.size = size /\ u.width = width
      /\ u.words \in Seq(Word) /\ Len(u.words) = Len(v.words)
  <2>1. WordsWritten(v, u, i, x) /\ v.size = size /\ v.width = width
    BY SetFieldWords DEF Formed
  <2>. HIDE DEF u
  <2>. QED
    BY <2>1 DEF WordsWritten
<1>2. DOMAIN u.words = DOMAIN v.words
  BY <1>1 DEF Formed
<1>3. ASSUME NEW k \in DOMAIN v.words, NEW b \in 0 .. W - 1, b \in u.words[k]
      PROVE  (k - 1) * W + b < size * width
  <2>. DEFINE n == i * width
              p == (((k - 1) * W) + b) - n
  <2>1. k \in Nat \ {0} /\ k - 1 \in Nat /\ (k - 1) + 1 = k
    BY DEF Formed
  <2>2. /\ n \in Nat /\ n + width <= size * width /\ size * width \in Nat
        /\ (k - 1) * W \in Nat
    BY <2>1, FieldsApart, WordAssumption
  <2>3. b \in u.words[k] <=> IF p \in 0 .. width - 1 THEN p \in x ELSE b \in v.words[k]
    <3>. DEFINE a == k - 1
    <3>1. a \in Nat /\ a + 1 = k /\ p = ((a * W) + b) - n
      BY <2>1
    <3>. HIDE DEF a, p
    <3>2. b \in u.words[a + 1] <=>
            IF p \in 0 .. width - 1 THEN p \in x ELSE b \in v.words[a + 1]
      <4>1. BitsWritten(v, u, i, x) /\ v.width = width
        BY SetFieldBits DEF Formed
      <4>. HIDE DEF u
      <4>. QED
        BY <3>1, <4>1 DEF BitsWritten, n
    <3>. QED
      BY <3>1, <3>2
  <2>. HIDE DEF u, n
  <2>4. CASE p \in 0 .. width - 1
    BY <2>2, <2>4, WordAssumption
  <2>5. CASE p \notin 0 .. width - 1
    BY <1>3, <2>3, <2>5 DEF Formed
  <2>. QED
    BY <2>4, <2>5
<1>. HIDE DEF u
<1>4. Len(u.words) = WordsFor(size * width)
  BY <1>1 DEF Formed
<1>5. Formed(u, size, width)
  BY <1>1, <1>2, <1>3, <1>4 DEF Formed
<1>. QED
  BY <1>5 DEF u

\* What set wrote is what get reads, and no other field changed.
THEOREM SetThenGet ==
  ASSUME NEW v, NEW size \in Nat, NEW width \in 1 .. W - 1, Formed(v, size, width),
         NEW i \in 0 .. size - 1, NEW x \in SUBSET LowMask(width)
  PROVE  \A j \in 0 .. size - 1 :
           GetField(SetField(v, i, x), j) = IF j = i THEN x ELSE GetField(v, j)
<1>. DEFINE u == SetField(v, i, x)
<1>. SUFFICES ASSUME NEW j \in 0 .. size - 1
              PROVE  GetField(u, j) = IF j = i THEN x ELSE GetField(v, j)
  OBVIOUS
<1>1. Formed(u, size, width)
  BY SetFieldFormed
<1>2. /\ GetField(u, j) = {b \in 0 .. width - 1 : HasBit(u, (j * width) + b)}
      /\ GetField(v, j) = {b \in 0 .. width - 1 : HasBit(v, (j * width) + b)}
  BY <1>1, FieldIsBits
<1>3. ASSUME NEW b \in 0 .. width - 1
      PROVE  HasBit(u, (j * width) + b) <=> IF j = i THEN b \in x ELSE HasBit(v, (j * width) + b)
  <2>. DEFINE p == (j * width) + b
              n == i * width
  <2>1. /\ p \in 0 .. (size * width) - 1 /\ size * width \in Nat
        /\ n \in Nat /\ p \in Nat
    BY FieldsApart, WordAssumption
  <2>2. p \div W + 1 \in DOMAIN v.words
    <3>1. p \div W + 1 \in 1 .. WordsFor(size * width)
      BY <2>1, WordsEnough
    <3>2. DOMAIN v.words = 1 .. WordsFor(size * width)
      BY DEF Formed
    <3>. HIDE DEF p
    <3>. QED
      BY <3>1, <3>2
  <2>3. p \div W \in Nat /\ p % W \in 0 .. W - 1 /\ p = ((p \div W) * W) + (p % W)
    BY <2>1, Divided
  <2>4. HasBit(u, p) <=> IF p - n \in 0 .. width - 1 THEN p - n \in x ELSE HasBit(v, p)
    <3>. DEFINE a == p \div W
                c == p % W
                d == p - n
    <3>1. a \in Nat /\ c \in 0 .. W - 1 /\ a + 1 \in DOMAIN v.words /\ d = ((a * W) + c) - n
      BY <2>2, <2>3
    <3>. HIDE DEF a, c, d
    <3>2. c \in u.words[a + 1] <=> IF d \in 0 .. width - 1 THEN d \in x ELSE c \in v.words[a + 1]
      <4>1. BitsWritten(v, u, i, x) /\ v.width = width
        BY SetFieldBits DEF Formed
      <4>. HIDE DEF u
      <4>. QED
        BY <3>1, <4>1 DEF BitsWritten
    <3>. QED
      BY <3>2 DEF HasBit, a, c, d
  <2>5. CASE j = i
    <3>1. p - n = b
      BY <2>1, <2>5
    <3>. QED
      BY <2>4, <2>5, <3>1
  <2>6. CASE j # i
    <3>1. p - n \notin 0 .. width - 1
      <4>1. CASE j < i
        <5>1. (j * width) + width <= n /\ j * width \in Nat
          BY <4>1, FieldsApart, WordAssumption
        <5>. QED
          BY <2>1, <5>1
      <4>2. CASE j > i
        <5>1. n + width <= j * width /\ j * width \in Nat
          BY <4>2, FieldsApart, WordAssumption
        <5>. QED
          BY <2>1, <5>1
      <4>. QED
        BY <2>6, <4>1, <4>2
    <3>. QED
      BY <2>4, <2>6, <3>1
  <2>. QED
    BY <2>5, <2>6
<1>. QED
  BY <1>2, <1>3 DEF LowMask

\* A new vector has an empty set of ones in each field.
LEMMA NewVectorEmpty ==
  ASSUME NEW size \in Nat, NEW width \in 1 .. W - 1
  PROVE  /\ Formed(NewVector(size, width), size, width)
         /\ \A i \in 0 .. size - 1 : GetField(NewVector(size, width), i) = {}
<1>. DEFINE v == NewVector(size, width)
            l == WordsFor(size * width)
<1>1. l \in Nat
  <2>1. size * width \in Nat /\ (size * width) + W - 1 \in Nat
    BY WordAssumption
  <2>. QED
    BY <2>1, Divided DEF WordsFor
<1>2. /\ v = [size |-> size, width |-> width, words |-> v.words]
      /\ v.size = size /\ v.width = width /\ v.words = [k \in 1 .. l |-> {}]
  BY DEF NewVector
<1>. HIDE DEF l, v
<1>3. v.words \in Seq(Word) /\ Len(v.words) = l /\ DOMAIN v.words = 1 .. l
  BY <1>1, <1>2 DEF Word
<1>4. Formed(v, size, width)
  BY <1>2, <1>3 DEF Formed, l
<1>5. ASSUME NEW i \in 0 .. size - 1
      PROVE  GetField(v, i) = {}
  <2>1. ASSUME NEW b \in 0 .. width - 1
        PROVE  ~HasBit(v, (i * width) + b)
    <3>1. /\ (i * width) + b \in 0 .. (size * width) - 1
          /\ size * width \in Nat
      BY FieldsApart, WordAssumption
    <3>2. ((i * width) + b) \div W + 1 \in 1 .. l
      BY <3>1, WordsEnough DEF l
    <3>. QED
      BY <1>2, <3>2 DEF HasBit
  <2>2. GetField(v, i) = {b \in 0 .. width - 1 : HasBit(v, (i * width) + b)}
    BY <1>4, FieldIsBits
  <2>. QED
    BY <2>1, <2>2
<1>. QED
  BY <1>4, <1>5 DEF v

----------------------------------------------------------------------------
(* The flags of expand *)

FlagsFormed(v) ==
  /\ v = [size |-> v.size, words |-> v.words]
  /\ v.words \in Seq(Word) /\ Len(v.words) = WordsFor(Capa)

\* In new flags none is set.
LEMMA NewFlags ==
  /\ FlagsFormed(NewBits(Capa))
  /\ \A i \in Slots : ~Flag(NewBits(Capa), i)
<1>. DEFINE v == NewBits(Capa)
            l == WordsFor(Capa)
<1>1. l \in Nat
  <2>1. Capa + W - 1 \in Nat
    BY WordAssumption, NodeMapAssumption
  <2>. QED
    BY <2>1, Divided DEF WordsFor
<1>2. v = [size |-> v.size, words |-> v.words] /\ v.words = [k \in 1 .. l |-> {}]
  BY DEF NewBits
<1>. HIDE DEF l, v
<1>3. v.words \in Seq(Word) /\ Len(v.words) = l
  BY <1>1, <1>2 DEF Word
<1>4. ASSUME NEW i \in Slots
      PROVE  ~Flag(v, i)
  <2>1. i \div W + 1 \in 1 .. l
    BY WordsEnough, NodeMapAssumption DEF Slots, l
  <2>. QED
    BY <1>2, <2>1 DEF Flag, GetBit
<1>. QED
  BY <1>2, <1>3, <1>4 DEF FlagsFormed, l, v

\* Setting a flag sets no other.
LEMMA SetFlagSets ==
  ASSUME NEW v, FlagsFormed(v), NEW i \in Slots
  PROVE  /\ FlagsFormed(SetFlag(v, i))
         /\ \A j \in Slots : Flag(SetFlag(v, i), j) <=> j = i \/ Flag(v, j)
<1>. DEFINE u == SetFlag(v, i)
            k == i \div W + 1
<1>1. i \in Nat /\ k \in DOMAIN v.words /\ i % W \in 0 .. W - 1
  BY WordsEnough, Divided, NodeMapAssumption DEF Slots, FlagsFormed
<1>2. /\ u = [size |-> u.size, words |-> u.words]
      /\ u.words = [v.words EXCEPT ![k] = @ \cup {i % W}]
  <2>. DEFINE new == [v.words EXCEPT ![k] = @ \cup {i % W}]
  <2>1. v = [size |-> v.size, words |-> v.words]
    BY DEF FlagsFormed
  <2>2. u = [v EXCEPT !.words = new]
    BY DEF SetFlag, SetBit
  <2>. HIDE DEF u, k, new
  <2>3. u = [size |-> v.size, words |-> new]
    BY <2>1, <2>2
  <2>. QED
    BY <2>3 DEF new
<1>3. u.words \in Seq(Word) /\ Len(u.words) = Len(v.words)
  <2>1. v.words[k] \cup {i % W} \in Word /\ v.words \in Seq(Word)
    BY <1>1 DEF FlagsFormed, Word
  <2>. HIDE DEF u, k
  <2>. QED
    BY <1>1, <1>2, <2>1
<1>4. ASSUME NEW j \in Slots
      PROVE  Flag(u, j) <=> j = i \/ Flag(v, j)
  <2>1. j \in Nat /\ j \div W + 1 \in DOMAIN v.words
    BY WordsEnough, NodeMapAssumption DEF Slots, FlagsFormed
  <2>2. j \div W \in Nat /\ j = ((j \div W) * W) + (j % W)
        /\ i \div W \in Nat /\ i = ((i \div W) * W) + (i % W)
    BY <1>1, <2>1, Divided
  <2>3. j \div W = i \div W /\ j % W = i % W => j = i
    BY <2>2
  <2>. DEFINE jd == j \div W
              id == i \div W
              jm == j % W
              im == i % W
  <2>4. (jd + 1 = id + 1) => jd = id
    BY <2>2
  <2>5. Flag(u, j) <=> jm \in u.words[jd + 1]
    BY DEF Flag, GetBit
  <2>6. Flag(v, j) <=> jm \in v.words[jd + 1]
    BY DEF Flag, GetBit
  <2>7. jd + 1 \in DOMAIN v.words /\ u.words = [v.words EXCEPT ![id + 1] = @ \cup {im}]
    BY <1>2, <2>1
  <2>8. (jd = id /\ jm = im) <=> j = i
    BY <2>3
  <2>. HIDE DEF u, jd, id, jm, im
  <2>9. jm \in u.words[jd + 1] <=> (jd = id /\ jm = im) \/ jm \in v.words[jd + 1]
    BY <2>4, <2>7
  <2>. QED
    BY <2>5, <2>6, <2>8, <2>9
<1>. HIDE DEF u
<1>5. FlagsFormed(u)
  BY <1>2, <1>3 DEF FlagsFormed
<1>. QED
  BY <1>4, <1>5 DEF u

----------------------------------------------------------------------------
(* The memory of expand *)

\* The table always has its form; the vector for the high parts is not there,
\* or has fields for what an id has more than a field of the table; the flags
\* are there once expand has begun, and the root's is set.
Inv ==
  /\ Formed(table, Capa, Width)
  /\ \/ map_high = NoVector
     \/ /\ map_high.width \in 1 .. W - 1 /\ Width + map_high.width <= W
        /\ Formed(map_high, Capa, map_high.width)
  /\ expanding \in BOOLEAN
  /\ ~expanding => map_high = NoVector
  /\ expanding => FlagsFormed(done_flags) /\ Flag(done_flags, RootId)

\* There is a vector for the high parts where its size is not zero.
LEMMA HighParts ==
  /\ map_high = NoVector => map_high.size = 0 /\ map_high.width = 0
  /\ Formed(map_high, Capa, map_high.width) => map_high.size # 0
  BY NodeMapAssumption DEF NoVector, NewVector, Formed

\* A number that was split is whole when its parts are put together.
LEMMA Whole ==
  ASSUME NEW w \in Nat, NEW h \in Nat, w + h <= W, NEW id \in SUBSET LowMask(w + h)
  PROVE  /\ id \cap LowMask(w) \in SUBSET LowMask(w)
         /\ ShiftRight(id, w) \in SUBSET LowMask(h)
         /\ (id \cap LowMask(w)) \cup ShiftLeft(ShiftRight(id, w), w) = id
         /\ id \in Word
<1>1. id \subseteq 0 .. w + h - 1 /\ W \in Nat
  BY WordAssumption DEF LowMask
<1>2. id \in Word
  BY <1>1 DEF Word
<1>3. ShiftRight(id, w) \subseteq 0 .. h - 1
  BY <1>1 DEF ShiftRight
<1>4. ASSUME NEW b \in Int
      PROVE  b \in ShiftLeft(ShiftRight(id, w), w) <=> b \in id /\ b >= w
  <2>1. b \in ShiftLeft(ShiftRight(id, w), w) <=> b - w \in ShiftRight(id, w)
    BY <1>1, <1>3 DEF ShiftLeft
  <2>2. b - w \in ShiftRight(id, w) <=> b \in id /\ b >= w
    BY <1>1 DEF ShiftRight
  <2>. QED
    BY <2>1, <2>2
<1>5. ShiftLeft(ShiftRight(id, w), w) \subseteq Int
  BY <1>3 DEF ShiftLeft
<1>6. (id \cap LowMask(w)) \cup ShiftLeft(ShiftRight(id, w), w) = id
  <2>1. \A b \in id : b \in Int /\ (b \in LowMask(w) \/ b >= w)
    BY <1>1 DEF LowMask
  <2>. QED
    BY <1>4, <1>5, <2>1
<1>. QED
  BY <1>2, <1>3, <1>6 DEF LowMask

LEMMA InvInit == Init => Inv
  BY NewVectorEmpty, NodeMapAssumption, WordAssumption DEF Init, Inv

\* A taken slot holds an entry, and every write of the table is a field.
LEMMA SetSlotStep ==
  ASSUME Inv, NEW i \in Slots, NEW e \in Entry, SetSlot(i, e)
  PROVE  /\ Inv'
         /\ \A j \in Slots : GetField(table', j) = IF j = i THEN e ELSE GetField(table, j)
<1>1. /\ i \in 0 .. Capa - 1 /\ e \in SUBSET LowMask(Width) /\ Capa \in Nat
      /\ Width \in 1 .. W - 1
  BY NodeMapAssumption DEF Slots, Entry
<1>2. /\ Formed(SetField(table, i, e), Capa, Width)
      /\ \A j \in 0 .. Capa - 1 :
           GetField(SetField(table, i, e), j) = IF j = i THEN e ELSE GetField(table, j)
  BY <1>1, SetFieldFormed, SetThenGet DEF Inv
<1>. QED
  BY <1>2 DEF SetSlot, Inv, Slots

\* When expand begins, only the root is done, and its id is zero.
LEMMA BeginStep ==
  ASSUME Inv, NEW bits \in IdBits, BeginExpand(bits)
  PROVE  /\ Inv'
         /\ \A j \in Slots : Flag(done_flags', j) <=> j = RootId
         /\ Mapped(RootId)' = GetField(table, RootId)
<1>1. bits \in 1 .. W /\ Capa \in Nat \ {0} /\ Width \in 1 .. W - 1 /\ RootId \in Slots
  BY NodeMapAssumption DEF Slots, RootId
<1>2. /\ FlagsFormed(done_flags')
      /\ \A j \in Slots : Flag(done_flags', j) <=> j = RootId
  BY <1>1, NewFlags, SetFlagSets DEF BeginExpand
<1>3. CASE Width < bits
  <2>1. map_high' = NewVector(Capa, bits - Width) /\ bits - Width \in 1 .. W - 1
    BY <1>1, <1>3, WordAssumption DEF BeginExpand
  <2>2. Formed(map_high', Capa, bits - Width) /\ GetField(map_high', RootId) = {}
    BY <1>1, <2>1, NewVectorEmpty DEF Slots
  <2>3. map_high'.width = bits - Width /\ map_high'.size # 0
    BY <1>1, <2>2 DEF Formed
  <2>4. Inv'
    BY <1>1, <1>2, <2>1, <2>2, <2>3, WordAssumption DEF Inv, BeginExpand
  <2>5. ShiftLeft({}, Width) = {}
    BY DEF ShiftLeft
  <2>6. Mapped(RootId)' = GetField(table, RootId) \cup ShiftLeft({}, Width)
    BY <2>2, <2>3 DEF Mapped, BeginExpand
  <2>. QED
    BY <1>2, <2>4, <2>5, <2>6
<1>4. CASE ~(Width < bits)
  <2>1. map_high' = NoVector /\ map_high'.size = 0
    BY <1>4 DEF BeginExpand, NoVector, NewVector
  <2>2. Inv'
    BY <1>1, <1>2, <2>1 DEF Inv, BeginExpand
  <2>3. Mapped(RootId)' = GetField(table, RootId)
    BY <2>1 DEF Mapped, BeginExpand
  <2>. QED
    BY <1>2, <2>2, <2>3
<1>. QED
  BY <1>3, <1>4

\* An id that is written is mapped to, and no other slot is touched.
LEMMA SetMappingStep ==
  ASSUME Inv, NEW i \in Slots, NEW id \in Id, SetMapping(i, id)
  PROVE  /\ Inv' /\ id \in Word
         /\ \A j \in Slots : Flag(done_flags', j) <=> j = i \/ Flag(done_flags, j)
         /\ \A j \in Slots : Mapped(j)' = IF j = i THEN id ELSE Mapped(j)
         /\ \A j \in Slots : j # i => GetField(table', j) = GetField(table, j)
<1>1. /\ i \in 0 .. Capa - 1 /\ Capa \in Nat /\ Width \in 1 .. W - 1 /\ Width \in Nat
      /\ Formed(table, Capa, Width) /\ id \in SUBSET LowMask(Width + map_high.width)
  BY NodeMapAssumption, WordAssumption DEF Slots, Inv, Id
<1>2. /\ FlagsFormed(done_flags') /\ Flag(done_flags', RootId)
      /\ \A j \in Slots : Flag(done_flags', j) <=> j = i \/ Flag(done_flags, j)
  <2>1. RootId \in Slots /\ FlagsFormed(done_flags) /\ Flag(done_flags, RootId)
    BY NodeMapAssumption DEF Slots, RootId, SetMapping, Inv
  <2>. QED
    BY <2>1, SetFlagSets DEF SetMapping
<1>3. CASE map_high = NoVector
  <2>1. /\ map_high.size = 0 /\ map_high.width = 0 /\ map_high' = map_high
        /\ table' = SetField(table, i, id)
    BY <1>3, HighParts DEF SetMapping
  <2>2. id \in SUBSET LowMask(Width) /\ id \in Word
    BY <1>1, <2>1, WordAssumption DEF LowMask, Word
  <2>3. /\ Formed(table', Capa, Width)
        /\ \A j \in Slots : GetField(table', j) = IF j = i THEN id ELSE GetField(table, j)
    BY <1>1, <2>1, <2>2, SetFieldFormed, SetThenGet DEF Slots
  <2>4. \A j \in Slots : Mapped(j) = GetField(table, j) /\ Mapped(j)' = GetField(table', j)
    BY <2>1 DEF Mapped
  <2>5. Inv'
    BY <1>2, <1>3, <2>1, <2>3 DEF Inv, SetMapping
  <2>. QED
    BY <1>2, <2>2, <2>3, <2>4, <2>5
<1>4. CASE map_high # NoVector
  <2>. DEFINE h == map_high.width
              low == id \cap LowMask(Width)
              high == ShiftRight(id, Width)
  <2>1. /\ h \in 1 .. W - 1 /\ h \in Nat /\ Width + h <= W /\ Formed(map_high, Capa, h)
        /\ map_high.size # 0
    BY <1>4, HighParts, WordAssumption DEF Inv
  <2>2. /\ low \in SUBSET LowMask(Width) /\ high \in SUBSET LowMask(h)
        /\ low \cup ShiftLeft(high, Width) = id /\ id \in Word
    BY <1>1, <2>1, Whole
  <2>3. table' = SetField(table, i, low) /\ map_high' = SetField(map_high, i, high)
    BY <2>1 DEF SetMapping
  <2>. HIDE DEF low, high, h
  <2>4. /\ Formed(table', Capa, Width)
        /\ \A j \in Slots : GetField(table', j) = IF j = i THEN low ELSE GetField(table, j)
    BY <1>1, <2>2, <2>3, SetFieldFormed, SetThenGet DEF Slots
  <2>5. /\ Formed(map_high', Capa, h)
        /\ \A j \in Slots : GetField(map_high', j) = IF j = i THEN high ELSE GetField(map_high, j)
    BY <1>1, <2>1, <2>2, <2>3, SetFieldFormed, SetThenGet DEF Slots
  <2>6. map_high'.width = h /\ map_high'.size # 0
    BY <2>5, NodeMapAssumption DEF Formed
  <2>7. ASSUME NEW j \in Slots
        PROVE  /\ Mapped(j) = GetField(table, j) \cup ShiftLeft(GetField(map_high, j), Width)
               /\ Mapped(j)' = GetField(table', j) \cup ShiftLeft(GetField(map_high', j), Width)
    BY <2>1, <2>6 DEF Mapped
  <2>8. \A j \in Slots : Mapped(j)' = IF j = i THEN id ELSE Mapped(j)
    BY <2>2, <2>4, <2>5, <2>7
  <2>9. Inv'
    BY <1>2, <2>1, <2>4, <2>5, <2>6 DEF Inv, SetMapping
  <2>. QED
    BY <1>2, <2>2, <2>4, <2>8, <2>9
<1>. QED
  BY <1>3, <1>4

LEMMA InvNext == Inv /\ [Next]_vars => Inv'
<1>. SUFFICES ASSUME Inv, [Next]_vars PROVE Inv'
  OBVIOUS
<1>1. ASSUME NEW i \in Slots, NEW e \in Entry, SetSlot(i, e) PROVE Inv'
  BY <1>1, SetSlotStep
<1>2. ASSUME NEW bits \in IdBits, BeginExpand(bits) PROVE Inv'
  BY <1>2, BeginStep
<1>3. ASSUME NEW i \in Slots, NEW id \in Id, SetMapping(i, id) PROVE Inv'
  BY <1>3, SetMappingStep
<1>4. CASE UNCHANGED vars
  BY <1>4 DEF vars, Inv
<1>. QED
  BY <1>1, <1>2, <1>3, <1>4 DEF Next

LEMMA InvAlways == Spec => []Inv
  BY InvInit, InvNext, PTL DEF Spec

\* What TypeOK says of a vector.
VectorOK(v) ==
  /\ Len(v.words) = WordsFor(v.size * v.width)
  /\ \A k \in DOMAIN v.words, b \in 0 .. W - 1 :
       b \in v.words[k] => (k - 1) * W + b < v.size * v.width
  /\ \A i \in 0 .. v.size - 1 : GetField(v, i) \subseteq LowMask(v.width)

\* It holds of a formed vector.
LEMMA FormedOK ==
  ASSUME NEW v, NEW size \in Nat, NEW width \in 1 .. W - 1, Formed(v, size, width)
  PROVE  VectorOK(v)
<1>1. v.size = size /\ v.width = width
  BY DEF Formed
<1>. QED
  BY <1>1 DEF Formed, GetField, VectorOK

\* The vectors keep their sizes, whatever is written to them, and no bit is set
\* behind the last field.
THEOREM TypeCorrect == Spec => []TypeOK
<1>1. ASSUME Inv PROVE TypeOK
  <2>1. Capa \in Nat /\ Width \in 1 .. W - 1
    BY NodeMapAssumption
  <2>2. table.size = Capa /\ map_high.size \in {0, Capa}
    BY <1>1, HighParts DEF Inv, Formed
  <2>3. ASSUME map_high = NoVector
        PROVE  /\ Len(map_high.words) = WordsFor(map_high.size * map_high.width)
               /\ DOMAIN map_high.words = {}
               /\ map_high.size = 0
    <3>1. 0 * 0 = 0 /\ WordsFor(0) = 0
      <4>1. (0 + W - 1) \div W = 0
        <5>1. W - 1 \in 0 .. W - 1 /\ 0 + W - 1 = (0 * W) + (W - 1) /\ 0 + W - 1 \in Nat
          BY WordAssumption
        <5>. QED
          BY <5>1, PlaceOf
      <4>. QED
        BY <4>1 DEF WordsFor
    <3>2. map_high.words = [k \in 1 .. 0 |-> {}]
      BY <2>3, <3>1 DEF NoVector, NewVector
    <3>3. DOMAIN map_high.words = {} /\ Len(map_high.words) = 0
      BY <3>2
    <3>. QED
      BY <2>3, <3>1, <3>3, HighParts
  <2>4. VectorOK(map_high)
    <3>1. CASE map_high = NoVector
      BY <2>3, <3>1 DEF VectorOK
    <3>2. CASE map_high # NoVector
      BY <1>1, <2>1, <3>2, FormedOK DEF Inv
    <3>. QED
      BY <3>1, <3>2
  <2>5. VectorOK(table)
    BY <1>1, <2>1, FormedOK DEF Inv
  <2>. QED
    BY <2>2, <2>4, <2>5 DEF TypeOK, VectorOK
<1>. QED
  BY <1>1, InvAlways, PTL

\* The bits implement a memory for the entries and one for the ids: the node map
\* can be built in the memory of the table.
THEOREM Refinement == Spec => ImplementsSlotMap
<1>1. Init => Abstract!Init
  <2>. SUFFICES ASSUME Init PROVE Abstract!Init
    OBVIOUS
  <2>1. Done = {} /\ last = <<>>
    BY DEF Init, Done
  <2>2. \A i \in Slots : GetField(table, i) = {}
    BY NewVectorEmpty, NodeMapAssumption DEF Init, Slots
  <2>. QED
    BY <2>1, <2>2 DEF Abstract!Init
<1>2. Inv /\ [Next]_vars => [Abstract!Next]_(Abstract!vars)
  <2>. SUFFICES ASSUME Inv, [Next]_vars PROVE [Abstract!Next]_(Abstract!vars)
    OBVIOUS
  <2>1. ASSUME NEW i \in Slots, NEW e \in Entry, SetSlot(i, e)
        PROVE  Abstract!Set(i, e)
    <3>1. Done = {} /\ Done' = {} /\ i # RootId /\ GetField(table, i) = {} /\ last' = <<i, e>>
      BY <2>1 DEF SetSlot, Done
    <3>2. \A j \in Slots : GetField(table, j)' = IF j = i THEN e ELSE GetField(table, j)
      BY <2>1, SetSlotStep DEF GetField
    <3>. QED
      BY <3>1, <3>2 DEF Abstract!Set
  <2>2. ASSUME NEW bits \in IdBits, BeginExpand(bits)
        PROVE  Abstract!Begin
    <3>1. /\ Done = {} /\ Done' = {RootId} /\ RootId \in Slots
          /\ table' = table /\ last' = last
      BY <2>2, BeginStep, NodeMapAssumption DEF BeginExpand, Done, Slots, RootId
    <3>2. Mapped(RootId)' = GetField(table, RootId)
      BY <2>2, BeginStep
    <3>3. \A j \in Slots : GetField(table, j)' = GetField(table, j)
      BY <3>1 DEF GetField
    <3>. QED
      BY <3>1, <3>2, <3>3 DEF Abstract!Begin, Abstract!Restrict
  <2>3. ASSUME NEW i \in Slots, NEW id \in Id, SetMapping(i, id)
        PROVE  id \in Word /\ Abstract!MapTo(i, id)
    <3>1. /\ RootId \in Done /\ i \notin Done /\ Done' = Done \cup {i} /\ Done \subseteq Slots
          /\ GetField(table, i) # {} /\ last' = <<i, id>>
      <4>1. /\ expanding /\ expanding' /\ ~Flag(done_flags, i) /\ GetField(table, i) # {}
            /\ last' = <<i, id>>
        BY <2>3 DEF SetMapping
      <4>2. RootId \in Done
        BY <4>1, NodeMapAssumption DEF Inv, Done, Slots, RootId
      <4>3. \A j \in Slots : Flag(done_flags', j) <=> j = i \/ Flag(done_flags, j)
        BY <2>3, SetMappingStep
      <4>. QED
        BY <4>1, <4>2, <4>3 DEF Done
    <3>2. /\ id \in Word
          /\ \A j \in Slots : Mapped(j)' = IF j = i THEN id ELSE Mapped(j)
      BY <2>3, SetMappingStep
    <3>3. \A j \in Slots : j # i => GetField(table, j)' = GetField(table, j)
      BY <2>3, SetMappingStep DEF GetField
    <3>. QED
      BY <3>1, <3>2, <3>3 DEF Abstract!MapTo, Abstract!Restrict
  <2>4. ASSUME UNCHANGED vars
        PROVE  UNCHANGED Abstract!vars
    <3>1. Done' = Done /\ last' = last
      BY <2>4 DEF vars, Done
    <3>2. \A j \in Slots : GetField(table, j)' = GetField(table, j) /\ Mapped(j)' = Mapped(j)
      BY <2>4 DEF vars, Mapped, GetField
    <3>. QED
      BY <3>1, <3>2 DEF Abstract!vars, Done
  <2>. QED
    BY <2>1, <2>2, <2>3, <2>4 DEF Next, Abstract!Next
<1>. QED
  BY <1>1, <1>2, InvAlways, PTL DEF Spec, Abstract!Spec, ImplementsSlotMap
=============================================================================
