----------------------------- MODULE BitVectors -----------------------------
(***************************************************************************)
(* poplar::bit_tools, bit_vector and compact_vector.  A word of W bits is  *)
(* the set of the positions of its ones, so that &, | and ~ are            *)
(* intersection, union and complement.  The vectors are flags, numbers of  *)
(* any length, or fields of width bits, one behind another in words; a     *)
(* number or a field may begin in one word and end in the next.            *)
(***************************************************************************)
EXTENDS Integers, FiniteSets, FiniteSetsExt, Sequences, SequencesExt

CONSTANT W    \* the bits of a word: 64

ASSUME WordAssumption == W \in Nat \ {0}

Word == SUBSET (0 .. W - 1)

ShiftLeft(x, n) == {i + n : i \in {j \in x : j + n < W}}
ShiftRight(x, n) == {i - n : i \in {j \in x : j >= n}}
LowMask(n) == 0 .. n - 1

GetBit(x, i) == i \in x
SetBit(x, i, bit) == IF bit THEN x \cup {i} ELSE x \ {i}

Popcnt(x) == Cardinality(x)
PopcntBelow(x, i) == Popcnt(x \cap LowMask(i))

\* MSB_TABLE has an entry for every byte.
MsbTable[x \in SUBSET LowMask(8)] == IF x = {} THEN 0 ELSE Max(x)

\* The most significant one of a word of up to 64 bits, by halves.
Msb(x) ==
  LET inBytes(y, n) == IF ShiftRight(y, 8) # {}
                       THEN MsbTable[ShiftRight(y, 8)] + n + 8
                       ELSE MsbTable[y] + n
      inHalves(y, n) == IF ShiftRight(y, 16) # {}
                        THEN inBytes(ShiftRight(y, 16), n + 16)
                        ELSE inBytes(y, n)
  IN IF ShiftRight(x, 32) # {} THEN inHalves(ShiftRight(x, 32), 32) ELSE inHalves(x, 0)

\* The word before x, for x # 0.
Pred(x) == (x \ {Min(x)}) \cup LowMask(Min(x))

CeilLog2(x) == IF x \in {{}, {0}} THEN 0 ELSE Msb(Pred(x)) + 1

WordsFor(bits) == (bits + W - 1) \div W

----------------------------------------------------------------------------
(* bit_vector *)

NewBits(size) == [size |-> size, words |-> [k \in 1 .. WordsFor(size) |-> {}]]

\* get and set
Flag(v, i) == GetBit(v.words[i \div W + 1], i % W)
SetFlag(v, i) == [v EXCEPT !.words[i \div W + 1] = SetBit(@, i % W, TRUE)]

\* get_bits
GetBits(v, pos, len) ==
  LET k == pos \div W + 1
      mod == pos % W
  IN IF len = 0 THEN {}
     ELSE IF mod + len <= W THEN ShiftRight(v.words[k], mod) \cap LowMask(len)
     ELSE ShiftRight(v.words[k], mod) \cup (ShiftLeft(v.words[k + 1], W - mod) \cap LowMask(len))

\* append_bits, with as many bits as are asked for, whether x has more or not.
AppendBits(v, x, len) ==
  LET mod == v.size % W
      begun == IF mod = 0
               THEN Append(v.words, x)
               ELSE [v.words EXCEPT ![Len(v.words)] = @ \cup ShiftLeft(x, mod)]
  IN IF len = 0 THEN v
     ELSE [size |-> v.size + len,
           words |-> IF mod # 0 /\ len > W - mod
                     THEN Append(begun, ShiftRight(x, W - mod))
                     ELSE begun]

\* append_bit
AppendBit(v, bit) ==
  LET mod == v.size % W
      words == IF mod = 0 THEN Append(v.words, {}) ELSE v.words
  IN [size |-> v.size + 1,
      words |-> [words EXCEPT ![Len(words)] = IF bit THEN @ \cup {mod} ELSE @]]

----------------------------------------------------------------------------
(* compact_vector *)

\* The constructor throws unless width is smaller than W.
NewVector(size, width) ==
  [size |-> size, width |-> width, words |-> [k \in 1 .. WordsFor(size * width) |-> {}]]

\* The word in which field i of v begins, and its bit there.
QuoOf(v, i) == (i * v.width) \div W + 1
ModOf(v, i) == (i * v.width) % W
Straddles(v, i) == ModOf(v, i) + v.width > W

\* get
GetField(v, i) ==
  LET quo == QuoOf(v, i)
      mod == ModOf(v, i)
      rest == IF Straddles(v, i) THEN ShiftLeft(v.words[quo + 1], W - mod) ELSE {}
  IN (ShiftRight(v.words[quo], mod) \cup rest) \cap LowMask(v.width)

\* Mutant: the old bits in the second word are not cleared.
SetField_KeepsRest(v, i, x) ==
  LET quo == QuoOf(v, i)
      mod == ModOf(v, i)
      mask == LowMask(v.width)
      begun == [v EXCEPT !.words[quo] = (@ \ ShiftLeft(mask, mod)) \cup ShiftLeft(x \cap mask, mod)]
  IN IF Straddles(v, i)
     THEN [begun EXCEPT !.words[quo + 1] = @ \cup ShiftRight(x \cap mask, W - mod)]
     ELSE begun

\* set
SetField(v, i, x) ==
  LET quo == QuoOf(v, i)
      mod == ModOf(v, i)
      mask == LowMask(v.width)
      begun == [v EXCEPT !.words[quo] = (@ \ ShiftLeft(mask, mod)) \cup ShiftLeft(x \cap mask, mod)]
  IN IF Straddles(v, i)
     THEN [begun EXCEPT !.words[quo + 1] =
             (@ \ ShiftRight(mask, W - mod)) \cup ShiftRight(x \cap mask, W - mod)]
     ELSE begun

\* The constructor with a third argument sets every field.
Filled(size, width, init) ==
  FoldLeft(LAMBDA v, k : SetField(v, k - 1, init), NewVector(size, width), [k \in 1 .. size |-> k])
=============================================================================
