--------------------------- MODULE CompactLabels ---------------------------
(***************************************************************************)
(* The bytes of the two compact node label maps.  A slice is one label:    *)
(* the length of the rest in variable bytes, the characters of the key     *)
(* without its terminator, and the ValueSize bytes of the value; slices    *)
(* lie one behind another in a buffer for every chunk of ChunkSize nodes,  *)
(* and a place in a buffer is found by reading the lengths before it.      *)
(* An empty key and one that is only the terminator are stored alike:      *)
(* compare tells them apart by the key it is given.                        *)
(***************************************************************************)
EXTENDS Integers, Sequences, FiniteSets, SequencesExt

CONSTANTS
  ChunkSize,
  ValueSize,    \* sizeof(value_type)
  ByteBase      \* 2^7

----------------------------------------------------------------------------
(***************************************************************************)
(* vbyte: a number is coded in bytes of seven bits each, the least         *)
(* significant first; the flag of a byte says that another one follows.    *)
(* ByteBase stands for the 2^7 values of the seven bits, so that a byte    *)
(* with the flag is one of ByteBase .. 2 * ByteBase - 1.                   *)
(***************************************************************************)
Flagged(byte) == byte >= ByteBase

\* encode, and what append puts at the end of a vector.
Vbytes(val) ==
  LET codes[v \in Nat] == IF v < ByteBase THEN <<v>>
                          ELSE <<(v % ByteBase) + ByteBase>> \o codes[v \div ByteBase]
  IN codes[val]

\* Mutant: the largest number of one byte is taken to be one greater.
VbyteSize_Boundary(val) ==
  LET size[v \in Nat] == IF v <= ByteBase THEN 1 ELSE 1 + size[v \div ByteBase]
  IN size[val]

\* size
VbyteSize(val) ==
  LET size[v \in Nat] == IF v < ByteBase THEN 1 ELSE 1 + size[v \div ByteBase]
  IN size[val]

\* decode, from the byte behind the first ptr bytes of buf: the number, and
\* the number of bytes it takes.
DecodedVal(buf, ptr) ==
  LET from[i \in Nat] == (buf[i] % ByteBase) + IF Flagged(buf[i]) THEN ByteBase * from[i + 1] ELSE 0
  IN from[ptr + 1]

DecodedSize(buf, ptr) ==
  LET from[i \in Nat] == IF Flagged(buf[i]) THEN 1 + from[i + 1] ELSE 1
  IN from[ptr + 1]

----------------------------------------------------------------------------

ChunkOf(pos) == pos \div ChunkSize
PosInChunk(pos) == pos % ChunkSize

\* The bytes of a value: which byte holds which part of it does not matter.
ValueBytes(v) == [i \in 1 .. ValueSize |-> v]

\* The number of characters kept of a key, and the bytes of its label.
Length(key) == IF key = <<>> THEN 0 ELSE Len(key) - 1
NewAlloc(key) == VbyteSize(Length(key) + ValueSize) + Length(key) + ValueSize

\* A new label, its value 0.
NewSlice(key) == Vbytes(Length(key) + ValueSize) \o SubSeq(key, 1, Length(key)) \o ValueBytes(0)

\* Mutant: a length is taken to be one byte long.
SliceSize_OneByte(buf, ptr) == 1 + DecodedVal(buf, ptr)

\* The bytes of the slice behind the first ptr bytes of buf.
SliceSize(buf, ptr) == DecodedSize(buf, ptr) + DecodedVal(buf, ptr)

\* The number of bytes of the first n slices of buf.
FrontSize(buf, n) ==
  LET behind[b \in Seq(Nat), k \in Nat, ptr \in Nat] ==
        IF k = 0 THEN ptr ELSE behind[b, k - 1, ptr + SliceSize(b, ptr)]
  IN behind[buf, n, 0]

\* The characters of the slice behind the first ptr bytes.
CharsAt(buf, ptr) ==
  LET chars == ptr + DecodedSize(buf, ptr)
  IN SubSeq(buf, chars + 1, chars + DecodedVal(buf, ptr) - ValueSize)

\* The value behind the first at bytes; a pointer to anything else reads -1.
ValueAt(buf, at) ==
  LET value[b \in Seq(Nat), p \in Nat] ==
        IF \A i \in 1 .. ValueSize : b[p + i] = b[p + 1] THEN b[p + 1] ELSE -1
  IN value[buf, at]

\* The label behind the first ptr bytes of the buffer of a chunk: its
\* characters, and the pointer to its value.
LabelIn(buf, chunk_id, ptr) ==
  LET label[b \in Seq(Nat), p \in Nat] ==
        [chars |-> CharsAt(b, p),
         ptr |-> [id |-> chunk_id, at |-> p + SliceSize(b, p) - ValueSize]]
  IN label[buf, ptr]

\* The number of leading characters that a label and a key have in common.
Common(chars, key) == Len(LongestCommonPrefix({chars, key}))

\* compare, once the slice is found: whether a value was found, the place of
\* the value, and match.  The length of the key is not looked at: its only
\* terminator is its last character, and differs from every character of a
\* label.
CompareSlice(buf, ptr, key) ==
  LET chars == CharsAt(buf, ptr)
      match == Common(chars, key)
      at == ptr + DecodedSize(buf, ptr)
  IN IF key = <<>> THEN [found |-> TRUE, at |-> at, match |-> 0]
     ELSE IF match < Len(chars) \/ key[match + 1] # 0
     THEN [found |-> FALSE, at |-> 0, match |-> match]
     ELSE [found |-> TRUE, at |-> at + match, match |-> match + 1]

\* A write of value v behind the first at bytes.
Overwritten(buf, at, v) ==
  [i \in DOMAIN buf |-> IF i \in at + 1 .. at + ValueSize THEN v ELSE buf[i]]
=============================================================================
