----------------------------- MODULE MCNodeMap -----------------------------
EXTENDS NodeMap

Word64 == INSTANCE BitVectors WITH W <- 64

\* Numbers with one or two ones, of every length up to 64 bits.
Sparse == {{i, j} : i, j \in 0 .. 63} \cup {{}}

\* msb finds the most significant one of every such word, and ceil_log2 the
\* least n with x <= 2^n.
ASSUME MsbCorrect ==
  /\ \A x \in Sparse \ {{}} : Word64!Msb(x) = Max(x)
  /\ \A x \in Sparse \ {{}} : Word64!CeilLog2(x) = IF Cardinality(x) = 1 THEN Max(x) ELSE Max(x) + 1

\* Up to three numbers appended with as many bits as they have, or more, are
\* read back, wherever they begin.
Item == {it \in Word \X (0 .. W) : it[1] \subseteq LowMask(it[2])}

ASSUME AppendedIsRead ==
  \A a, b, c \in Item :
    LET v == AppendBits(AppendBits(AppendBits(NewBits(0), a[1], a[2]), b[1], b[2]), c[1], c[2])
    IN /\ GetBits(v, 0, a[2]) = a[1]
       /\ GetBits(v, a[2], b[2]) = b[1]
       /\ GetBits(v, a[2] + b[2], c[2]) = c[1]
       /\ v.size = a[2] + b[2] + c[2] /\ Len(v.words) = WordsFor(v.size)

\* A vector made with the largest number in every field, as the ids of the
\* compact FK trie are, has a one wherever there is a field.
ASSUME FilledIsFull ==
  \A size \in 0 .. 4, width \in 1 .. W - 1 :
    LET v == Filled(size, width, LowMask(width))
    IN \A k \in DOMAIN v.words : v.words[k] = {b \in 0 .. W - 1 : (k - 1) * W + b < size * width}

\* append_bit is append_bits of one bit.
ASSUME AppendBitIsAppendBits ==
  \A a \in Item, bit \in BOOLEAN :
    LET v == AppendBits(NewBits(0), a[1], a[2])
    IN AppendBit(v, bit) = AppendBits(v, IF bit THEN {0} ELSE {}, 1)
=============================================================================
