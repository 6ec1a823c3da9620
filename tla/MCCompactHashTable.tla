------------------------- MODULE MCCompactHashTable -------------------------
EXTENDS CompactHashTable, BijectiveHash

\* The hash function of the code for a universe of 4 bits, tabulated, and its
\* inverse.
Hash4 == <<0, 9, 2, 11, 4, 13, 6, 15, 1, 8, 3, 10, 5, 12, 7, 14>>
Hash4Inv == <<0, 8, 2, 10, 4, 12, 6, 14, 9, 1, 11, 3, 13, 5, 15, 7>>

ASSUME TablesAssumption ==
  \A x \in 0 .. 15 : Hash4[x + 1] = SplitMix(4, x) /\ Hash4Inv[x + 1] = SplitMixInv(4, x)

MCHash == [k \in 0 .. Univ-1 |-> Hash4[k + 1]]
MCHashInv == [h \in 0 .. Univ-1 |-> Hash4Inv[h + 1]]

\* The same for a universe of 2 bits.
SmallHash == [k \in 0 .. 3 |-> SplitMix(2, k)]
SmallHashInv == [h \in 0 .. 3 |-> SplitMixInv(2, h)]

\* Of the keys that are set, two belong to slot 0, two to slot 3 and one each to
\* the slots between them, whether the table has 4 or 8 slots: groups displace
\* one another to the left and across slot 0.  Two of them, of different groups,
\* are set to one value and to another.
MCValue == [k \in KeysUsed |-> IF k \in {0, 3} THEN {1, 2} ELSE {1}]
=============================================================================
