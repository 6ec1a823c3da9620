----------------------- MODULE MCCompactBonsaiRehash -----------------------
EXTENDS CompactBonsaiRehash

\* The children of node n belong to slot Start(c, n): those of the root to the
\* last but one, those of its first child one slot before, and so on: probes
\* are long, wrap and pass the root.
Start(c, n) ==
  CASE n = 0 -> c - 2
    [] n = c - 2 -> c - 3
    [] n = c - 3 -> 0
    [] OTHER -> n

MCHash ==
  [c \in Capas |-> [k \in 0 .. c * SymbSize - 1 |-> (k % SymbSize) * c + Start(c, k \div SymbSize)]]

\* The node whose children belong to slot i.
Owner(c, i) ==
  CASE i = c - 2 -> 0
    [] i = c - 3 -> c - 2
    [] i = 0 -> c - 3
    [] OTHER -> i

MCHashInv ==
  [c \in Capas |-> [h \in 0 .. c * SymbSize - 1 |-> SymbSize * Owner(c, h % c) + h \div c]]
=============================================================================
