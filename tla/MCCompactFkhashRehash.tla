----------------------- MODULE MCCompactFkhashRehash -----------------------
EXTENDS CompactFkhashRehash

\* The children of the root belong to the last slot, those of its first child
\* to the one before, and those of the second to slot 0: probes are long and
\* wrap.  A key has one quotient in the table of 4 slots and another one in the
\* larger tables.
Start(c, n) ==
  CASE n = 0 -> c - 1
    [] n = 1 -> c - 2
    [] n = 2 -> 0
    [] OTHER -> n - 2

MCHash ==
  [c \in Capas |-> [k \in 0 .. c * SymbSize - 1 |->
     ((k + c \div 4) % SymbSize) * c + Start(c, k \div SymbSize)]]

\* The node whose children belong to slot i.
Owner(c, i) ==
  CASE i = c - 1 -> 0
    [] i = c - 2 -> 1
    [] i = 0 -> 2
    [] OTHER -> i + 2

MCHashInv ==
  [c \in Capas |-> [h \in 0 .. c * SymbSize - 1 |->
     SymbSize * Owner(c, h % c) + (((h \div c + c * SymbSize) - c \div 4) % SymbSize)]]
=============================================================================
