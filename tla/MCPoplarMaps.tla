---------------------------- MODULE MCPoplarMaps ----------------------------
EXTENDS PoplarMaps

\* Plain tries: probes start at the last two slots of a table of 8 and collide.
MCHash == [k \in 0 .. 2 |-> 7 - (k % 2)]

\* Compact tries: the children of node n belong to slot Start(c, n), those of
\* the root to the end of the table: probes are long and wrap.
Start(c, n) ==
  CASE n = 0 -> c - 2
    [] n = c - 2 -> c - 3
    [] n = c - 3 -> 0
    [] OTHER -> n

MCPermutation ==
  [c \in Capas |-> [k \in 0 .. c * SymbSize - 1 |-> (k % SymbSize) * c + Start(c, k \div SymbSize)]]

\* The node whose children belong to slot i.
Owner(c, i) ==
  CASE i = c - 2 -> 0
    [] i = c - 3 -> c - 2
    [] i = 0 -> c - 3
    [] OTHER -> i

MCPermutationInv ==
  [c \in Capas |-> [h \in 0 .. c * SymbSize - 1 |-> SymbSize * Owner(c, h % c) + h \div c]]

\* Keys over two letters: one a prefix of the others but for its terminator,
\* and prefixes longer than lambda; one key that is not legal.
GrowingKey == {<<1>>, <<0>>, <<1, 0>>, <<1, 1, 1, 1, 0>>, <<1, 1, 1, 2, 0>>}

\* One letter more than there are codes.
CodesKey == {<<0>>, <<1, 0>>, <<2, 0>>}

\* The empty string beside another key.
EmptyStringKey == {<<0>>, <<1, 0>>}

\* A caller writes another value for one key.
MCValueOf(k) == IF k = <<1, 1, 1, 1, 0>> THEN {7} ELSE {}
=============================================================================
