------------------------ MODULE MCPlainBonsaiRehash ------------------------
EXTENDS PlainBonsaiRehash

\* Three hash values that fall on the last slots of every table of 16 slots or
\* fewer: probes collide and wrap over the reserved slots 0 and 1.
MCHash == [k \in 0 .. 2 |-> 15 - k]
=============================================================================
