------------------------ MODULE MCStandardHashTable ------------------------
EXTENDS StandardHashTable

\* Three keys that collide on the last slot of every table of 8 slots or fewer,
\* and one beside them: probes wrap.
MCHash == [k \in Key |-> IF k = 4 THEN 6 ELSE 8 * k - 1]
=============================================================================
