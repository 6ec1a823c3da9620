---------------------------- MODULE NodeLabels -----------------------------
(***************************************************************************)
(* What the two plain node label maps have in common: a vector of pointers *)
(* to labels.  A label is the rest of the key that made the node, with the *)
(* value behind it; a vacant slot and a step node have the null pointer.   *)
(* Only the pointers that are not null are kept here.                      *)
(***************************************************************************)
EXTENDS Integers, Sequences, FiniteSets, Functions

CONSTANT ValueSize    \* sizeof(value_type)

NoLabels == [i \in {} |-> 0]

\* The positions whose pointer is not null.
Labelled(ls) == DOMAIN ls.ptrs

\* ls with a new label for key at pos, its value 0, and the pointer to the
\* value.
WithLabel(ls, pos, key) ==
  [labels |->
     [ls EXCEPT !.ptrs = [i \in DOMAIN @ \cup {pos} |->
                            IF i = pos THEN [rest |-> key, value |-> 0] ELSE @[i]],
                !.label_bytes = @ + Len(key) + ValueSize],
   ptr |-> [id |-> pos, at |-> Len(key)]]

\* The number of bytes that key and a label have in common.
Common(label, key) ==
  CHOOSE m \in 0 .. Len(key) :
    /\ \A i \in 1 .. m : i <= Len(label) /\ key[i] = label[i]
    /\ m < Len(key) => (m + 1 > Len(label) \/ key[m+1] # label[m+1])

\* compare: whether a value was found, the pointer to it, and match.
Compare(ls, pos, key) ==
  LET m == Common(ls.ptrs[pos].rest, key)
  IN [found |-> m = Len(key), ptr |-> [id |-> pos, at |-> m], match |-> m]

\* The caller reads and writes through a pointer behind the rest of a label;
\* a pointer to anything else reads -1.
Value(ls, ptr) == IF ptr.at = Len(ls.ptrs[ptr.id].rest) THEN ls.ptrs[ptr.id].value ELSE -1
Write(ls, ptr, v) == [ls EXCEPT !.ptrs[ptr.id].value = v]

\* The characters of a label without the terminator, and the pointer to its
\* value.
LabelAt(ls, pos) ==
  LET rest == ls.ptrs[pos].rest
  IN [chars |-> SubSeq(rest, 1, Len(rest) - 1), ptr |-> [id |-> pos, at |-> Len(rest)]]

\* The counter counts the bytes of all labels.
BytesCounted(ls) ==
  ls.label_bytes = SumFunction([i \in DOMAIN ls.ptrs |-> Len(ls.ptrs[i].rest) + ValueSize])
=============================================================================
