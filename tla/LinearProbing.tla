--------------------------- MODULE LinearProbing ---------------------------
(***************************************************************************)
(* The probe loop every open-addressing table of poplar-trie runs:         *)
(*                                                                         *)
(*     for (i = hash(key) & mask;; i = right_(i)) ...                      *)
(*                                                                         *)
(* A table has c slots 0 .. c-1, h is the slot the loop starts from, and   *)
(* S is the set of slots at which the loop body returns.  The loop has no  *)
(* bound of its own: it ends exactly when FirstStops is not empty.         *)
(***************************************************************************)
EXTENDS Integers

\* right_ applied d times to slot h.
At(c, h, d) == (h + d) % c

\* How many times the loop advances before it returns: one number, or none.
FirstStops(c, h, S) ==
  {d \in 0 .. c-1 : At(c, h, d) \in S /\ \A e \in 0 .. d-1 : At(c, h, e) \notin S}

ProbeEnds(c, h, S) == FirstStops(c, h, S) # {}

\* The slot the loop returns at.
ProbeEnd(c, h, S) == At(c, h, CHOOSE d \in FirstStops(c, h, S) : TRUE)
=============================================================================
