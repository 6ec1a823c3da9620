------------------------------ MODULE SlotMap ------------------------------
(***************************************************************************)
(* What expand needs of the table it empties: the entries of the slots it  *)
(* has not come to, and the new ids of the nodes it has moved, although    *)
(* both are in the same memory.                                            *)
(***************************************************************************)
EXTENDS Integers, Functions

CONSTANTS Slots, Entry, Id, Root

VARIABLES
  entries,    \* the entry of every slot not mapped yet
  ids,        \* the new id of every slot mapped
  last        \* the last write

vars == <<entries, ids, last>>

Init == entries = [i \in Slots |-> {}] /\ ids = [i \in {} |-> {}] /\ last = <<>>

Set(i, e) ==
  /\ DOMAIN ids = {} /\ i # Root /\ entries[i] = {}
  /\ entries' = [entries EXCEPT ![i] = e]
  /\ last' = <<i, e>>
  /\ UNCHANGED ids

\* The root keeps its id.
Begin ==
  /\ DOMAIN ids = {}
  /\ ids' = [j \in {Root} |-> entries[Root]]
  /\ entries' = Restrict(entries, Slots \ {Root})
  /\ UNCHANGED last

MapTo(i, id) ==
  /\ DOMAIN ids # {} /\ i \in DOMAIN entries /\ entries[i] # {}
  /\ entries' = Restrict(entries, DOMAIN entries \ {i})
  /\ ids' = [j \in DOMAIN ids \cup {i} |-> IF j = i THEN id ELSE ids[j]]
  /\ last' = <<i, id>>

Next ==
  \/ \E i \in Slots, e \in Entry : Set(i, e)
  \/ Begin
  \/ \E i \in Slots, id \in Id : MapTo(i, id)

Spec == Init /\ [][Next]_vars
=============================================================================
