------------------------- MODULE CompactFkhashTrie -------------------------
(***************************************************************************)
(* compact_fkhash_trie: as compact_bonsai_trie a table of quotients and    *)
(* displacements, and next to it the ids of the nodes, given out in order. *)
(* The largest number an id field holds marks a free slot; the root is id  *)
(* 0 and has no slot.  Displacements count from 0.                         *)
(***************************************************************************)
EXTENDS Displacements, SequencesExt

RootId == 0

\* capa_size_.mask() in ids_: the slot is free.
FreeId(t) == t.capa - 1

\* Mutant: the ids start as zeros.
NewTrie_Zeroed(capa) ==
  LET c == IF capa < MinCapa THEN MinCapa ELSE capa
  IN [table |-> [i \in 0 .. c-1 |-> 0], ids |-> [i \in 0 .. c-1 |-> 0],
      cht |-> NoDsps, map |-> NoDsps, size |-> 0, capa |-> c]

NewTrie(capa) ==
  LET c == IF capa < MinCapa THEN MinCapa ELSE capa
  IN [table |-> [i \in 0 .. c-1 |-> 0], ids |-> [i \in 0 .. c-1 |-> c - 1],
      cht |-> NoDsps, map |-> NoDsps, size |-> 0, capa |-> c]

Size(t) == t.size
AddRoot(t) == [t EXCEPT !.size = 1]

Full(t) == MaxSizeOf(t.capa) <= t.size

Vacant(t) == {i \in Slots(t) : t.ids[i] = FreeId(t)}
Taken(t) == Slots(t) \ Vacant(t)
Nodes(t) == {t.ids[i] : i \in Taken(t)} \cup {RootId}

\* The slots at which the probe for a key finds it.
Matches(t, quo, mod) == {i \in Taken(t) : Quo(t, i) = quo /\ CompareDsp(t, i, Dist(t, mod, i))}

\* Where the loops of find_child and add_child return.
Stops(t, n, s) ==
  LET key == MakeKey(n, s) IN Vacant(t) \cup Matches(t, QuoOf(t, key), ModOf(t, key))

Terminates(t, n, s) == ProbeEnds(t.capa, ModOf(t, MakeKey(n, s)), Stops(t, n, s))
Slot(t, n, s) == ProbeEnd(t.capa, ModOf(t, MakeKey(n, s)), Stops(t, n, s))

FindChild(t, n, s) ==
  IF t.size = 0
  THEN NilId
  ELSE LET i == Slot(t, n, s) IN IF i \in Vacant(t) THEN NilId ELSE t.ids[i]

\* update_slot_ for the node id, whose key belongs to slot mod.
PutId(t, i, quo, mod, id) == [UpdateSlot(t, i, quo, Dist(t, mod, i)) EXCEPT !.ids[i] = id]

\* add_child on a table with room.
AddChildHere(t, n, s) ==
  LET key == MakeKey(n, s)
      i == Slot(t, n, s)
  IN IF i \in Vacant(t)
     THEN [trie |-> [PutId(t, i, QuoOf(t, key), ModOf(t, key), t.size) EXCEPT !.size = @ + 1],
           node |-> t.size, added |-> TRUE]
     ELSE [trie |-> t, node |-> t.ids[i], added |-> FALSE]

\* The key in a taken slot.
StoredKey(t, i) == KeyOf(t, i, GetDsp(t, i))

\* Where expand_ puts a key in the new table u.
FreeSlotFor(u, key) == ProbeEnd(u.capa, ModOf(u, key), Vacant(u))
HasRoomFor(u, key) == ProbeEnds(u.capa, ModOf(u, key), Vacant(u))

\* Mutant: the slot of the new table keeps the quotient of the old one.
CopySlot_OldQuo(t, u, i) ==
  IF i \in Vacant(t)
  THEN u
  ELSE LET key == StoredKey(t, i)
       IN PutId(u, FreeSlotFor(u, key), Quo(t, i), ModOf(u, key), t.ids[i])

\* One iteration of expand_: the key in slot i of t is recovered and stored
\* in u with its id.
CopySlot(t, u, i) ==
  IF i \in Vacant(t)
  THEN u
  ELSE LET key == StoredKey(t, i)
       IN PutId(u, FreeSlotFor(u, key), QuoOf(u, key), ModOf(u, key), t.ids[i])

\* The key of node n, and with it the parent and the symbol, which the class
\* has no member for.
KeyOfId(t, n) == CHOOSE key \in {StoredKey(t, i) : i \in {j \in Slots(t) : t.ids[j] = n}} : TRUE
Parent(t, n) == KeyOfId(t, n) \div SymbSize
Symb(t, n) == KeyOfId(t, n) % SymbSize

----------------------------------------------------------------------------
\* expand_ as one step, and add_child with it.  CompactFkhashRehash has the
\* loop.
Expand(t) ==
  LET copy(u, i) == CopySlot(t, u, i)
      copied == FoldLeft(copy, NewTrie(2 * t.capa), [k \in 1 .. t.capa |-> k - 1])
  IN [copied EXCEPT !.size = t.size]

AddChild(t, n, s) == AddChildHere(IF Full(t) THEN Expand(t) ELSE t, n, s)
=============================================================================
