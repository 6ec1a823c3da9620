-------------------------- MODULE PlainFkhashTrie --------------------------
(***************************************************************************)
(* plain_fkhash_trie: a trie in an open-addressing table whose slots hold  *)
(* the pair (parent id, symbol) packed into one integer, the key, and next *)
(* to it the id of the child.  Ids are given out in order, 0 is the root   *)
(* and marks a free slot too: the root has no slot.                        *)
(***************************************************************************)
EXTENDS LinearProbing, FiniteSets, Sequences, SequencesExt

CONSTANTS
  MinCapa,    \* 2^min_capa_bits
  MaxFactor,  \* load factor in percent at which the table grows
  SymbSize,   \* number of edge symbols
  Words,      \* number of values of the hash argument, 2^64
  Hash        \* Hasher::hash, a function of 0 .. Words-1

Symbols == 0 .. SymbSize - 1

NilId == -1
RootId == 0

Slots(t) == 0 .. t.capa - 1
MaxSizeOf(c) == (c * MaxFactor) \div 100

MakeKey(n, s) == n * SymbSize + s

NewTrie(capa) ==
  LET c == IF capa < MinCapa THEN MinCapa ELSE capa
  IN [table |-> [i \in 0 .. c-1 |-> 0], ids |-> [i \in 0 .. c-1 |-> 0], size |-> 0, capa |-> c]

Size(t) == t.size
AddRoot(t) == [t EXCEPT !.size = 1]
Full(t) == MaxSizeOf(t.capa) <= t.size

Taken(t) == {i \in Slots(t) : t.ids[i] # 0}
Vacant(t) == Slots(t) \ Taken(t)
Nodes(t) == {t.ids[i] : i \in Taken(t)} \cup {RootId}

Home(t, key) == Hash[key % Words] % t.capa

\* Where the loops of find_child and add_child return.
Stops(t, key) == Vacant(t) \cup {i \in Slots(t) : t.table[i] = key}
Slot(t, key) == ProbeEnd(t.capa, Home(t, key), Stops(t, key))
Terminates(t, key) == ProbeEnds(t.capa, Home(t, key), Stops(t, key))

FindChild(t, n, s) ==
  LET i == Slot(t, MakeKey(n, s))
  IN IF t.size = 0 \/ i \in Vacant(t) THEN NilId ELSE t.ids[i]

Put(t, i, key, id) == [t EXCEPT !.table[i] = key, !.ids[i] = id]

\* add_child on a table with room.
AddChildHere(t, n, s) ==
  LET key == MakeKey(n, s)
      i == Slot(t, key)
  IN IF i \in Vacant(t)
     THEN [trie |-> [Put(t, i, key, t.size) EXCEPT !.size = @ + 1], node |-> t.size, added |-> TRUE]
     ELSE [trie |-> t, node |-> t.ids[i], added |-> FALSE]

\* Mutant: the slot is copied to where its key hashes to, free or not.
CopySlot_NoProbe(t, u, i) ==
  IF i \in Taken(t) THEN Put(u, Home(u, t.table[i]), t.table[i], t.ids[i]) ELSE u

\* One iteration of expand_: slot i of t is copied to the first free slot of
\* u, where the loop returns at free slots only.
CopySlot(t, u, i) ==
  IF i \in Taken(t)
  THEN Put(u, ProbeEnd(u.capa, Home(u, t.table[i]), Vacant(u)), t.table[i], t.ids[i])
  ELSE u

\* The key of node n, its parent and its symbol.
KeyOfId(t, n) == CHOOSE key \in {t.table[i] : i \in {j \in Slots(t) : t.ids[j] = n}} : TRUE
Parent(t, n) == KeyOfId(t, n) \div SymbSize
Symb(t, n) == KeyOfId(t, n) % SymbSize

----------------------------------------------------------------------------
\* expand_ as one step, and add_child with it.
Expand(t) ==
  LET copy(u, i) == CopySlot(t, u, i)
      copied == FoldLeft(copy, NewTrie(2 * t.capa), [k \in 1 .. t.capa |-> k - 1])
  IN [copied EXCEPT !.size = t.size]

AddChild(t, n, s) == AddChildHere(IF Full(t) THEN Expand(t) ELSE t, n, s)
=============================================================================
