------------------------- MODULE CompactBonsaiTrie -------------------------
(***************************************************************************)
(* compact_bonsai_trie: an m-Bonsai trie whose slots hold quotients and    *)
(* displacements instead of keys.  The id of a node is its slot; the root  *)
(* is slot 0, which looks free.  Displacements count from 1 for slots that *)
(* hold a node, so that 0 in a slot means free.                            *)
(***************************************************************************)
EXTENDS Displacements, SequencesExt

RootId == 0

\* The constructor: an empty table of at least the minimal capacity.
NewTrie(capa) ==
  LET c == IF capa < MinCapa THEN MinCapa ELSE capa
  IN [table |-> [i \in 0 .. c-1 |-> 0], cht |-> NoDsps, map |-> NoDsps, size |-> 0, capa |-> c]

Size(t) == t.size
AddRoot(t) == [t EXCEPT !.size = 1]
NeedsToExpand(t) == MaxSizeOf(t.capa) <= t.size

Vacant(t) == {i \in Slots(t) \ {RootId} : CompareDsp(t, i, 0)}
Children(t) == (Slots(t) \ {RootId}) \ Vacant(t)
Nodes(t) == Children(t) \cup {RootId}

\* The slots at which the probe for a key finds it: its quotient, at the
\* distance from where it starts that was stored.
Matches(t, quo, mod) ==
  {i \in Children(t) : Quo(t, i) = quo /\ CompareDsp(t, i, Dist(t, mod, i) + 1)}

\* Where the loops of find_child and add_child return.
Stops(t, n, s) ==
  LET key == MakeKey(n, s) IN Vacant(t) \cup Matches(t, QuoOf(t, key), ModOf(t, key))

Terminates(t, n, s) == ProbeEnds(t.capa, ModOf(t, MakeKey(n, s)), Stops(t, n, s))
Slot(t, n, s) == ProbeEnd(t.capa, ModOf(t, MakeKey(n, s)), Stops(t, n, s))

FindChild(t, n, s) ==
  IF t.size = 0
  THEN NilId
  ELSE LET i == Slot(t, n, s) IN IF i \in Vacant(t) THEN NilId ELSE i

\* Mutant: the skipped slot of the root is not counted.
AddChild_RootNotCounted(t, n, s) ==
  LET i == Slot(t, n, s)
      mod == ModOf(t, MakeKey(n, s))
      cnt == Dist(t, mod, i) + IF i < mod THEN 0 ELSE 1
  IN IF i \notin Vacant(t)
     THEN [trie |-> t, node |-> i, added |-> FALSE]
     ELSE IF t.size = MaxSizeOf(t.capa)
     THEN [trie |-> t, node |-> n, added |-> FALSE]
     ELSE [trie |-> [UpdateSlot(t, i, QuoOf(t, MakeKey(n, s)), cnt) EXCEPT !.size = @ + 1],
           node |-> i, added |-> TRUE]

\* add_child changes its node_id argument: the result is the trie, the new
\* value of the argument, and the value returned.
AddChild(t, n, s) ==
  LET i == Slot(t, n, s)
      mod == ModOf(t, MakeKey(n, s))
      cnt == Dist(t, mod, i) + 1
  IN IF i \notin Vacant(t)
     THEN [trie |-> t, node |-> i, added |-> FALSE]
     ELSE IF t.size = MaxSizeOf(t.capa)
     THEN [trie |-> t, node |-> n, added |-> FALSE]
     ELSE [trie |-> [UpdateSlot(t, i, QuoOf(t, MakeKey(n, s)), cnt) EXCEPT !.size = @ + 1],
           node |-> i, added |-> TRUE]

\* get_parent_and_symb for a node other than the root.
ParentKey(t, i) == KeyOf(t, i, GetDsp(t, i) - 1)
Parent(t, i) == ParentKey(t, i) \div SymbSize
Symb(t, i) == ParentKey(t, i) % SymbSize

----------------------------------------------------------------------------
\* expand as one step: the table it leaves behind and the node map it
\* returns.  CompactBonsaiRehash has the loops.

\* Node j of t moves below the new node of its parent.
Move(t, m, j) ==
  LET r == AddChild(m.trie, m.map[Parent(t, j)], Symb(t, j))
  IN [trie |-> r.trie, map |-> Extended(m.map, j, r.node)]

\* The nodes from below the nearest moved ancestor of node i down to i.
Unmoved(t, moved, i) ==
  LET path[j \in Nodes(t)] ==
        IF j \in moved THEN <<>> ELSE Append(path[Parent(t, j)], j)
  IN path[i]

Expand(t) ==
  LET start == [trie |-> AddRoot(NewTrie(2 * t.capa)), map |-> [i \in {RootId} |-> RootId]]
      visit(m, i) ==
        IF i \in Children(t)
        THEN FoldLeft(LAMBDA mm, j : Move(t, mm, j), m, Unmoved(t, DOMAIN m.map, i))
        ELSE m
  IN FoldLeft(visit, start, [i \in 1 .. t.capa-1 |-> i])
=============================================================================
