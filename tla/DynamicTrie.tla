---------------------------- MODULE DynamicTrie ----------------------------
(***************************************************************************)
(* What the map relies on a dynamic trie for, whatever its implementation: *)
(* a growing set of nodes, each known to its owner by an id.  A node is    *)
(* named here by its string, the symbols on the way from the root to it.   *)
(* Adding a child never moves another node; growing the table may give     *)
(* every node another id, but loses, merges and invents none.              *)
(***************************************************************************)
EXTENDS Naturals, Sequences

CONSTANT Symbol
VARIABLE ids    \* the id of every node, by its string

Strings == DOMAIN ids

Unambiguous(f) == \A v, w \in DOMAIN f : f[v] = f[w] => v = w

Init == ids = [w \in {} |-> 0]

AddRoot ==
  /\ Strings = {}
  /\ DOMAIN ids' = {<<>>}

\* add_child for a node that did not exist.
AddChild(w, s) ==
  /\ Append(w, s) \notin Strings
  /\ DOMAIN ids' = Strings \cup {Append(w, s)}
  /\ \A v \in Strings : ids'[v] = ids[v]
  /\ Unambiguous(ids')

\* expand
Renumber ==
  /\ DOMAIN ids' = Strings
  /\ Unambiguous(ids')

Next == AddRoot \/ (\E w \in Strings, s \in Symbol : AddChild(w, s)) \/ Renumber

Spec == Init /\ [][Next]_ids

\* The trie that never renumbers.
StableNext == AddRoot \/ (\E w \in Strings, s \in Symbol : AddChild(w, s))

StableSpec == Init /\ [][StableNext]_ids
=============================================================================
