------------------------ MODULE CompactFkhashRehash ------------------------
(***************************************************************************)
(* A compact_fkhash_trie in use: its owner adds the root and children of   *)
(* nodes it knows; add_child itself grows the table when it is full, one   *)
(* slot at a time, and then stores the child in the new one.               *)
(*                                                                         *)
(* str is a history variable: the string of symbols on the way from the    *)
(* root to a node, by its id.                                              *)
(***************************************************************************)
EXTENDS CompactFkhashTrie

CONSTANT MaxNodes    \* bound of the runs

VARIABLES
  ht,
  phase,     \* "ready", or "copy" while the loop of expand_ runs
  pos,       \* i, the loop's counter
  arg,       \* the arguments of the add_child that grows the table
  new_ht,
  str

vars == <<ht, phase, pos, arg, new_ht, str>>

NoArg == [node |-> NilId, symb |-> 0]

Init ==
  /\ ht = NewTrie(0) /\ str = [i \in {} |-> <<>>]
  /\ phase = "ready" /\ pos = 0 /\ arg = NoArg /\ new_ht = NewTrie(0)

InsertRoot ==
  /\ phase = "ready" /\ ht.size = 0
  /\ ht' = AddRoot(ht)
  /\ str' = [i \in {RootId} |-> <<>>]
  /\ UNCHANGED <<phase, pos, arg, new_ht>>

\* The loop of add_child on table t, which has room.
Store(t, n, s) ==
  LET r == AddChildHere(t, n, s)
  IN /\ Terminates(t, n, s)
     /\ ht' = r.trie
     /\ str' = IF r.added THEN Extended(str, r.node, Append(str[n], s)) ELSE str

InsertChild(n, s) ==
  /\ phase = "ready" /\ ht.size > 0 /\ ~Full(ht)
  /\ AddChildHere(ht, n, s).trie.size <= MaxNodes    \* bound
  /\ Store(ht, n, s)
  /\ UNCHANGED <<phase, pos, arg, new_ht>>

BeginExpand(n, s) ==
  /\ phase = "ready" /\ ht.size > 0 /\ Full(ht)
  /\ 2 * ht.capa \in Capas    \* bound
  /\ phase' = "copy" /\ pos' = 0
  /\ arg' = [node |-> n, symb |-> s]
  /\ new_ht' = NewTrie(2 * ht.capa)
  /\ UNCHANGED <<ht, str>>

Copy ==
  /\ phase = "copy" /\ pos < ht.capa
  /\ pos \in Taken(ht) => HasRoomFor(new_ht, StoredKey(ht, pos))
  /\ new_ht' = CopySlot(ht, new_ht, pos)
  /\ pos' = pos + 1
  /\ UNCHANGED <<ht, phase, arg, str>>

\* Mutant: the number of nodes is not carried over.
EndExpand_NoSize ==
  /\ phase = "copy" /\ pos = ht.capa
  /\ phase' = "ready" /\ pos' = 0 /\ arg' = NoArg /\ new_ht' = NewTrie(0)
  /\ Store([new_ht EXCEPT !.size = 1], arg.node, arg.symb)

\* The swap, and the rest of add_child.
EndExpand ==
  /\ phase = "copy" /\ pos = ht.capa
  /\ phase' = "ready" /\ pos' = 0 /\ arg' = NoArg /\ new_ht' = NewTrie(0)
  /\ Store([new_ht EXCEPT !.size = ht.size], arg.node, arg.symb)

Expanding == Copy \/ EndExpand

Next ==
  \/ InsertRoot
  \/ \E n \in Nodes(ht), s \in Symbols : InsertChild(n, s) \/ BeginExpand(n, s)
  \/ Expanding

Spec == Init /\ [][Next]_vars

----------------------------------------------------------------------------
IsTable(t) ==
  /\ t.table \in [Slots(t) -> 0 .. SymbSize * Dsp1Size - 1]
  /\ t.ids \in [Slots(t) -> Slots(t)]

\* The types of all variables; no id is the number that marks a free slot.
TypeOK ==
  /\ IsTable(ht) /\ IsTable(new_ht)
  /\ phase \in {"ready", "copy"} /\ pos \in 0 .. ht.capa
  /\ DOMAIN str = 0 .. ht.size-1 /\ ht.size <= FreeId(ht)
  /\ phase = "copy" => arg.node \in DOMAIN str /\ arg.symb \in Symbols

\* A quotient, a displacement and a slot give back the key a node was added
\* with, in the table and in the one that is being filled.
KeysRecovered ==
  LET right(t, i) ==
        LET key == StoredKey(t, i)
        IN str[t.ids[i]] = Append(str[key \div SymbSize], key % SymbSize)
  IN (\A i \in Taken(ht) : right(ht, i)) /\ (\A i \in Taken(new_ht) : right(new_ht, i))

\* A child that was added is found under its id, one that was not is not found.
Findable ==
  phase = "ready" /\ ht.size > 0 =>
    \A n \in DOMAIN str, s \in Symbols :
      LET w == Append(str[n], s)
          c == FindChild(ht, n, s)
      IN IF \E j \in DOMAIN str : str[j] = w
         THEN c \in DOMAIN str /\ str[c] = w
         ELSE c = NilId

\* No call of find_child or add_child probes for ever, and neither does the
\* copy of a slot.
CallsTerminate ==
  /\ phase = "ready" => \A n \in DOMAIN str, s \in Symbols : Terminates(ht, n, s)
  /\ phase = "copy" /\ pos \in Taken(ht) => HasRoomFor(new_ht, StoredKey(ht, pos))

\* The ids in the table are 1 .. size - 1, each in one slot, and the table
\* that is being filled has those of the slots copied so far, under the keys
\* they were added with.
IdsKept ==
  LET idsOf(t, upto) == {t.ids[i] : i \in {j \in Taken(t) : j < upto}}
  IN /\ idsOf(ht, ht.capa) = 1 .. ht.size-1
     /\ \A i, j \in Taken(ht) : ht.ids[i] = ht.ids[j] => i = j
     /\ phase = "copy" =>
          /\ idsOf(new_ht, new_ht.capa) = idsOf(ht, pos)
          /\ Cardinality(Taken(new_ht)) = Cardinality(idsOf(ht, pos))
     /\ KeysRecovered

\* The trie seen by its owner: strings to the ids add_child returned last.
Ids ==
  [w \in {str[i] : i \in DOMAIN str} |->
     CHOOSE i \in DOMAIN str : str[i] = w /\ \A j \in DOMAIN str : str[j] = w => j <= i]

Abstract == INSTANCE DynamicTrie WITH Symbol <- Symbols, ids <- Ids

\* The compact table implements the dynamic trie whose ids never change: no
\* node is added a second time, before or after growth.
ImplementsStableTrie == Abstract!StableSpec
----------------------------------------------------------------------------
(***************************************************************************)
(* The inductive invariant.                                                *)
(***************************************************************************)
\* No two nodes have the same string, and the root has the empty one.
Strings ==
  /\ ht.size \in Nat /\ ht.size <= MaxSizeOf(ht.capa)
  /\ str \in [0 .. ht.size-1 -> Seq(Symbols)]
  /\ ht.size > 0 => str[RootId] = <<>>
  /\ \A i, j \in DOMAIN str : str[i] = str[j] => i = j

\* Displacements are kept for the taken slots, and none goes once around.
Formed(t) ==
  /\ DOMAIN t = {"table", "ids", "cht", "map", "size", "capa"}
  /\ t.capa \in Capas /\ IsTable(t)
  /\ AuxComplete(t, Taken(t))
  /\ \A i \in Taken(t) : GetDsp(t, i) \in Slots(t)

\* A probe for a stored key comes to its slot before it comes to a free one.
Chained(t) ==
  \A i \in Taken(t) : \A d \in 0 .. GetDsp(t, i) - 1 :
    At(t.capa, ModOf(t, StoredKey(t, i)), d) \notin Vacant(t)

\* The key in a slot leads from the string of the parent to that of the node,
\* whose id is in no other slot.
Spelled(t, f) ==
  /\ \A i \in Taken(t) :
       LET key == StoredKey(t, i)
       IN /\ t.ids[i] \in DOMAIN f \ {RootId} /\ key \div SymbSize \in DOMAIN f
          /\ f[t.ids[i]] = Append(f[key \div SymbSize], key % SymbSize)
  /\ \A i, j \in Taken(t) : t.ids[i] = t.ids[j] => i = j

Sound(t, f) == Formed(t) /\ Chained(t) /\ Spelled(t, f)

IdsBelow(t, p) == {t.ids[i] : i \in {j \in Taken(t) : j < p}}

\* At rest the table holds every node but the root; while it grows the new
\* table holds the nodes of the slots before pos.
IndInv ==
  /\ Strings /\ Sound(ht, str)
  /\ IdsBelow(ht, ht.capa) = 1 .. ht.size-1
  /\ \/ phase = "ready" /\ pos = 0 /\ new_ht = NewTrie(0)
     \/ /\ phase = "copy" /\ ht.size > 0 /\ pos \in 0 .. ht.capa
        /\ arg \in [node : DOMAIN str, symb : Symbols]
        /\ new_ht.capa = 2 * ht.capa /\ Sound(new_ht, str)
        /\ IdsBelow(new_ht, new_ht.capa) = IdsBelow(ht, pos)
=============================================================================
