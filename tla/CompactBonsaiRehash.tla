------------------------ MODULE CompactBonsaiRehash ------------------------
(***************************************************************************)
(* A compact_bonsai_trie in use: its owner adds the root, adds children to *)
(* nodes it knows, and calls expand() when the table asks for it.  expand  *)
(* is modelled iteration by iteration, as in PlainBonsaiRehash.  Here the  *)
(* keys are not in the table: every climb inverts the hash.  And a slot is *)
(* narrower than a node id: the node map that is built in the old table    *)
(* has the high parts of the ids in a second vector.                       *)
(*                                                                         *)
(* str and new_str are history variables: the string of symbols on the way *)
(* from the root to a node, for the nodes of ht and of new_ht.             *)
(***************************************************************************)
EXTENDS CompactBonsaiTrie

CONSTANT MaxNodes    \* bound of the runs

VARIABLES
  ht,        \* the trie; during expand its table becomes the low part of the map
  phase,     \* "ready", or the loop of expand that runs: "scan", "climb", "graft"
  pos,       \* i, the outer loop's counter
  node_id,   \* the node the climb has come to
  path,      \* the nodes climbed from, deepest first, with their symbols
  cur,       \* new_node_id
  done,      \* done_flags, as a set of slots
  map_high,
  new_ht,    \* the trie being filled
  str, new_str

expandVars == <<pos, node_id, path, cur, done, map_high, new_ht, new_str>>
vars == <<ht, phase, str, expandVars>>

NoStrings == [j \in {} |-> <<>>]
RootString == [j \in {RootId} |-> <<>>]

LowSize == SymbSize * Dsp1Size    \* 2^width of a slot

\* Whether there is a second vector for the high parts.
Split(t) == LowSize < 2 * t.capa

\* get_mapping
Mapped(i) == IF Split(ht) THEN ht.table[i] + LowSize * map_high[i] ELSE ht.table[i]

\* Mutant: the high part of a new id is not stored.
SetMapping_Low(i, v) == ht' = [ht EXCEPT !.table[i] = v % LowSize] /\ UNCHANGED map_high

\* Mutant: a new id is written to the slot whole, and truncated there.
SetMapping_Whole(i, v) == ht' = [ht EXCEPT !.table[i] = v] /\ UNCHANGED map_high

\* set_mapping
SetMapping(i, v) ==
  /\ ht' = [ht EXCEPT !.table[i] = IF Split(ht) THEN v % LowSize ELSE v]
  /\ map_high' = IF Split(ht) THEN [map_high EXCEPT ![i] = v \div LowSize] ELSE map_high

\* f extended with the string of the node that an add_child call returned.
Named(f, r, n, s) == IF r.added THEN Extended(f, r.node, Append(f[n], s)) ELSE f

Init ==
  /\ ht = NewTrie(0) /\ phase = "ready" /\ str = NoStrings
  /\ pos = 0 /\ node_id = 0 /\ path = <<>> /\ cur = 0 /\ done = {} /\ map_high = <<>>
  /\ new_ht = NewTrie(0) /\ new_str = NoStrings

InsertRoot ==
  /\ phase = "ready" /\ ht.size = 0
  /\ ht' = AddRoot(ht) /\ str' = RootString
  /\ UNCHANGED <<phase, expandVars>>

InsertChild(n, s) ==
  /\ phase = "ready" /\ ht.size > 0
  /\ Terminates(ht, n, s)
  /\ LET r == AddChild(ht, n, s)
     IN /\ r.trie.size <= MaxNodes    \* bound
        /\ ht' = r.trie
        /\ str' = Named(str, r, n, s)
  /\ UNCHANGED <<phase, expandVars>>

BeginExpand ==
  /\ phase = "ready" /\ ht.size > 0 /\ NeedsToExpand(ht)
  /\ 2 * ht.capa \in Capas    \* bound
  /\ phase' = "scan" /\ pos' = 1
  /\ new_ht' = AddRoot(NewTrie(2 * ht.capa)) /\ new_str' = RootString
  /\ done' = {RootId}
  /\ map_high' = IF Split(ht) THEN [i \in Slots(ht) |-> 0] ELSE <<>>
  /\ UNCHANGED <<ht, node_id, path, cur, str>>

\* Mutant: a slot is skipped without a look at it.
Skip_Any ==
  /\ phase = "scan" /\ pos < ht.capa
  /\ pos' = pos + 1
  /\ UNCHANGED <<ht, phase, node_id, path, cur, done, map_high, new_ht, str, new_str>>

Skip ==
  /\ phase = "scan" /\ pos < ht.capa
  /\ pos \in done \/ CompareDsp(ht, pos, 0)
  /\ pos' = pos + 1
  /\ UNCHANGED <<ht, phase, node_id, path, cur, done, map_high, new_ht, str, new_str>>

BeginPath ==
  /\ phase = "scan" /\ pos < ht.capa
  /\ pos \notin done /\ ~CompareDsp(ht, pos, 0)
  /\ phase' = "climb" /\ path' = <<>> /\ node_id' = pos
  /\ UNCHANGED <<ht, pos, cur, done, map_high, new_ht, str, new_str>>

\* One iteration of the do loop; the climb ends at a node already moved.
Climb ==
  /\ phase = "climb"
  /\ path' = Append(path, [node |-> node_id, label |-> Symb(ht, node_id)])
  /\ node_id' = Parent(ht, node_id)
  /\ IF node_id' \in done
     THEN phase' = "graft" /\ cur' = Mapped(node_id')
     ELSE UNCHANGED <<phase, cur>>
  /\ UNCHANGED <<ht, pos, done, map_high, new_ht, str, new_str>>

\* One iteration of the loop that re-inserts the path, nearest to the root
\* first.
Graft ==
  /\ phase = "graft"
  /\ LET top == path[Len(path)]
         r == AddChild(new_ht, cur, top.label)
     IN /\ Terminates(new_ht, cur, top.label)
        /\ new_ht' = r.trie
        /\ new_str' = Named(new_str, r, cur, top.label)
        /\ cur' = r.node
        /\ SetMapping(top.node, r.node)
        /\ done' = done \cup {top.node}
  /\ path' = SubSeq(path, 1, Len(path) - 1)
  /\ phase' = IF path' = <<>> THEN "scan" ELSE "graft"
  /\ UNCHANGED <<pos, node_id, str>>

\* The swap: new_ht becomes the trie, the old table, map_high and done go to
\* the caller as the node map.
EndExpand ==
  /\ phase = "scan" /\ pos = ht.capa
  /\ phase' = "ready"
  /\ ht' = new_ht /\ str' = new_str
  /\ pos' = 0 /\ node_id' = 0 /\ path' = <<>> /\ cur' = 0 /\ done' = {} /\ map_high' = <<>>
  /\ new_ht' = NewTrie(0) /\ new_str' = NoStrings

Expanding == Skip \/ BeginPath \/ Climb \/ Graft \/ EndExpand

Next ==
  \/ InsertRoot
  \/ \E n \in Nodes(ht), s \in Symbols : InsertChild(n, s)
  \/ BeginExpand
  \/ Expanding

Spec == Init /\ [][Next]_vars

----------------------------------------------------------------------------
IsTable(t) == t.table \in [Slots(t) -> 0 .. LowSize - 1] /\ t.size \in Nat

\* The types of all variables: what is written to a slot fits its width, new
\* ids included.
TypeOK ==
  /\ phase \in {"ready", "scan", "climb", "graft"}
  /\ IsTable(new_ht)
  /\ ht.table \in [Slots(ht) -> Nat] /\ (phase = "ready" \/ Split(ht) => IsTable(ht))
  /\ pos \in 0 .. ht.capa
  /\ {node_id} \cup done \subseteq Slots(ht) /\ cur \in Slots(new_ht)

\* Every displacement that does not fit into its slot is in one of the two
\* tables: the assertion in compare_dsp_ holds.
DisplacementsKept ==
  /\ phase = "ready" => AuxComplete(ht, Children(ht))
  /\ AuxComplete(new_ht, Children(new_ht))

\* find_child finds every child that add_child or expand stored and no other,
\* although a slot does not hold the key.
Findable ==
  phase = "ready" =>
    \A n \in DOMAIN str, s \in Symbols :
      LET w == Append(str[n], s)
          c == FindChild(ht, n, s)
      IN IF \E j \in DOMAIN str : str[j] = w
         THEN c \in DOMAIN str /\ str[c] = w
         ELSE c = NilId

\* While the node map overwrites the table, an entry marked done has the slot
\* of that very node in the new table, in one or two parts, and an entry not
\* yet done still has its quotient and its displacement.
NodeMapSound ==
  phase # "ready" =>
    /\ done \subseteq DOMAIN str
    /\ \A j \in DOMAIN str :
         IF j \in done
         THEN Mapped(j) \in DOMAIN new_str /\ new_str[Mapped(j)] = str[j]
         ELSE Parent(ht, j) \in DOMAIN str /\ str[j] = Append(str[Parent(ht, j)], Symb(ht, j))

\* size() counts the nodes, and when the outer loop is over every node has
\* moved.
NothingLost ==
  /\ phase = "ready" => ht.size = Cardinality(DOMAIN str)
  /\ phase = "scan" /\ pos = ht.capa => done = DOMAIN str /\ new_ht.size = ht.size

\* The trie seen by its owner: strings to ids.
IdsOf(f) == [w \in {f[j] : j \in DOMAIN f} |-> CHOOSE j \in DOMAIN f : f[j] = w]
Ids == IdsOf(str)

Abstract == INSTANCE DynamicTrie WITH Symbol <- Symbols, ids <- Ids

\* The compact table implements the same dynamic trie as the plain one.
ImplementsDynamicTrie == Abstract!Spec
----------------------------------------------------------------------------
(* The inductive invariant. *)

\* A table made by the calls: displacements are kept for the slots that hold a
\* child, none goes once around, and the root's slot stays zero.
Formed(t) ==
  /\ DOMAIN t = {"table", "cht", "map", "size", "capa"}
  /\ t.capa \in Capas /\ IsTable(t)
  /\ t.table[RootId] = 0
  /\ AuxComplete(t, Children(t))
  /\ \A i \in Children(t) : GetDsp(t, i) \in 1 .. t.capa

\* f gives the nodes of t their strings.
Spells(t, f) ==
  /\ DOMAIN f = IF t.size = 0 THEN {} ELSE Nodes(t)
  /\ \A i \in DOMAIN f : f[i] \in Seq(Symbols)
  /\ \A i, j \in DOMAIN f : f[i] = f[j] => i = j

\* A probe for a stored key comes to its slot before it comes to a free one.
Chained(t) ==
  \A i \in Children(t) : \A d \in 0 .. GetDsp(t, i) - 2 :
    At(t.capa, ModOf(t, ParentKey(t, i)), d) \notin Vacant(t)

\* The keys recovered from the table spell the strings.
Rooted(t, f) ==
  /\ t.size > 0 => f[RootId] = <<>>
  /\ \A i \in Children(t) :
       /\ Parent(t, i) \in Nodes(t)
       /\ f[i] = Append(f[Parent(t, i)], Symb(t, i))

Counted(t) ==
  /\ IF t.size = 0 THEN Children(t) = {} ELSE t.size = Cardinality(Nodes(t))
  /\ t.size <= MaxSizeOf(t.capa)

Sound(t, f) == Formed(t) /\ Spells(t, f) /\ Chained(t) /\ Rooted(t, f) /\ Counted(t)

\* What is left of the old table while its slots become the node map: the slots
\* that held no node still look free, those of nodes not yet moved do not.
Reading ==
  /\ DOMAIN ht = {"table", "cht", "map", "size", "capa"}
  /\ ht.capa \in Capas /\ 2 * ht.capa \in Capas
  /\ ht.table \in [Slots(ht) -> Nat] /\ (Split(ht) => IsTable(ht))
  /\ Split(ht) => map_high \in [Slots(ht) -> Nat]
  /\ DOMAIN str \subseteq Slots(ht) /\ RootId \in DOMAIN str /\ str[RootId] = <<>>
  /\ \A i \in DOMAIN str : str[i] \in Seq(Symbols)
  /\ \A i, j \in DOMAIN str : str[i] = str[j] => i = j
  /\ ht.size = Cardinality(DOMAIN str) /\ ht.size <= MaxSizeOf(ht.capa)
  /\ \A i \in Slots(ht) \ done : i \in DOMAIN str <=> ~CompareDsp(ht, i, 0)

Moving ==
  /\ Reading /\ NodeMapSound
  /\ Sound(new_ht, new_str)
  /\ new_ht.capa = 2 * ht.capa
  /\ new_ht.size = Cardinality(done)
  /\ RootId \in done
  /\ {new_str[j] : j \in DOMAIN new_str} = {str[i] : i \in done}
  /\ pos \in 1 .. ht.capa
  /\ \A i \in DOMAIN str : i < pos => i \in done
  /\ node_id \in Slots(ht) /\ cur \in Slots(new_ht)

\* The string the top of the path hangs from.
Anchor == IF phase = "climb" THEN str[node_id] ELSE new_str[cur]

\* The path leads from the node at pos up to the anchor, one parent at a time,
\* over nodes not yet moved.
OnPath ==
  /\ path \in Seq([node : DOMAIN str \ done, label : Symbols])
  /\ \A k \in DOMAIN path :
       str[path[k].node] =
         Append(IF k = Len(path) THEN Anchor ELSE str[path[k+1].node], path[k].label)
  /\ \A k, l \in DOMAIN path : k < l => Len(str[path[k].node]) > Len(str[path[l].node])
  /\ path # <<>> => path[1].node = pos

IndInv ==
  /\ phase \in {"ready", "scan", "climb", "graft"}
  /\ IF phase = "ready"
     THEN /\ Sound(ht, str)
          /\ pos = 0 /\ node_id = 0 /\ path = <<>> /\ cur = 0 /\ done = {} /\ map_high = <<>>
          /\ new_ht = NewTrie(0) /\ new_str = NoStrings
     ELSE Moving
  /\ phase = "scan" => path = <<>>
  /\ phase = "climb" =>
       /\ OnPath
       /\ node_id \in DOMAIN str \ done
       /\ path = <<>> => node_id = pos
       /\ \A k \in DOMAIN path : Len(str[path[k].node]) > Len(str[node_id])
  /\ phase = "graft" =>
       OnPath /\ path # <<>> /\ cur \in Nodes(new_ht)
=============================================================================
