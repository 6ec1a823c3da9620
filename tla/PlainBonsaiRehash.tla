------------------------- MODULE PlainBonsaiRehash -------------------------
(***************************************************************************)
(* A plain_bonsai_trie in use: its owner adds the root, adds children to   *)
(* nodes it knows, and calls expand() when the table asks for it.  expand  *)
(* is modelled iteration by iteration of its three nested loops, because   *)
(* what it does is delicate: it walks from every node to the nearest       *)
(* ancestor already moved, re-inserts that path into a table twice as      *)
(* large, where every node gets a new id, and keeps the new ids in the     *)
(* slots of the table it is still reading (done_flags tells them apart).   *)
(*                                                                         *)
(* str and new_str are history variables: the string of symbols on the way *)
(* from the root to a node, for the nodes of ht and of new_ht.  No guard   *)
(* reads them.                                                             *)
(***************************************************************************)
EXTENDS PlainBonsaiTrie

CONSTANTS MaxCapa, MaxNodes    \* bounds of the runs

VARIABLES
  ht,        \* the trie; during expand its table is the node map being built
  phase,     \* "ready", or the loop of expand that runs: "scan", "climb", "graft"
  pos,       \* i, the outer loop's counter
  node_id,   \* the node the climb has come to
  path,      \* the nodes climbed from, deepest first, with their symbols
  cur,       \* new_node_id
  done,      \* done_flags, as a set of slots
  new_ht,    \* the trie being filled
  str, new_str

expandVars == <<pos, node_id, path, cur, done, new_ht, new_str>>
vars == <<ht, phase, str, expandVars>>

Init ==
  /\ ht = NewTrie(0)
  /\ phase = "ready"
  /\ str = NoStrings
  /\ pos = 0 /\ node_id = 0 /\ path = <<>> /\ cur = 0 /\ done = {}
  /\ new_ht = NewTrie(0) /\ new_str = NoStrings

InsertRoot ==
  /\ phase = "ready" /\ ht.size = 0
  /\ ht' = AddRoot(ht)
  /\ str' = RootString
  /\ UNCHANGED <<phase, expandVars>>

InsertChild(n, s) ==
  /\ phase = "ready" /\ ht.size > 0
  /\ Terminates(ht, MakeKey(n, s))
  /\ LET r == AddChild(ht, n, s)
     IN /\ r.trie.size <= MaxNodes    \* bound
        /\ ht' = r.trie
        /\ str' = Named(str, r, n, s)
  /\ UNCHANGED <<phase, expandVars>>

\* Mutant: the root gets no entry in the node map.
BeginExpand_NoRoot ==
  /\ phase = "ready" /\ ht.size > 0 /\ NeedsToExpand(ht) /\ ht.capa < MaxCapa
  /\ phase' = "scan" /\ pos' = 2 /\ done' = {RootId}
  /\ new_ht' = AddRoot(NewTrie(2 * ht.capa)) /\ new_str' = RootString
  /\ UNCHANGED <<ht, node_id, path, cur, str>>

BeginExpand ==
  /\ phase = "ready" /\ ht.size > 0 /\ NeedsToExpand(ht)
  /\ ht.capa < MaxCapa    \* bound
  /\ phase' = "scan"
  /\ new_ht' = AddRoot(NewTrie(2 * ht.capa))
  /\ new_str' = RootString
  /\ done' = {RootId}
  /\ ht' = SetSlot(ht, RootId, RootId)
  /\ pos' = 2
  /\ UNCHANGED <<node_id, path, cur, str>>

\* Mutant: a slot is skipped without a look at it.
Skip_Any ==
  /\ phase = "scan" /\ pos < ht.capa
  /\ pos' = pos + 1
  /\ UNCHANGED <<ht, phase, node_id, path, cur, done, new_ht, str, new_str>>

\* Mutant: the counter stays at a slot that was moved with a path before.
Skip_Stays ==
  /\ phase = "scan" /\ pos < ht.capa
  /\ pos \in done \/ ht.table[pos] = 0
  /\ pos' = IF pos \in done THEN pos ELSE pos + 1
  /\ UNCHANGED <<ht, phase, node_id, path, cur, done, new_ht, str, new_str>>

Skip ==
  /\ phase = "scan" /\ pos < ht.capa
  /\ pos \in done \/ ht.table[pos] = 0
  /\ pos' = pos + 1
  /\ UNCHANGED <<ht, phase, node_id, path, cur, done, new_ht, str, new_str>>

BeginPath ==
  /\ phase = "scan" /\ pos < ht.capa
  /\ pos \notin done /\ ht.table[pos] # 0
  /\ phase' = "climb"
  /\ path' = <<>>
  /\ node_id' = pos
  /\ UNCHANGED <<ht, pos, cur, done, new_ht, str, new_str>>

\* One iteration of the do loop; the climb ends at a node already moved.
Climb ==
  /\ phase = "climb"
  /\ path' = Append(path, [node |-> node_id, label |-> Symb(ht, node_id)])
  /\ node_id' = Parent(ht, node_id)
  /\ IF node_id' \in done
     THEN phase' = "graft" /\ cur' = ht.table[node_id']
     ELSE UNCHANGED <<phase, cur>>
  /\ UNCHANGED <<ht, pos, done, new_ht, str, new_str>>

\* One iteration of the loop that re-inserts the path, nearest to the root
\* first.
Graft ==
  /\ phase = "graft"
  /\ LET top == path[Len(path)]
         r == AddChild(new_ht, cur, top.label)
     IN /\ Terminates(new_ht, MakeKey(cur, top.label))
        /\ new_ht' = r.trie
        /\ new_str' = Named(new_str, r, cur, top.label)
        /\ cur' = r.node
        /\ ht' = SetSlot(ht, top.node, r.node)
        /\ done' = done \cup {top.node}
  /\ path' = SubSeq(path, 1, Len(path) - 1)
  /\ phase' = IF path' = <<>> THEN "scan" ELSE "graft"
  /\ UNCHANGED <<pos, node_id, str>>

\* The swap: new_ht becomes the trie, the old table goes to the caller as
\* the node map.
EndExpand ==
  /\ phase = "scan" /\ pos = ht.capa
  /\ phase' = "ready"
  /\ ht' = new_ht
  /\ str' = new_str
  /\ pos' = 0 /\ node_id' = 0 /\ path' = <<>> /\ cur' = 0 /\ done' = {}
  /\ new_ht' = NewTrie(0) /\ new_str' = NoStrings

Expanding == Skip \/ BeginPath \/ Climb \/ Graft \/ EndExpand

Next ==
  \/ InsertRoot
  \/ \E n \in Nodes(ht), s \in Symbols : InsertChild(n, s)
  \/ BeginExpand
  \/ Expanding

Spec == Init /\ [][Next]_vars

\* expand is a loop on one thread: it goes on as long as it can.
FairSpec == Spec /\ WF_vars(Expanding)

----------------------------------------------------------------------------
\* The types of all variables; every slot number the loops of expand hold is
\* one of the table it indexes, and a string names at most one node.
TypeOK ==
  /\ phase \in {"ready", "scan", "climb", "graft"}
  /\ IsTrie(ht) /\ IsTrie(new_ht)
  /\ Spells(ht, str) /\ Spells(new_ht, new_str)
  /\ pos \in 0 .. ht.capa
  /\ done \subseteq Nodes(ht)
  /\ node_id \in Nodes(ht) \cup {0}
  /\ cur \in Nodes(new_ht) \cup {0}
  /\ path \in Seq([node : Children(ht), label : Symbols])

\* find_child finds every child that add_child or expand stored, in spite of
\* the slots in between that are full, reserved or beyond the end of the
\* table, and it reports no child that was not added.
Findable ==
  phase = "ready" =>
    \A n \in DOMAIN str, s \in Symbols :
      LET w == Append(str[n], s)
          c == FindChild(ht, n, s)
      IN IF \E i \in DOMAIN str : str[i] = w
         THEN c \in DOMAIN str /\ str[c] = w
         ELSE c = NilId

\* No call of find_child or add_child probes for ever: neither the calls the
\* owner may make nor the call expand is about to make on the new table.
CallsTerminate ==
  /\ phase = "ready" =>
       \A n \in DOMAIN str, s \in Symbols : Terminates(ht, MakeKey(n, s))
  /\ phase = "graft" =>
       Terminates(new_ht, MakeKey(cur, path[Len(path)].label))

\* The node map is sound while it is being built in the old table: an entry
\* marked done holds the slot in which the new table keeps that very node
\* (same string), and an entry not yet done is still its old key.
NodeMapSound ==
  phase # "ready" =>
    \A i \in Nodes(ht) :
      IF i \in done
      THEN ht.table[i] \in DOMAIN new_str /\ new_str[ht.table[i]] = str[i]
      ELSE Parent(ht, i) \in Nodes(ht) /\ str[i] = Append(str[Parent(ht, i)], Symb(ht, i))

\* expand drops no node: when its outer loop is over, the map has an entry
\* for every node there was, and the new table has no other node.
NothingLost ==
  phase = "scan" /\ pos = ht.capa =>
    /\ done = Nodes(ht)
    /\ {new_str[j] : j \in DOMAIN new_str} = {str[i] : i \in DOMAIN str}

\* size() counts the nodes, never exceeds max_size(), and growing leaves
\* room: the table that expand returns does not need to expand again.
SizeExact ==
  /\ ht.size > 0 => ht.size = Cardinality(Nodes(ht))
  /\ ht.size <= MaxSizeOf(ht.capa)
  /\ phase # "ready" =>
       /\ new_ht.size = Cardinality(done)
       /\ new_ht.size < MaxSizeOf(new_ht.capa)

\* expand returns, whatever the shape of the trie: no climb runs in circles
\* and every path is re-inserted.
ExpandReturns == phase # "ready" ~> phase = "ready"

\* The trie seen by its owner: strings to ids.
IdsOf(f) == [w \in {f[i] : i \in DOMAIN f} |-> CHOOSE i \in DOMAIN f : f[i] = w]
Ids == IdsOf(str)

Abstract == INSTANCE DynamicTrie WITH Symbol <- Symbols, ids <- Ids

\* The table implements the dynamic trie the map relies on: a call adds
\* exactly the child it was asked for and moves no other node, and expand
\* only renumbers.
ImplementsDynamicTrie == Abstract!Spec

----------------------------------------------------------------------------
(* The inductive invariant: what makes the properties above true. *)

\* The old table and the new one while nodes move from the first to the
\* second.
Moving ==
  /\ IsTrie(ht) /\ Spells(ht, str) /\ ht.size > 0 /\ Counted(ht)
  /\ Sound(new_ht, new_str)
  /\ new_ht.capa = 2 * ht.capa
  /\ new_ht.size = Cardinality(done)
  /\ RootId \in done /\ done \subseteq Nodes(ht) /\ str[RootId] = <<>>
  /\ NodeMapSound
  /\ {new_str[j] : j \in DOMAIN new_str} = {str[i] : i \in done}
  /\ pos \in 2 .. ht.capa
  /\ \A i \in Children(ht) : i < pos => i \in done

\* The string the top of the path hangs from.
Anchor == IF phase = "climb" THEN str[node_id] ELSE new_str[cur]

\* The path leads from the node at pos up to the anchor, one parent at a time,
\* over nodes not yet moved.
OnPath ==
  /\ path \in Seq([node : Children(ht) \ done, label : Symbols])
  /\ pos \in Children(ht)
  /\ \A k \in DOMAIN path :
       str[path[k].node] =
         Append(IF k = Len(path) THEN Anchor ELSE str[path[k+1].node], path[k].label)
  /\ \A k, l \in DOMAIN path : k < l => Len(str[path[k].node]) > Len(str[path[l].node])
  /\ path # <<>> => path[1].node = pos

IndInv ==
  /\ phase \in {"ready", "scan", "climb", "graft"}
  /\ IF phase = "ready"
     THEN /\ Sound(ht, str)
          /\ pos = 0 /\ node_id = 0 /\ path = <<>> /\ cur = 0 /\ done = {}
          /\ new_ht = NewTrie(0) /\ new_str = NoStrings
     ELSE Moving
  /\ phase = "scan" => path = <<>> /\ node_id \in Nodes(ht) \cup {0} /\ cur \in Nodes(new_ht) \cup {0}
  /\ phase = "climb" =>
       /\ OnPath
       /\ node_id \in Children(ht) \ done
       /\ path = <<>> => node_id = pos
       /\ \A k \in DOMAIN path : Len(str[path[k].node]) > Len(str[node_id])
       /\ cur \in Nodes(new_ht) \cup {0}
  /\ phase = "graft" =>
       OnPath /\ path # <<>> /\ cur \in Nodes(new_ht) /\ node_id \in Nodes(ht)
=============================================================================
