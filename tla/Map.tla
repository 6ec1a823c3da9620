-------------------------------- MODULE Map --------------------------------
(***************************************************************************)
(* poplar::map over any dynamic trie and node label map: the dynamic       *)
(* path-decomposed trie.  A node stands for a key; the label of the node   *)
(* holds what the key has in addition to the path from the root.  A child  *)
(* branches off its parent's label after match characters with character   *)
(* c, so that its edge symbol is the pair (code of c, match); where match  *)
(* is lambda or more, step nodes, of symbol step_symb and without a label, *)
(* take lambda characters each.                                            *)
(*                                                                         *)
(* A call of find or update is a walk from the root.  The constants stand  *)
(* for the template parameters; the operators among them are the members   *)
(* of the two classes, as functions of the object's state.                 *)
(***************************************************************************)
EXTENDS CodeTable, Sequences

CONSTANTS
  Lambda,         \* lambda_
  Key,            \* the keys calls are made with
  ValueOf(_),     \* the values a caller may write for a key
  MayThrow,       \* whether the keys use as many characters as there are codes
  RootId, NilId,  \* get_root() and nil_id
  EmptyTrie, EmptyLabels,  \* the objects the constructor makes
  Size(_),              \* Trie::size
  AddRoot(_),           \* Trie::add_root
  FindChild(_, _, _),   \* Trie::find_child
  AddChild(_, _, _),    \* Trie::add_child: the trie, the node, the value returned
  NeedsToExpand(_),     \* Trie::needs_to_expand
  Expand(_),            \* Trie::expand: the trie and the node map
  Nodes(_), Parent(_, _), Symb(_, _),  \* the nodes and edges in the table
  Compare(_, _, _),     \* NLM::compare
  Insert(_, _, _),      \* NLM::insert or append: the labels and the value's pointer
  InsertStep(_, _),     \* NLM::append_dummy
  ExpandLabels(_, _),   \* NLM::expand
  Value(_, _), Write(_, _, _),         \* through a pointer to a value
  Labelled(_), LabelAt(_, _),          \* the labels in the map
  Exact(_)                             \* its counters are right

VARIABLES
  hash_trie, label_store, size,
  pc,       \* where the running call is; "idle" between calls
  call,     \* the running or the last call, with the key it was given
  key,      \* the part of the key still to be matched
  node_id, match,
  ret       \* what the last call returned

vars == <<is_ready, hash_trie, label_store, codes, num_codes, size,
          pc, call, key, node_id, match, ret>>
members == <<is_ready, hash_trie, label_store, codes, num_codes, size>>

StepSymb == CodeMax

\* Mutant: the match is shifted by too little.
MakeSymb_Narrow(c, m) == codes[c] + CodeMax * m

MakeSymb(c, m) == codes[c] + (CodeMax + 1) * m

NoPtr == [id |-> NilId, at |-> 0]
Pending == [kind |-> "pending", ptr |-> NoPtr]
Null == [kind |-> "null", ptr |-> NoPtr]
Thrown == [kind |-> "thrown", ptr |-> NoPtr]
Pointer(ptr) == [kind |-> "value", ptr |-> ptr]

\* An object is default-constructed, or constructed with a capacity.
Init ==
  /\ InitCodes
  /\ hash_trie = EmptyTrie /\ label_store = EmptyLabels /\ size = 0
  /\ pc = "idle" /\ call = [op |-> "none", key |-> <<>>]
  /\ key = <<>> /\ node_id = NilId /\ match = 0 /\ ret = Null

Return(r) ==
  /\ pc' = "idle" /\ ret' = r
  /\ key' = <<>> /\ node_id' = NilId /\ match' = 0
  /\ UNCHANGED call

Call(op, k) ==
  /\ pc = "idle"
  /\ pc' = "start" /\ call' = [op |-> op, key |-> k] /\ key' = k /\ ret' = Pending
  /\ UNCHANGED <<members, node_id, match>>

\* The caller writes a value through the pointer update has just returned.
Assign(v) ==
  /\ pc = "idle" /\ call.op = "update" /\ ret.kind = "value"
  /\ v \in ValueOf(call.key)
  /\ label_store' = Write(label_store, ret.ptr, v)
  /\ UNCHANGED <<is_ready, hash_trie, codes, num_codes, size, pc, call, key, node_id, match, ret>>

Legal(k) == k # <<>> /\ k[Len(k)] = 0

Refuse ==
  /\ pc = "start" /\ ~Legal(key)
  /\ Return(Thrown)
  /\ UNCHANGED members

FindNothing ==
  /\ pc = "start" /\ Legal(key) /\ call.op = "find"
  /\ ~is_ready \/ Size(hash_trie) = 0
  /\ Return(Null)
  /\ UNCHANGED members

FirstUpdate ==
  /\ pc = "start" /\ Legal(key) /\ call.op = "update"
  /\ Size(hash_trie) = 0
  /\ SetUpCodes
  /\ size' = size + 1
  /\ hash_trie' = AddRoot(hash_trie)
  /\ LET r == Insert(label_store, RootId, key)
     IN label_store' = r.labels /\ Return(Pointer(r.ptr))

Descend ==
  /\ pc = "start" /\ Legal(key) /\ is_ready /\ Size(hash_trie) # 0
  /\ pc' = "compare" /\ node_id' = RootId
  /\ UNCHANGED <<members, call, key, match, ret>>

\* Mutant: after a mismatch the walk starts over at the root.
Match_Restarts ==
  /\ pc = "compare"
  /\ LET r == Compare(label_store, node_id, key)
     IN IF r.found
        THEN Return(Pointer(r.ptr))
        ELSE /\ pc' = "start"
             /\ key' = SubSeq(key, r.match + 1, Len(key))
             /\ UNCHANGED <<call, node_id, match, ret>>
  /\ UNCHANGED members

\* compare in the loop, or after it where the rest of the key is empty.
Match ==
  /\ pc = "compare"
  /\ LET r == Compare(label_store, node_id, key)
     IN IF r.found
        THEN Return(Pointer(r.ptr))
        ELSE /\ pc' = "step"
             /\ match' = r.match
             /\ key' = SubSeq(key, r.match + 1, Len(key))
             /\ UNCHANGED <<call, node_id, ret>>
  /\ UNCHANGED members

FindStep ==
  /\ pc = "step" /\ call.op = "find" /\ match >= Lambda
  /\ LET child == FindChild(hash_trie, node_id, StepSymb)
     IN IF child = NilId
        THEN Return(Null)
        ELSE /\ node_id' = child /\ match' = match - Lambda
             /\ UNCHANGED <<pc, call, key, ret>>
  /\ UNCHANGED members

FindBranch ==
  /\ pc = "step" /\ call.op = "find" /\ match < Lambda
  /\ LET child == FindChild(hash_trie, node_id, MakeSymb(Head(key), match))
     IN IF ~HasCode(Head(key)) \/ child = NilId
        THEN Return(Null)
        ELSE /\ pc' = "compare" /\ node_id' = child /\ key' = Tail(key)
             /\ UNCHANGED <<call, match, ret>>
  /\ UNCHANGED members

\* Mutant: the new node keeps the id it had before the table grew.
Settle_KeepsNode(t, n) ==
  IF NeedsToExpand(t)
  THEN LET e == Expand(t)
       IN [trie |-> e.trie, node |-> n, labels |-> ExpandLabels(label_store, e.map)]
  ELSE [trie |-> t, node |-> n, labels |-> label_store]

\* expand_if_needed_: the table may grow, and then the node that was just
\* added gets another id and all labels move.
Settle(t, n) ==
  IF NeedsToExpand(t)
  THEN LET e == Expand(t)
       IN [trie |-> e.trie, node |-> e.map[n], labels |-> ExpandLabels(label_store, e.map)]
  ELSE [trie |-> t, node |-> n, labels |-> label_store]

UpdateStep ==
  /\ pc = "step" /\ call.op = "update" /\ match >= Lambda
  /\ LET r == AddChild(hash_trie, node_id, StepSymb)
         s == Settle(r.trie, r.node)
     IN IF r.added
        THEN /\ hash_trie' = s.trie /\ node_id' = s.node
             /\ label_store' = InsertStep(s.labels, s.node)
        ELSE hash_trie' = r.trie /\ node_id' = r.node /\ UNCHANGED label_store
  /\ match' = match - Lambda
  /\ UNCHANGED <<is_ready, codes, num_codes, size, pc, call, key, ret>>

\* A character met for the first time at a branch gets the next code.
Encode ==
  /\ pc = "step" /\ call.op = "update" /\ match < Lambda
  /\ IF ~HasCode(Head(key))
     THEN /\ GiveCode(Head(key))
          /\ IF num_codes' = CodeMax
             THEN Return(Thrown)
             ELSE pc' = "branch" /\ UNCHANGED <<call, key, node_id, match, ret>>
     ELSE pc' = "branch" /\ UNCHANGED <<codes, num_codes, call, key, node_id, match, ret>>
  /\ UNCHANGED <<is_ready, hash_trie, label_store, size>>

UpdateBranch ==
  /\ pc = "branch"
  /\ LET r == AddChild(hash_trie, node_id, MakeSymb(Head(key), match))
         s == Settle(r.trie, r.node)
         i == Insert(s.labels, s.node, Tail(key))
     IN IF r.added
        THEN /\ hash_trie' = s.trie
             /\ label_store' = i.labels
             /\ size' = size + 1
             /\ Return(Pointer(i.ptr))
        ELSE /\ pc' = "compare" /\ hash_trie' = r.trie /\ node_id' = r.node /\ key' = Tail(key)
             /\ UNCHANGED <<label_store, size, call, match, ret>>
  /\ UNCHANGED <<is_ready, codes, num_codes>>

Running ==
  \/ Refuse \/ FindNothing \/ FirstUpdate \/ Descend \/ Match
  \/ FindStep \/ FindBranch \/ UpdateStep \/ Encode \/ UpdateBranch

Next ==
  \/ \E op \in {"find", "update"}, k \in Key : Call(op, k)
  \/ \E v \in UNION {ValueOf(k) : k \in Key} : Assign(v)
  \/ Running

Spec == Init /\ [][Next]_vars

----------------------------------------------------------------------------
(***************************************************************************)
(* The keys the trie and the labels spell together.                        *)
(***************************************************************************)
TrieNodes == IF Size(hash_trie) = 0 THEN {} ELSE Nodes(hash_trie)
IsStep(n) == n # RootId /\ Symb(hash_trie, n) = StepSymb
KeyNodes == {n \in TrieNodes : ~IsStep(n)}

\* What the symbol of key node n stands for.
SymbMatch(n) == Symb(hash_trie, n) \div (CodeMax + 1)
CharOf[code \in Nat] == CHOOSE c \in Chars : codes[c] = code
BranchChar(n) == CharOf[Symb(hash_trie, n) % (CodeMax + 1)]

\* What the key of node n has behind its branch: the label and the terminator,
\* unless that was the branch character.
Rest(n) ==
  LET chars == LabelAt(label_store, n).chars
  IN IF n # RootId /\ BranchChar(n) = 0 THEN chars ELSE Append(chars, 0)

\* Where a node is: the key node whose label its children branch off, how many
\* characters of this label the step nodes down to it account for, and the
\* characters from the root to the label.
Places == [base : Nat, skipped : Nat, path : Seq(Chars)]

\* The place of node n, given that of its parent.
Below(n) ==
  [p \in Places |->
     IF IsStep(n)
     THEN [base |-> p.base, skipped |-> p.skipped + Lambda, path |-> p.path]
     ELSE [base |-> n, skipped |-> 0,
           path |-> Append(p.path \o SubSeq(Rest(p.base), 1, p.skipped + SymbMatch(n)), BranchChar(n))]]

Place[n \in TrieNodes] ==
  IF n = RootId THEN [base |-> n, skipped |-> 0, path |-> <<>>]
  ELSE Below(n)[Place[Parent(hash_trie, n)]]

\* The node that key node n branches off, and the match it branches off at.
Above(n) == Place[Parent(hash_trie, n)].base
BranchMatch(n) == Place[Parent(hash_trie, n)].skipped + SymbMatch(n)

KeyAt(n) == Place[n].path \o Rest(n)
StoredAt(n) == Value(label_store, LabelAt(label_store, n).ptr)

----------------------------------------------------------------------------
(***************************************************************************)
(* What the map relies on its trie and its labels for: each operator says  *)
(* what one call does, whatever the implementation.                        *)
(***************************************************************************)
\* The rest of a key: empty, or the terminator is its last character and no other.
WellEnded(k) == k \in Seq(Chars) /\ \A i \in 1 .. Len(k) : (k[i] = 0) = (i = Len(k))

ChildrenBy(t, n, s) == {m \in Nodes(t) \ {RootId} : Parent(t, m) = n /\ Symb(t, m) = s}

\* add_root: the root is the only node, and children can be added to it.
AddsRoot(t) ==
  LET u == AddRoot(t)
  IN Nodes(u) = {RootId} /\ Size(u) # 0 /\ ~NeedsToExpand(u)

\* find_child: the child if there is one, and else nil_id.
FindsChild(t, n, s) ==
  LET m == FindChild(t, n, s)
  IN ChildrenBy(t, n, s) = IF m = NilId THEN {} ELSE {m}

\* add_child: a child that is new if there was none, and all other nodes stay.
AddsChild(t, n, s) ==
  LET r == AddChild(t, n, s)
  IN /\ ChildrenBy(r.trie, n, s) = {r.node}
     /\ Nodes(r.trie) = Nodes(t) \cup {r.node}
     /\ r.added = (r.node \notin Nodes(t)) /\ r.node \in Nat
     /\ r.added = (ChildrenBy(t, n, s) = {})
     /\ \A m \in Nodes(t) \ {RootId} : Parent(r.trie, m) = Parent(t, m) /\ Symb(r.trie, m) = Symb(t, m)
     /\ Size(r.trie) # 0 /\ (~r.added => ~NeedsToExpand(r.trie))

\* expand: every node keeps its edge under the id that the node map gives it.
Grows(t) ==
  LET e == Expand(t)
  IN /\ Nodes(e.trie) = {e.map[m] : m \in Nodes(t)} /\ Nodes(e.trie) \subseteq Nat
     /\ \A m, n \in Nodes(t) : e.map[m] = e.map[n] => m = n
     /\ e.map[RootId] = RootId
     /\ \A m \in Nodes(t) \ {RootId} :
          Parent(e.trie, e.map[m]) = e.map[Parent(t, m)] /\ Symb(e.trie, e.map[m]) = Symb(t, m)
     /\ Size(e.trie) # 0 /\ ~NeedsToExpand(e.trie)

\* The label of m in ls, with its value, is that of n in l.
SameLabel(ls, m, l, n) ==
  /\ LabelAt(l, n).chars = LabelAt(ls, m).chars
  /\ Value(l, LabelAt(l, n).ptr) = Value(ls, LabelAt(ls, m).ptr)

\* NLM::expand: the labels follow their nodes.
MovesLabels(ls, map) ==
  LET l == ExpandLabels(ls, map)
  IN /\ Labelled(l) = {map[m] : m \in Labelled(ls)}
     /\ \A m \in Labelled(ls) : SameLabel(ls, m, l, map[m])

\* insert, append: a label for the rest of a key, its value 0.
InsertsLabel(ls, n, k) ==
  LET i == Insert(ls, n, k)
  IN /\ Labelled(i.labels) = Labelled(ls) \cup {n}
     /\ \A m \in Labelled(ls) : SameLabel(ls, m, i.labels, m)
     /\ LabelAt(i.labels, n).chars = SubSeq(k, 1, Len(k) - 1)
     /\ LabelAt(i.labels, n).ptr = i.ptr /\ Value(i.labels, i.ptr) = 0

\* append_dummy: no label.
InsertsNone(ls, n) ==
  LET l == InsertStep(ls, n)
  IN Labelled(l) = Labelled(ls) /\ \A m \in Labelled(ls) : SameLabel(ls, m, l, m)

\* A write through a pointer: no other label or value changes.
WritesValue(ls, n, v) ==
  LET ptr == LabelAt(ls, n).ptr
      l == Write(ls, ptr, v)
  IN /\ Labelled(l) = Labelled(ls)
     /\ \A m \in Labelled(ls) \ {n} : SameLabel(ls, m, l, m)
     /\ LabelAt(l, n).chars = LabelAt(ls, n).chars
     /\ LabelAt(l, n).ptr = ptr /\ Value(l, ptr) = v

\* compare: whether k is the label's rest of a key, or else where they differ.
ComparesLabel(ls, n, k, rest) ==
  LET r == Compare(ls, n, k)
  IN IF r.found
     THEN k = rest /\ r.ptr = LabelAt(ls, n).ptr
     ELSE /\ r.match \in 0 .. Len(k) - 1 /\ r.match < Len(rest)
          /\ \A i \in 1 .. r.match : k[i] = rest[i]
          /\ k[r.match + 1] # rest[r.match + 1]

\* The calls that add a child keep their promises, and those made where the
\* table has to grow after it; s is the symbol of the edge.
AddingKept(s) ==
  LET r == AddChild(hash_trie, node_id, s)
  IN /\ AddsChild(hash_trie, node_id, s)
     /\ r.added /\ NeedsToExpand(r.trie) => Grows(r.trie) /\ MovesLabels(label_store, Expand(r.trie).map)

\* The objects the constructor makes are empty.
NewKept == Size(EmptyTrie) = 0 /\ Labelled(EmptyLabels) = {} /\ RootId \in Nat

\* The first update makes the root and its label, in an empty trie.
FirstKept ==
  pc = "start" /\ Size(hash_trie) = 0 /\ Labelled(label_store) = {} /\ WellEnded(key) /\ key # <<>> =>
    AddsRoot(hash_trie) /\ InsertsLabel(label_store, RootId, key)

\* A comparison is with the label of a node, and both rests of keys are terminated.
CompareKept ==
  pc = "compare" /\ node_id \in Labelled(label_store) /\ WellEnded(key) /\ WellEnded(Rest(node_id))
  /\ (key = <<>>) = (Rest(node_id) = <<>>) =>
    ComparesLabel(label_store, node_id, key, Rest(node_id))

\* A child is looked for under a node of the trie.
FindKept ==
  pc = "step" /\ call.op = "find" /\ node_id \in TrieNodes =>
    IF match >= Lambda
    THEN FindsChild(hash_trie, node_id, StepSymb)
    ELSE HasCode(Head(key)) => FindsChild(hash_trie, node_id, MakeSymb(Head(key), match))

\* A step node is added where the table has room, and it gets no label;
AddStepKept ==
  pc = "step" /\ call.op = "update" /\ match >= Lambda /\ node_id \in TrieNodes /\ ~NeedsToExpand(hash_trie) =>
    LET r == AddChild(hash_trie, node_id, StepSymb)
        u == Settle(r.trie, r.node)
    IN AddingKept(StepSymb) /\ (r.added /\ u.node \notin Labelled(u.labels) => InsertsNone(u.labels, u.node))

\* a node for a key gets the label that it does not have yet.
AddBranchKept ==
  pc = "branch" /\ node_id \in TrieNodes /\ ~NeedsToExpand(hash_trie) =>
    LET s == MakeSymb(Head(key), match)
        r == AddChild(hash_trie, node_id, s)
        u == Settle(r.trie, r.node)
    IN /\ AddingKept(s)
       /\ r.added /\ u.node \notin Labelled(u.labels) /\ WellEnded(key) =>
            InsertsLabel(u.labels, u.node, Tail(key))

\* A write is through the pointer to the value of a label.
WriteKept ==
  pc = "idle" /\ ret.kind = "value" =>
    \A n \in Labelled(label_store), v \in ValueOf(call.key) :
      LabelAt(label_store, n).ptr = ret.ptr => WritesValue(label_store, n, v)

\* Every call that the map may make next keeps its promise, provided that the
\* map keeps to what the call asks for.
PromisesKept ==
  /\ NewKept /\ FirstKept /\ CompareKept /\ FindKept
  /\ AddStepKept /\ AddBranchKept /\ WriteKept

----------------------------------------------------------------------------
(* Properties *)

\* What compare promises to a walk: a mismatch is before the end of the key.
MatchInKey ==
  pc = "compare" =>
    LET r == Compare(label_store, node_id, key)
    IN r.found \/ r.match \in 0 .. Len(key) - 1

\* A step or a branch starts before the end of the key.
KeyLeft == pc \in {"step", "branch"} => key # <<>> /\ Head(key) \in Chars

\* The types of all variables; a walk compares with the label of a node of
\* the trie only, and a step or a branch starts before the end of the key.
TypeOK ==
  /\ is_ready \in BOOLEAN
  /\ codes \in [Chars -> 0 .. CodeMax] /\ num_codes \in Nat /\ size \in Nat
  /\ pc \in {"idle", "start", "compare", "step", "branch"}
  /\ pc = "compare" => node_id \in KeyNodes
  /\ pc \in {"step", "branch"} => node_id \in TrieNodes
  /\ MatchInKey /\ KeyLeft
  /\ match \in Nat /\ (pc = "branch" => match < Lambda)
  /\ ret.kind \in {"null", "thrown", "pending", "value"}
  /\ ret.kind = "value" => ret.ptr \in {LabelAt(label_store, n).ptr : n \in KeyNodes}

\* Exactly the nodes that stand for a key have a label: growing the table
\* takes every label along with its node, even when it happens between the
\* insertion of a node and that of its label.
LabelsFollowNodes == Labelled(label_store) = KeyNodes

\* Every child branches off inside its parent's label, and with another
\* character than the label has there: no key is on two paths.
BranchesDiffer ==
  \A n \in KeyNodes \ {RootId} :
    /\ BranchMatch(n) < Len(Rest(Above(n)))
    /\ Rest(Above(n))[BranchMatch(n) + 1] # BranchChar(n)

\* size() is the number of registered keys: no key has two nodes, and what a
\* failed update leaves behind counts for nothing.
SizeIsKeys ==
  /\ size = Cardinality({KeyAt(n) : n \in KeyNodes})
  /\ size = Cardinality(KeyNodes)

\* The assertion in make_symb_: a branch character has a code, and not the
\* one that is kept for step nodes.
CodeAssigned == pc = "branch" => HasCode(Head(key))

\* The bytes and labels counted are those that are there: growth takes them
\* along exactly, and each label is found by the lengths of those before it.
LabelsExact == Exact(label_store)

\* The associative array that the trie and the labels represent, and what the
\* pointer returned points to.
Store == {<<KeyAt(n), StoredAt(n)>> : n \in KeyNodes}

RetValue == IF ret.kind = "value" THEN Value(label_store, ret.ptr) ELSE 0

Abstract ==
  INSTANCE AssocArray WITH
    LegalKey <- {k \in Key : Legal(k)}, Values <- UNION {ValueOf(k) : k \in Key},
    store <- Store, ret <- [kind |-> ret.kind, value |-> RetValue]

\* The map is the associative array its users are promised, whatever the
\* trie, the labels and the codes go through on the way, growth and
\* exceptions included.
ImplementsAssocArray == Abstract!Spec
=============================================================================
