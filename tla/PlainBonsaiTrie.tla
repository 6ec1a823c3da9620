-------------------------- MODULE PlainBonsaiTrie --------------------------
(***************************************************************************)
(* plain_bonsai_trie: an m-Bonsai trie in one open-addressing table.  The  *)
(* id of a node is the slot it sits in, and the slot holds the pair        *)
(* (parent id, symbol) packed into one integer, the key.  A trie is the    *)
(* record of the members of the class; the capacity is kept instead of its *)
(* logarithm, so that capa_bits + 1 is 2 * capa.                           *)
(***************************************************************************)
EXTENDS LinearProbing, Sequences, FiniteSets, SequencesExt

CONSTANTS
  MinCapa,    \* 2^min_capa_bits
  MaxFactor,  \* load factor in percent at which the table grows
  SymbSize,   \* number of edge symbols
  Words,      \* number of values of the hash argument, 2^64
  Hash        \* Hasher::hash, a function of 0 .. Words-1

\* What the template parameters and static_asserts grant, and that the
\* smallest table keeps a free slot besides the two reserved ones when it
\* is full (65536 * 10% in the source).
ASSUME TrieAssumption ==
  /\ MinCapa \in Nat
  /\ MaxFactor \in 1 .. 99
  /\ MinCapa * (100 - MaxFactor) >= 200
  /\ MinCapa * MaxFactor >= 200
  /\ SymbSize \in Nat \ {0}
  /\ Words \in Nat \ {0}
  /\ Hash \in [0 .. Words-1 -> Nat]

Symbols == 0 .. SymbSize - 1

NilId == -1
RootId == 1
Reserved == {0, RootId}    \* slots no key is ever stored in

Slots(t) == 0 .. t.capa - 1
\* Mutant: tables fill up completely.
MaxSizeOf_Full(c) == c

MaxSizeOf(c) == (c * MaxFactor) \div 100

MakeKey(n, s) == n * SymbSize + s

\* The constructor: an empty table of at least the minimal capacity.
NewTrie(capa) ==
  LET c == IF capa < MinCapa THEN MinCapa ELSE capa
  IN [table |-> [i \in 0 .. c-1 |-> 0], size |-> 0, capa |-> c]

AddRoot(t) == [t EXCEPT !.size = 1]

\* table_.set(i, x)
SetSlot(t, i, x) == [t EXCEPT !.table = [t.table EXCEPT ![i] = x]]

NeedsToExpand(t) == MaxSizeOf(t.capa) <= t.size

\* The slots of a trie that hold a node other than the root.
Children(t) == {i \in Slots(t) \ Reserved : t.table[i] # 0}
Nodes(t) == Children(t) \cup {RootId}
Vacant(t) == {i \in Slots(t) \ Reserved : t.table[i] = 0}

Home(t, key) == Hash[key % Words] % t.capa

\* Mutant: the probe does not compare the key of a slot.
Stops_NoCompare(t, key) == Vacant(t)

\* Where the loops of find_child and add_child return.
Stops(t, key) == Vacant(t) \cup {i \in Slots(t) \ Reserved : t.table[i] = key}
Slot(t, key) == ProbeEnd(t.capa, Home(t, key), Stops(t, key))
Terminates(t, key) == ProbeEnds(t.capa, Home(t, key), Stops(t, key))

\* Mutant: the probe does not skip the reserved slot 0.
FindChild_NoSkip(t, n, s) ==
  LET key == MakeKey(n, s)
      i == ProbeEnd(t.capa, Home(t, key), Stops(t, key) \cup {0})
  IN IF t.size = 0 \/ t.table[i] = 0 THEN NilId ELSE i

FindChild(t, n, s) ==
  LET i == Slot(t, MakeKey(n, s))
  IN IF t.size = 0 \/ i \in Vacant(t) THEN NilId ELSE i

\* Mutant: the new node is not counted.
AddChild_NoCount(t, n, s) ==
  LET key == MakeKey(n, s)
      i == Slot(t, key)
  IN IF i \in Vacant(t)
     THEN [trie |-> SetSlot(t, i, key), node |-> i, added |-> TRUE]
     ELSE [trie |-> t, node |-> i, added |-> FALSE]

\* add_child changes its node_id argument: the result is the trie, the new
\* value of the argument, and the value returned.
AddChild(t, n, s) ==
  LET key == MakeKey(n, s)
      i == Slot(t, key)
  IN IF i \notin Vacant(t)
     THEN [trie |-> t, node |-> i, added |-> FALSE]
     ELSE IF t.size = MaxSizeOf(t.capa)
     THEN [trie |-> t, node |-> n, added |-> FALSE]
     ELSE [trie |-> [table |-> [t.table EXCEPT ![i] = key], size |-> t.size + 1, capa |-> t.capa],
           node |-> i, added |-> TRUE]

\* get_parent_and_symb
Parent(t, i) == t.table[i] \div SymbSize
Symb(t, i) == t.table[i] % SymbSize

----------------------------------------------------------------------------
(***************************************************************************)
(* What makes a table a trie.  A node is named by its string, the symbols  *)
(* on the way from the root to it; f gives the string of each node of t.   *)
(***************************************************************************)
NoStrings == [j \in {} |-> <<>>]
RootString == [j \in {RootId} |-> <<>>]

\* f extended with the string of the node that an add_child call returned.
Named(f, r, n, s) ==
  IF r.added THEN [j \in DOMAIN f \cup {r.node} |-> IF j = r.node THEN Append(f[n], s) ELSE f[j]]
             ELSE f

IsTrie(t) ==
  /\ t = [table |-> t.table, size |-> t.size, capa |-> t.capa]
  /\ t.capa \in Nat /\ t.capa >= MinCapa
  /\ t.table \in [Slots(t) -> Nat]
  /\ t.size \in Nat

Spells(t, f) ==
  /\ DOMAIN f = IF t.size = 0 THEN {} ELSE Nodes(t)
  /\ \A i \in DOMAIN f : f[i] \in Seq(Symbols)
  /\ \A i, j \in DOMAIN f : f[i] = f[j] => i = j

\* No free slot lies between the slot a key hashes to and the one it is in.
Chained(t) ==
  \A i \in Children(t) :
    \E d \in 0 .. t.capa-1 :
      /\ At(t.capa, Home(t, t.table[i]), d) = i
      /\ \A e \in 0 .. d-1 : At(t.capa, Home(t, t.table[i]), e) \notin Vacant(t)

\* The keys in the table spell the strings.
Rooted(t, f) ==
  /\ t.size > 0 => f[RootId] = <<>>
  /\ \A i \in Children(t) :
       /\ Parent(t, i) \in Nodes(t)
       /\ f[i] = Append(f[Parent(t, i)], Symb(t, i))

Counted(t) ==
  /\ IF t.size = 0 THEN Children(t) = {} ELSE t.size = Cardinality(Nodes(t))
  /\ t.size <= MaxSizeOf(t.capa)

Sound(t, f) ==
  IsTrie(t) /\ Spells(t, f) /\ Chained(t) /\ Rooted(t, f) /\ Counted(t)

----------------------------------------------------------------------------
\* expand as one step: the table it leaves behind and the node map it
\* returns.  PlainBonsaiRehash has the loops.

\* Node j of t moves below the new node of its parent.
Move(t, m, j) ==
  LET r == AddChild(m.trie, m.map[Parent(t, j)], Symb(t, j))
  IN [trie |-> r.trie, map |-> [i \in DOMAIN m.map \cup {j} |-> IF i = j THEN r.node ELSE m.map[i]]]

\* The nodes from below the nearest moved ancestor of node i down to i.
Unmoved(t, moved, i) ==
  LET path[j \in Nodes(t)] ==
        IF j \in moved THEN <<>> ELSE Append(path[Parent(t, j)], j)
  IN path[i]

Expand(t) ==
  LET start == [trie |-> AddRoot(NewTrie(2 * t.capa)), map |-> [i \in {RootId} |-> RootId]]
      visit(m, i) ==
        IF i \in Children(t)
        THEN FoldLeft(LAMBDA mm, j : Move(t, mm, j), m, Unmoved(t, DOMAIN m.map, i))
        ELSE m
  IN FoldLeft(visit, start, [k \in 1 .. t.capa-2 |-> k + 1])
=============================================================================
