---------------------- MODULE PlainBonsaiRehashProofs ----------------------
(***************************************************************************)
(* expand, for every capacity, load factor, alphabet, hash function and    *)
(* sequence of insertions.  The lemmas say first what find_child and       *)
(* add_child do to a sound table; then each action has a lemma that it     *)
(* preserves the inductive invariant, IndInv.                              *)
(***************************************************************************)
EXTENDS PlainBonsaiRehash, FiniteSetTheorems, SequenceTheorems, WellFoundedInduction, TLAPS

----------------------------------------------------------------------------
(* The probe loop, for every table size and every stopping set. *)

\* right_ stays in the table and wraps once.
LEMMA AtWraps ==
  ASSUME NEW c \in Nat \ {0}, NEW h \in 0 .. c-1, NEW d \in 0 .. c-1
  PROVE  /\ At(c, h, d) = IF h + d < c THEN h + d ELSE h + d - c
         /\ At(c, h, d) \in 0 .. c-1
BY DEF At

\* The first c probes visit different slots ...
LEMMA AtInjective ==
  ASSUME NEW c \in Nat \ {0}, NEW h \in 0 .. c-1,
         NEW d \in 0 .. c-1, NEW e \in 0 .. c-1,
         At(c, h, d) = At(c, h, e)
  PROVE  d = e
BY DEF At

\* ... and leave none out.
LEMMA AtSurjective ==
  ASSUME NEW c \in Nat \ {0}, NEW h \in 0 .. c-1, NEW i \in 0 .. c-1
  PROVE  \E d \in 0 .. c-1 : At(c, h, d) = i
<1>. DEFINE d == IF h <= i THEN i - h ELSE i - h + c
<1>1. d \in 0 .. c-1
  OBVIOUS
<1>2. At(c, h, d) = IF h + d < c THEN h + d ELSE h + d - c
  <2>. HIDE DEF d
  <2>. QED  BY <1>1, AtWraps
<1>. QED  BY <1>1, <1>2

\* The loop returns at the first stopping slot, and there is one such slot.
LEMMA ProbeHits ==
  ASSUME NEW c \in Nat \ {0}, NEW h \in 0 .. c-1, NEW S,
         NEW d \in FirstStops(c, h, S)
  PROVE  /\ ProbeEnds(c, h, S)
         /\ ProbeEnd(c, h, S) = At(c, h, d)
<1>1. \A e \in FirstStops(c, h, S) : e = d
  BY DEF FirstStops
<1>2. FirstStops(c, h, S) = {d}
  BY <1>1
<1>. QED  BY <1>2 DEF ProbeEnds, ProbeEnd

\* A probe loop ends if some slot of the table stops it.
LEMMA ProbesEnd ==
  ASSUME NEW c \in Nat \ {0}, NEW h \in 0 .. c-1, NEW S, NEW i \in 0 .. c-1, i \in S
  PROVE  ProbeEnds(c, h, S)
<1>. DEFINE T == {d \in 0 .. c-1 : At(c, h, d) \in S}
<1>1. T \subseteq Nat /\ T # {}
  <2>1. PICK d \in 0 .. c-1 : At(c, h, d) = i
    BY AtSurjective
  <2>. QED  BY <2>1
<1>2. PICK d \in T : \A e \in T : <<e, d>> \notin OpToRel(<, Nat)
  <2>. HIDE DEF T
  <2>. QED  BY <1>1, NatLessThanWellFounded, WFMin
<1>3. \A e \in T : ~(e < d)
  BY <1>1, <1>2 DEF OpToRel
<1>4. d \in FirstStops(c, h, S)
  BY <1>3 DEF FirstStops
<1>. QED  BY <1>4 DEF ProbeEnds

----------------------------------------------------------------------------
\* A table always has slots besides the reserved ones, and its load limit
\* leaves one of them free; doubling it raises the limit.
LEMMA CapaBounds ==
  ASSUME NEW c \in Nat, c >= MinCapa
  PROVE  /\ c >= 3
         /\ MaxSizeOf(c) \in Nat
         /\ MaxSizeOf(c) >= 2
         /\ MaxSizeOf(c) <= c - 2
         /\ MaxSizeOf(c) < MaxSizeOf(2 * c)
<1>0. /\ MinCapa \in Nat /\ MaxFactor \in 1 .. 99
      /\ MinCapa * (100 - MaxFactor) >= 200 /\ MinCapa * MaxFactor >= 200
  BY TrieAssumption
<1>1. c >= 3
  BY <1>0
<1>2. c * (100 - MaxFactor) >= 200 /\ c * MaxFactor >= 200
  BY <1>0
<1>. DEFINE p == c * MaxFactor
<1>3. p \in Nat /\ p >= 200 /\ p <= 100 * c - 200 /\ (2 * c) * MaxFactor = 2 * p
  BY <1>0, <1>2
<1>4. p \div 100 \in Nat /\ p \div 100 >= 2 /\ p \div 100 <= c - 2
      /\ p \div 100 < (2 * p) \div 100
  <2>. HIDE DEF p
  <2>. QED  BY <1>3
<1>. QED  BY <1>1, <1>3, <1>4 DEF MaxSizeOf

LEMMA KeySplits ==
  ASSUME NEW n \in Nat, NEW s \in Symbols
  PROVE  /\ MakeKey(n, s) \in Nat
         /\ MakeKey(n, s) \div SymbSize = n
         /\ MakeKey(n, s) % SymbSize = s
         /\ n > 0 => MakeKey(n, s) > 0
<1>1. SymbSize \in Nat \ {0}
  BY TrieAssumption
<1>2. /\ n * SymbSize + s \in Nat
      /\ (n * SymbSize + s) \div SymbSize = n
      /\ (n * SymbSize + s) % SymbSize = s
  BY <1>1 DEF Symbols
<1>3. n > 0 => n * SymbSize + s > 0
  BY <1>1 DEF Symbols
<1>. QED  BY <1>2, <1>3 DEF MakeKey

LEMMA KeyJoins ==
  ASSUME NEW k \in Nat
  PROVE  /\ k \div SymbSize \in Nat
         /\ k % SymbSize \in Symbols
         /\ MakeKey(k \div SymbSize, k % SymbSize) = k
<1>1. SymbSize \in Nat \ {0}
  BY TrieAssumption
<1>. QED  BY <1>1 DEF MakeKey, Symbols

\* Every probe starts in the table.
LEMMA HomeInTable ==
  ASSUME NEW t, IsTrie(t), NEW key \in Nat
  PROVE  /\ t.capa \in Nat \ {0}
         /\ Home(t, key) \in 0 .. t.capa-1
<1>1. t.capa \in Nat \ {0}
  BY CapaBounds DEF IsTrie
<1>2. Words \in Nat \ {0} /\ Hash \in [0 .. Words-1 -> Nat]
  BY TrieAssumption
<1>3. key % Words \in 0 .. Words-1
  BY <1>2
<1>4. Hash[key % Words] \in Nat
  BY <1>2, <1>3
<1>. QED  BY <1>1, <1>4 DEF Home

LEMMA NodesAreSlots ==
  ASSUME NEW t, IsTrie(t)
  PROVE  /\ Nodes(t) \subseteq Slots(t) /\ Nodes(t) \subseteq Nat \ {0}
         /\ Vacant(t) \subseteq Slots(t) /\ Vacant(t) \subseteq Nat \ {0, 1}
         /\ Vacant(t) \cap Nodes(t) = {}
         /\ RootId \in Nodes(t)
         /\ Slots(t) \ {0} = Nodes(t) \cup Vacant(t)
         /\ IsFiniteSet(Nodes(t)) /\ IsFiniteSet(Vacant(t))
<1>1. t.capa \in Nat /\ t.capa >= 3
  BY CapaBounds DEF IsTrie
<1>2. Slots(t) \subseteq Nat /\ RootId \in Slots(t)
  BY <1>1 DEF Slots, RootId
<1>3. IsFiniteSet(Slots(t))
  BY <1>1, FS_Interval DEF Slots
<1>4. /\ Nodes(t) \subseteq Slots(t) /\ Nodes(t) \subseteq Nat \ {0}
      /\ Vacant(t) \subseteq Slots(t) /\ Vacant(t) \subseteq Nat \ {0, 1}
      /\ Vacant(t) \cap Nodes(t) = {}
      /\ RootId \in Nodes(t)
      /\ Slots(t) \ {0} = Nodes(t) \cup Vacant(t)
  BY <1>2 DEF Nodes, Children, Vacant, Reserved, RootId
<1>5. IsFiniteSet(Nodes(t)) /\ IsFiniteSet(Vacant(t))
  BY <1>3, <1>4, FS_Subset
<1>. QED  BY <1>4, <1>5

\* A table within its load limit has a vacant slot, so no probe loop runs for
\* ever.
LEMMA ProbesReturn ==
  ASSUME NEW t, IsTrie(t), Counted(t), NEW key \in Nat
  PROVE  Terminates(t, key)
<1>1. t.capa \in Nat \ {0} /\ Home(t, key) \in 0 .. t.capa-1
  BY HomeInTable
<1>2. PICK c \in Nat : c = t.capa /\ c >= 3 /\ t.size \in Nat /\ t.size <= c - 2
  <2>1. t.capa \in Nat /\ t.capa >= MinCapa /\ t.size \in Nat
    BY DEF IsTrie
  <2>2. t.size <= MaxSizeOf(t.capa)
    BY DEF Counted
  <2>3. t.capa >= 3 /\ MaxSizeOf(t.capa) \in Nat /\ MaxSizeOf(t.capa) <= t.capa - 2
    BY <2>1, CapaBounds
  <2>. QED  BY <2>1, <2>2, <2>3
<1>3. Vacant(t) # {}
  <2>1. SUFFICES ASSUME Vacant(t) = {} PROVE FALSE
    OBVIOUS
  <2>2. Slots(t) = 0 .. c-1 /\ Slots(t) \ {0} = Nodes(t)
    BY <1>2, <2>1, NodesAreSlots DEF Slots
  <2>3. Nodes(t) = 1 .. c-1
    <3>1. (0 .. c-1) \ {0} = 1 .. c-1
      OBVIOUS
    <3>. QED  BY <2>2, <3>1
  <2>4. Cardinality(Nodes(t)) = c - 1
    <3>1. Cardinality(1 .. c-1) = IF 1 > c - 1 THEN 0 ELSE (c - 1) - 1 + 1
      BY FS_Interval
    <3>. QED  BY <1>2, <2>3, <3>1
  <2>5. Children(t) # {}
    <3>1. 2 \in Nodes(t) /\ 2 # RootId
      BY <1>2, <2>3 DEF RootId
    <3>. QED  BY <3>1 DEF Nodes
  <2>6. t.size = Cardinality(Nodes(t))
    BY <2>5 DEF Counted
  <2>. QED  BY <1>2, <2>4, <2>6
<1>4. PICK i \in 0 .. t.capa-1 : i \in Stops(t, key)
  BY <1>3, NodesAreSlots DEF Stops, Slots
<1>. QED  BY <1>1, <1>4, ProbesEnd DEF Terminates

\* A key is in one slot only: two slots with one key would be two nodes with
\* one string.
LEMMA KeysDiffer ==
  ASSUME NEW t, NEW f, IsTrie(t), Spells(t, f), Rooted(t, f), t.size > 0,
         NEW i \in Children(t), NEW j \in Children(t), t.table[i] = t.table[j]
  PROVE  i = j
<1>1. Parent(t, i) = Parent(t, j) /\ Symb(t, i) = Symb(t, j)
  BY DEF Parent, Symb
<1>2. f[i] = f[j]
  BY <1>1 DEF Rooted
<1>3. DOMAIN f = Nodes(t)
  BY DEF Spells, IsTrie
<1>. QED  BY <1>2, <1>3 DEF Spells, Nodes

\* find_child and add_child stop at the slot of the key they look for.
LEMMA FindsStored ==
  ASSUME NEW t, NEW f, Sound(t, f), t.size > 0, NEW i \in Children(t)
  PROVE  Terminates(t, t.table[i]) /\ Slot(t, t.table[i]) = i
<1>. DEFINE key == t.table[i]
            h == Home(t, key)
<1>1. IsTrie(t) /\ Spells(t, f) /\ Rooted(t, f) /\ Chained(t)
  BY DEF Sound
<1>2. i \in Slots(t) /\ key \in Nat
  BY <1>1 DEF IsTrie, Children
<1>3. t.capa \in Nat \ {0} /\ h \in 0 .. t.capa-1
  <2>. HIDE DEF key
  <2>. QED  BY <1>1, <1>2, HomeInTable
<1>4. PICK d \in 0 .. t.capa-1 :
        /\ At(t.capa, h, d) = i
        /\ \A e \in 0 .. d-1 : At(t.capa, h, e) \notin Vacant(t)
  BY <1>1 DEF Chained
<1>5. \A e \in 0 .. d-1 : At(t.capa, h, e) \notin Stops(t, key)
  <2>1. SUFFICES ASSUME NEW e \in 0 .. d-1, At(t.capa, h, e) \in Stops(t, key)
                 PROVE  FALSE
    OBVIOUS
  <2>2. At(t.capa, h, e) \in Slots(t) \ Reserved /\ t.table[At(t.capa, h, e)] = key
    BY <1>4, <2>1 DEF Stops
  <2>3. At(t.capa, h, e) \in Children(t)
    BY <2>2 DEF Children
  <2>4. At(t.capa, h, e) = i
    BY <1>1, <2>2, <2>3, KeysDiffer
  <2>5. e \in 0 .. t.capa-1 /\ e # d
    BY <1>3
  <2>. QED
    <3>. HIDE DEF h
    <3>. QED  BY <1>3, <1>4, <2>4, <2>5, AtInjective
<1>6. i \in Stops(t, key)
  BY DEF Stops, Children
<1>7. d \in FirstStops(t.capa, h, Stops(t, key))
  BY <1>4, <1>5, <1>6 DEF FirstStops
<1>8. ProbeEnds(t.capa, h, Stops(t, key)) /\ ProbeEnd(t.capa, h, Stops(t, key)) = i
  <2>. HIDE DEF h
  <2>. QED  BY <1>3, <1>4, <1>7, ProbeHits
<1>. QED  BY <1>8 DEF Terminates, Slot

\* ... and, for a key that is not stored, at a vacant slot with no vacant slot
\* before it.
LEMMA FindsVacant ==
  ASSUME NEW t, IsTrie(t), Counted(t), NEW key \in Nat,
         \A i \in Children(t) : t.table[i] # key
  PROVE  /\ Slot(t, key) \in Vacant(t)
         /\ \E d \in 0 .. t.capa-1 :
              /\ At(t.capa, Home(t, key), d) = Slot(t, key)
              /\ \A e \in 0 .. d-1 : At(t.capa, Home(t, key), e) \notin Vacant(t)
<1>. DEFINE h == Home(t, key)
<1>1. t.capa \in Nat \ {0} /\ h \in 0 .. t.capa-1
  BY HomeInTable
<1>2. ProbeEnds(t.capa, h, Stops(t, key))
  BY ProbesReturn DEF Terminates
<1>3. PICK d : d \in FirstStops(t.capa, h, Stops(t, key))
  BY <1>2 DEF ProbeEnds
<1>4. Slot(t, key) = At(t.capa, h, d)
  <2>1. ProbeEnd(t.capa, h, Stops(t, key)) = At(t.capa, h, d)
    <3>. HIDE DEF h
    <3>. QED  BY <1>1, <1>3, ProbeHits
  <2>. QED  BY <2>1 DEF Slot
<1>5. /\ d \in 0 .. t.capa-1
      /\ At(t.capa, h, d) \in Stops(t, key)
      /\ \A e \in 0 .. d-1 : At(t.capa, h, e) \notin Stops(t, key)
  BY <1>3 DEF FirstStops
<1>6. Slot(t, key) \in Vacant(t)
  <2>1. Slot(t, key) \in Stops(t, key)
    BY <1>4, <1>5
  <2>2. \A i \in Slots(t) \ Reserved : t.table[i] = key => i \in Vacant(t)
    BY DEF Children, Vacant
  <2>. QED  BY <2>1, <2>2 DEF Stops
<1>7. \A e \in 0 .. d-1 : At(t.capa, h, e) \notin Vacant(t)
  BY <1>5 DEF Stops
<1>. QED  BY <1>4, <1>5, <1>6, <1>7

\* The key (n, s) is stored exactly where the node is that extends n's string
\* by s.
LEMMA KeyIsString ==
  ASSUME NEW t, NEW f, Sound(t, f), t.size > 0,
         NEW n \in Nodes(t), NEW s \in Symbols, NEW j \in Nodes(t)
  PROVE  f[j] = Append(f[n], s) <=> j \in Children(t) /\ t.table[j] = MakeKey(n, s)
<1>1. IsTrie(t) /\ Spells(t, f) /\ Rooted(t, f)
  BY DEF Sound
<1>2. DOMAIN f = Nodes(t)
  BY <1>1 DEF Spells, IsTrie
<1>3. f[n] \in Seq(Symbols) /\ f[j] \in Seq(Symbols) /\ n \in Nat
  BY <1>1, <1>2, NodesAreSlots DEF Spells
<1>4. ASSUME f[j] = Append(f[n], s)
      PROVE  j \in Children(t) /\ t.table[j] = MakeKey(n, s)
  <2>1. j # RootId
    <3>1. Append(f[n], s) # <<>>
      BY <1>3, AppendProperties
    <3>2. f[RootId] = <<>>
      BY <1>1 DEF Rooted
    <3>. QED  BY <1>4, <3>1, <3>2
  <2>2. j \in Children(t)
    BY <2>1 DEF Nodes
  <2>3. Parent(t, j) \in Nodes(t) /\ f[j] = Append(f[Parent(t, j)], Symb(t, j))
    BY <1>1, <2>2 DEF Rooted
  <2>4. t.table[j] \in Nat
    BY <1>1, <2>2 DEF IsTrie, Children
  <2>5. Symb(t, j) \in Symbols /\ t.table[j] = MakeKey(Parent(t, j), Symb(t, j))
    BY <2>4, KeyJoins DEF Parent, Symb
  <2>6. f[Parent(t, j)] \in Seq(Symbols)
    BY <1>1, <1>2, <2>3 DEF Spells
  <2>7. f[Parent(t, j)] = f[n] /\ Symb(t, j) = s
    <3>1. Append(f[Parent(t, j)], Symb(t, j)) = Append(f[n], s)
      BY <1>4, <2>3
    <3>. DEFINE v == f[Parent(t, j)]
                w == f[n]
                a == Symb(t, j)
    <3>2. v \in Seq(Symbols) /\ w \in Seq(Symbols) /\ a \in Symbols /\ Append(v, a) = Append(w, s)
      BY <1>3, <2>5, <2>6, <3>1
    <3>. HIDE DEF v, w, a
    <3>3. v = w /\ a = s
      BY <3>2, AppendInjective
    <3>. QED  BY <3>3 DEF v, w, a
  <2>8. Parent(t, j) = n
    BY <1>1, <1>2, <2>3, <2>7 DEF Spells
  <2>. QED  BY <2>2, <2>5, <2>7, <2>8
<1>5. ASSUME j \in Children(t), t.table[j] = MakeKey(n, s)
      PROVE  f[j] = Append(f[n], s)
  <2>1. Parent(t, j) = n /\ Symb(t, j) = s
    BY <1>3, <1>5, KeySplits DEF Parent, Symb
  <2>. QED  BY <1>1, <1>5, <2>1 DEF Rooted
<1>. QED  BY <1>4, <1>5

\* add_child for a child that is there: it hands out its id and changes
\* nothing.
LEMMA AddChildFinds ==
  ASSUME NEW t, NEW f, Sound(t, f), t.size > 0,
         NEW n \in Nodes(t), NEW s \in Symbols,
         NEW j \in Nodes(t), f[j] = Append(f[n], s)
  PROVE  AddChild(t, n, s) = [trie |-> t, node |-> j, added |-> FALSE]
<1>1. j \in Children(t) /\ t.table[j] = MakeKey(n, s)
  BY KeyIsString
<1>2. Slot(t, MakeKey(n, s)) = j
  BY <1>1, FindsStored
<1>3. j \notin Vacant(t)
  BY NodesAreSlots DEF Sound
<1>. QED  BY <1>2, <1>3 DEF AddChild

\* add_child for a new child stores it in a vacant slot, keeps the table
\* sound and moves no other node.
LEMMA AddChildAdds ==
  ASSUME NEW t, NEW f, Sound(t, f), t.size > 0, t.size # MaxSizeOf(t.capa),
         NEW n \in Nodes(t), NEW s \in Symbols,
         \A j \in Nodes(t) : f[j] # Append(f[n], s),
         NEW r, r = AddChild(t, n, s)
  PROVE  /\ r.added
         /\ r.node \in Vacant(t)
         /\ r.trie.size = t.size + 1
         /\ r.trie.capa = t.capa
         /\ Nodes(r.trie) = Nodes(t) \cup {r.node}
         /\ Children(r.trie) = Children(t) \cup {r.node}
         /\ Sound(r.trie, Named(f, r, n, s))
<1>. DEFINE key == MakeKey(n, s)
            i == Slot(t, key)
            u == r.trie
            g == Named(f, r, n, s)
<1>1. IsTrie(t) /\ Spells(t, f) /\ Chained(t) /\ Rooted(t, f) /\ Counted(t)
  BY DEF Sound
<1>2. key \in Nat \ {0} /\ key \div SymbSize = n /\ key % SymbSize = s
  BY <1>1, NodesAreSlots, KeySplits
<1>3. \A j \in Children(t) : t.table[j] # key
  BY KeyIsString DEF Nodes
<1>4. /\ i \in Vacant(t)
      /\ \E d \in 0 .. t.capa-1 :
           /\ At(t.capa, Home(t, key), d) = i
           /\ \A e \in 0 .. d-1 : At(t.capa, Home(t, key), e) \notin Vacant(t)
  <2>. HIDE DEF key
  <2>. QED  BY <1>1, <1>2, <1>3, FindsVacant
<1>5. r = [trie |-> [table |-> [t.table EXCEPT ![i] = key], size |-> t.size + 1, capa |-> t.capa],
           node |-> i, added |-> TRUE]
  BY <1>4 DEF AddChild
<1>. HIDE DEF key, i
<1>6. u = [table |-> [t.table EXCEPT ![i] = key], size |-> t.size + 1, capa |-> t.capa]
  BY <1>5
<1>7. i \in Slots(t) \ Reserved /\ t.table[i] = 0
  BY <1>4 DEF Vacant
<1>8. /\ u.table \in [Slots(t) -> Nat] /\ u.table[i] = key
      /\ \A j \in Slots(t) : j # i => u.table[j] = t.table[j]
  BY <1>1, <1>2, <1>6, <1>7 DEF IsTrie
<1>9. Slots(u) = Slots(t) /\ u.capa = t.capa /\ u.size = t.size + 1
  BY <1>6 DEF Slots
<1>10. Children(u) = Children(t) \cup {i} /\ i \notin Children(t)
  BY <1>2, <1>7, <1>8, <1>9 DEF Children
<1>11. Nodes(u) = Nodes(t) \cup {i} /\ i \notin Nodes(t)
  BY <1>7, <1>10 DEF Nodes, Reserved
<1>12. Vacant(u) \subseteq Vacant(t)
  BY <1>2, <1>8, <1>9 DEF Vacant
<1>13. IsTrie(u)
  BY <1>1, <1>6, <1>8, <1>9, SMTT(30) DEF IsTrie
<1>14. DOMAIN f = Nodes(t)
  BY <1>1 DEF Spells, IsTrie
<1>15. g = [j \in Nodes(t) \cup {i} |-> IF j = i THEN Append(f[n], s) ELSE f[j]]
  BY <1>5, <1>14 DEF Named
<1>. HIDE DEF g, u
<1>16. /\ DOMAIN g = Nodes(u) /\ g[i] = Append(f[n], s)
       /\ \A j \in Nodes(t) : g[j] = f[j]
  BY <1>11, <1>15
<1>17. Spells(u, g)
  <2>1. u.size # 0 /\ DOMAIN g = Nodes(u)
    BY <1>1, <1>9, <1>16 DEF IsTrie
  <2>2. ASSUME NEW j \in DOMAIN g PROVE g[j] \in Seq(Symbols)
    <3>1. f[n] \in Seq(Symbols) /\ Append(f[n], s) \in Seq(Symbols)
      BY <1>1, <1>14, AppendProperties DEF Spells
    <3>. QED  BY <1>1, <1>11, <1>14, <1>16, <3>1 DEF Spells
  <2>3. ASSUME NEW j \in DOMAIN g, NEW k \in DOMAIN g, g[j] = g[k] PROVE j = k
    BY <1>1, <1>11, <1>14, <1>16, <2>3 DEF Spells
  <2>. QED  BY <2>1, <2>2, <2>3 DEF Spells
<1>18. Chained(u)
  <2>1. SUFFICES ASSUME NEW j \in Children(u)
                 PROVE  \E d \in 0 .. u.capa-1 :
                          /\ At(u.capa, Home(u, u.table[j]), d) = j
                          /\ \A e \in 0 .. d-1 :
                               At(u.capa, Home(u, u.table[j]), e) \notin Vacant(u)
    BY DEF Chained
  <2>2. \A k : Home(u, k) = Home(t, k)
    BY <1>9 DEF Home
  <2>3. CASE j = i
    BY <1>4, <1>8, <1>9, <1>12, <2>2, <2>3
  <2>4. CASE j # i
    <3>1. j \in Children(t) /\ u.table[j] = t.table[j]
      BY <1>8, <1>10, <2>4 DEF Children
    <3>2. PICK d \in 0 .. t.capa-1 :
            /\ At(t.capa, Home(t, t.table[j]), d) = j
            /\ \A e \in 0 .. d-1 : At(t.capa, Home(t, t.table[j]), e) \notin Vacant(t)
      BY <1>1, <3>1 DEF Chained
    <3>. QED  BY <1>9, <1>12, <2>2, <3>1, <3>2
  <2>. QED  BY <2>3, <2>4
<1>19. Rooted(u, g)
  <2>1. g[RootId] = <<>>
    BY <1>1, <1>16 DEF Rooted, Nodes
  <2>2. ASSUME NEW j \in Children(u)
        PROVE  Parent(u, j) \in Nodes(u) /\ g[j] = Append(g[Parent(u, j)], Symb(u, j))
    <3>1. CASE j = i
      BY <1>2, <1>8, <1>11, <1>16, <3>1 DEF Parent, Symb
    <3>2. CASE j # i
      <4>1. j \in Children(t) /\ u.table[j] = t.table[j]
        BY <1>8, <1>10, <3>2 DEF Children
      <4>2. Parent(t, j) \in Nodes(t) /\ f[j] = Append(f[Parent(t, j)], Symb(t, j))
        BY <1>1, <4>1 DEF Rooted
      <4>3. Parent(u, j) = Parent(t, j) /\ Symb(u, j) = Symb(t, j)
        BY <4>1 DEF Parent, Symb
      <4>. QED  BY <1>11, <1>16, <4>1, <4>2, <4>3 DEF Nodes
    <3>. QED  BY <3>1, <3>2
  <2>. QED  BY <2>1, <2>2 DEF Rooted
<1>20. Counted(u)
  <2>1. Cardinality(Nodes(u)) = Cardinality(Nodes(t)) + 1
    <3>1. IsFiniteSet(Nodes(t))
      BY <1>1, NodesAreSlots
    <3>2. Cardinality(Nodes(t) \cup {i}) = Cardinality(Nodes(t)) + 1
      BY <1>11, <3>1, FS_AddElement
    <3>. QED  BY <1>11, <3>2
  <2>2. t.size = Cardinality(Nodes(t)) /\ t.size \in Nat
    BY <1>1 DEF Counted, IsTrie
  <2>3. t.size <= MaxSizeOf(t.capa) /\ MaxSizeOf(t.capa) \in Nat
    BY <1>1, CapaBounds DEF Counted, IsTrie
  <2>4. t.size + 1 <= MaxSizeOf(t.capa)
    BY <2>2, <2>3
  <2>. QED  BY <1>9, <2>1, <2>2, <2>4 DEF Counted
<1>. QED  BY <1>4, <1>5, <1>9, <1>10, <1>11, <1>13, <1>17, <1>18, <1>19, <1>20 DEF Sound, g, u

\* add_child for a new child on a table at its load limit: it refuses, and
\* changes nothing.
LEMMA AddChildRefuses ==
  ASSUME NEW t, NEW f, Sound(t, f), t.size > 0, t.size = MaxSizeOf(t.capa),
         NEW n \in Nodes(t), NEW s \in Symbols,
         \A j \in Nodes(t) : f[j] # Append(f[n], s)
  PROVE  AddChild(t, n, s) = [trie |-> t, node |-> n, added |-> FALSE]
<1>1. IsTrie(t) /\ Counted(t)
  BY DEF Sound
<1>2. MakeKey(n, s) \in Nat
  BY <1>1, NodesAreSlots, KeySplits
<1>3. \A j \in Children(t) : t.table[j] # MakeKey(n, s)
  BY KeyIsString DEF Nodes
<1>4. Slot(t, MakeKey(n, s)) \in Vacant(t)
  BY <1>1, <1>2, <1>3, FindsVacant
<1>. QED  BY <1>4 DEF AddChild

\* Overwriting the slot of a node keeps it the slot of a node.
LEMMA SetSlotKeepsNodes ==
  ASSUME NEW t, IsTrie(t), NEW i \in Nodes(t), NEW x \in Nat \ {0},
         NEW u, u = SetSlot(t, i, x)
  PROVE  /\ IsTrie(u) /\ u.size = t.size /\ u.capa = t.capa
         /\ u.table[i] = x /\ \A j \in Slots(t) \ {i} : u.table[j] = t.table[j]
         /\ Slots(u) = Slots(t) /\ Nodes(u) = Nodes(t) /\ Children(u) = Children(t)
<1>1. u = [table |-> [t.table EXCEPT ![i] = x], size |-> t.size, capa |-> t.capa]
  BY DEF SetSlot, IsTrie
<1>2. Slots(u) = Slots(t) /\ i \in Slots(t) /\ u.size = t.size /\ u.capa = t.capa
  BY <1>1, NodesAreSlots DEF Slots
<1>3. /\ u.table \in [Slots(t) -> Nat] /\ u.table[i] = x
      /\ \A j \in Slots(t) \ {i} : u.table[j] = t.table[j]
  BY <1>1, <1>2 DEF IsTrie
<1>4. IsTrie(u)
  BY <1>1, <1>2, <1>3 DEF IsTrie
<1>5. Children(u) = Children(t)
  BY <1>2, <1>3 DEF Children, Nodes, Reserved
<1>. QED  BY <1>2, <1>3, <1>4, <1>5 DEF Nodes

\* The table the constructor and add_root make.
LEMMA NewTrieSound ==
  ASSUME NEW c \in Nat
  PROVE  /\ Sound(NewTrie(c), NoStrings)
         /\ NewTrie(c).size = 0
         /\ NewTrie(c).capa = IF c < MinCapa THEN MinCapa ELSE c
<1>. DEFINE m == IF c < MinCapa THEN MinCapa ELSE c
            t == NewTrie(c)
<1>1. m \in Nat /\ m >= MinCapa /\ MaxSizeOf(m) \in Nat
  <2>1. m \in Nat /\ m >= MinCapa
    BY TrieAssumption
  <2>. HIDE DEF m
  <2>. QED  BY <2>1, CapaBounds
<1>2. t = [table |-> [i \in 0 .. m-1 |-> 0], size |-> 0, capa |-> m]
  BY DEF NewTrie
<1>. HIDE DEF m, t
<1>3. IsTrie(t)
  BY <1>1, <1>2 DEF IsTrie, Slots
<1>4. Children(t) = {}
  BY <1>2 DEF Children, Slots
<1>5. t.size = 0 /\ t.capa = m
  BY <1>2
<1>6. Spells(t, NoStrings)
  BY <1>5 DEF Spells, NoStrings
<1>7. Chained(t) /\ Rooted(t, NoStrings)
  BY <1>4, <1>5 DEF Chained, Rooted
<1>8. Counted(t)
  BY <1>1, <1>4, <1>5 DEF Counted
<1>. QED  BY <1>3, <1>5, <1>6, <1>7, <1>8 DEF Sound, t, m

LEMMA AddRootSound ==
  ASSUME NEW t, NEW f, Sound(t, f), t.size = 0
  PROVE  /\ Sound(AddRoot(t), RootString)
         /\ AddRoot(t).size = 1
         /\ AddRoot(t).capa = t.capa
         /\ AddRoot(t).table = t.table
         /\ Nodes(AddRoot(t)) = {RootId} /\ Children(AddRoot(t)) = {}
<1>. DEFINE u == AddRoot(t)
<1>1. IsTrie(t) /\ Counted(t)
  BY DEF Sound
<1>2. u = [table |-> t.table, size |-> 1, capa |-> t.capa]
  BY <1>1 DEF IsTrie, AddRoot
<1>. HIDE DEF u
<1>3. IsTrie(u)
  BY <1>1, <1>2 DEF IsTrie, Slots
<1>4. Children(u) = {} /\ Nodes(u) = {RootId}
  BY <1>1, <1>2 DEF Counted, Children, Nodes, Slots
<1>5. Spells(u, RootString)
  <2>1. DOMAIN RootString = {RootId} /\ RootString[RootId] = <<>>
    BY DEF RootString
  <2>2. <<>> \in Seq(Symbols)
    OBVIOUS
  <2>. QED  BY <1>2, <1>4, <2>1, <2>2 DEF Spells
<1>6. Chained(u) /\ Rooted(u, RootString)
  BY <1>4 DEF Chained, Rooted, RootString
<1>7. Counted(u)
  <2>1. Cardinality({RootId}) = 1
    BY FS_Singleton
  <2>2. MaxSizeOf(t.capa) \in Nat /\ MaxSizeOf(t.capa) >= 2
    BY <1>1, CapaBounds DEF IsTrie
  <2>. QED  BY <1>2, <1>4, <2>1, <2>2 DEF Counted
<1>. QED  BY <1>2, <1>3, <1>4, <1>5, <1>6, <1>7 DEF Sound, u

LEMMA InitInv == Init => IndInv
<1>1. Sound(NewTrie(0), NoStrings)
  BY NewTrieSound
<1>. QED  BY <1>1 DEF Init, IndInv

LEMMA InsertRootInv == IndInv /\ InsertRoot => IndInv'
<1>1. SUFFICES ASSUME IndInv, InsertRoot PROVE IndInv'
  OBVIOUS
<1>2. Sound(ht, str) /\ ht.size = 0
  BY <1>1 DEF IndInv, InsertRoot
<1>3. Sound(AddRoot(ht), RootString)
  BY <1>2, AddRootSound
<1>. QED  BY <1>1, <1>3 DEF IndInv, InsertRoot, expandVars

LEMMA InsertChildInv ==
  ASSUME IndInv, NEW n \in Nodes(ht), NEW s \in Symbols, InsertChild(n, s)
  PROVE  IndInv'
<1>. DEFINE r == AddChild(ht, n, s)
<1>1. /\ phase = "ready" /\ Sound(ht, str) /\ ht.size > 0
      /\ ht' = r.trie /\ str' = Named(str, r, n, s)
      /\ UNCHANGED <<phase, expandVars>>
  BY DEF IndInv, InsertChild
<1>2. Sound(ht', str')
  <2>1. CASE \E j \in Nodes(ht) : str[j] = Append(str[n], s)
    <3>1. PICK j \in Nodes(ht) : str[j] = Append(str[n], s)
      BY <2>1
    <3>2. r = [trie |-> ht, node |-> j, added |-> FALSE]
      BY <1>1, <3>1, AddChildFinds
    <3>. HIDE DEF r
    <3>. QED  BY <1>1, <3>2 DEF Named
  <2>2. CASE /\ \A j \in Nodes(ht) : str[j] # Append(str[n], s)
             /\ ht.size = MaxSizeOf(ht.capa)
    <3>1. r = [trie |-> ht, node |-> n, added |-> FALSE]
      BY <1>1, <2>2, AddChildRefuses
    <3>. HIDE DEF r
    <3>. QED  BY <1>1, <3>1 DEF Named
  <2>3. CASE /\ \A j \in Nodes(ht) : str[j] # Append(str[n], s)
             /\ ht.size # MaxSizeOf(ht.capa)
    <3>1. Sound(r.trie, Named(str, r, n, s))
      BY <1>1, <2>3, AddChildAdds
    <3>. QED  BY <1>1, <3>1
  <2>. QED  BY <2>1, <2>2, <2>3
<1>. QED  BY <1>1, <1>2 DEF IndInv, expandVars

LEMMA BeginExpandInv == IndInv /\ BeginExpand => IndInv'
<1>1. SUFFICES ASSUME IndInv, BeginExpand PROVE IndInv'
  OBVIOUS
<1>2. /\ Sound(ht, str) /\ ht.size > 0
      /\ path = <<>> /\ node_id = 0 /\ cur = 0
  BY <1>1 DEF IndInv, BeginExpand
<1>3. /\ phase' = "scan" /\ done' = {RootId} /\ pos' = 2
      /\ new_ht' = AddRoot(NewTrie(2 * ht.capa)) /\ new_str' = RootString
      /\ ht' = SetSlot(ht, RootId, RootId)
      /\ UNCHANGED <<node_id, path, cur, str>>
  BY <1>1 DEF BeginExpand
<1>4. IsTrie(ht) /\ Spells(ht, str) /\ Rooted(ht, str) /\ Counted(ht)
  BY <1>2 DEF Sound
<1>5. RootId \in Nodes(ht) /\ RootId \in Nat \ {0}
  BY DEF Nodes, RootId
<1>6. /\ IsTrie(ht') /\ ht'.size = ht.size /\ ht'.capa = ht.capa
      /\ ht'.table[RootId] = RootId
      /\ \A j \in Slots(ht) \ {RootId} : ht'.table[j] = ht.table[j]
      /\ Slots(ht') = Slots(ht) /\ Nodes(ht') = Nodes(ht) /\ Children(ht') = Children(ht)
  BY <1>3, <1>4, <1>5, SetSlotKeepsNodes
<1>7. ht.capa \in Nat /\ ht.capa >= 3 /\ ht.capa >= MinCapa
  BY <1>4, CapaBounds DEF IsTrie
<1>8. /\ Sound(new_ht', new_str') /\ new_ht'.size = 1 /\ new_ht'.capa = 2 * ht.capa
      /\ Nodes(new_ht') = {RootId}
  <2>. DEFINE t == NewTrie(2 * ht.capa)
  <2>1. 2 * ht.capa \in Nat /\ ~(2 * ht.capa < MinCapa)
    BY <1>7, TrieAssumption
  <2>2. Sound(t, NoStrings) /\ t.size = 0 /\ t.capa = 2 * ht.capa
    BY <2>1, NewTrieSound
  <2>. HIDE DEF t
  <2>. QED  BY <1>3, <2>2, AddRootSound DEF t
<1>9. DOMAIN new_str' = {RootId} /\ new_str'[RootId] = <<>> /\ str'[RootId] = <<>>
  BY <1>2, <1>3, <1>4 DEF RootString, Rooted
<1>10. NodeMapSound'
  <2>1. SUFFICES ASSUME NEW i \in Nodes(ht)
                 PROVE  IF i \in done'
                        THEN /\ ht'.table[i] \in DOMAIN new_str'
                             /\ new_str'[ht'.table[i]] = str'[i]
                        ELSE /\ Parent(ht', i) \in Nodes(ht')
                             /\ str'[i] = Append(str'[Parent(ht', i)], Symb(ht', i))
    BY <1>6 DEF NodeMapSound
  <2>2. CASE i = RootId
    BY <1>3, <1>6, <1>9, <2>2
  <2>3. CASE i # RootId
    <3>1. i \in Children(ht) /\ i \in Slots(ht) \ {RootId}
      BY <2>3 DEF Nodes, Children
    <3>2. Parent(ht', i) = Parent(ht, i) /\ Symb(ht', i) = Symb(ht, i)
      BY <1>6, <3>1 DEF Parent, Symb
    <3>3. i \notin done'
      BY <1>3, <2>3
    <3>. QED  BY <1>3, <1>4, <1>6, <3>1, <3>2, <3>3 DEF Rooted
  <2>. QED  BY <2>2, <2>3
<1>11. Moving'
  <2>1. Spells(ht', str') /\ Counted(ht')
    BY <1>3, <1>4, <1>6 DEF Spells, Counted
  <2>2. Cardinality(done') = 1
    BY <1>3, FS_Singleton
  <2>3. {new_str'[j] : j \in DOMAIN new_str'} = {str'[i] : i \in done'}
    BY <1>3, <1>9
  <2>4. \A i \in Children(ht') : ~(i < 2)
    BY <1>4, <1>6, NodesAreSlots DEF Children, Reserved, Slots, RootId
  <2>. QED  BY <1>2, <1>3, <1>5, <1>6, <1>7, <1>8, <1>9, <1>10, <2>1, <2>2, <2>3, <2>4 DEF Moving
<1>. QED  BY <1>2, <1>3, <1>11 DEF IndInv

LEMMA SkipInv == IndInv /\ Skip => IndInv'
<1>1. SUFFICES ASSUME IndInv, Skip PROVE IndInv'
  OBVIOUS
<1>2. Moving /\ phase = "scan" /\ phase' = "scan"
  BY <1>1 DEF IndInv, Skip
<1>3. /\ pos < ht.capa /\ pos' = pos + 1
      /\ pos \in done \/ ht.table[pos] = 0
      /\ UNCHANGED <<ht, phase, node_id, path, cur, done, new_ht, str, new_str>>
  BY <1>1 DEF Skip
<1>4. ht.capa \in Nat /\ Children(ht) \subseteq Nat
  <2>1. ht.capa \in Nat
    BY <1>2 DEF Moving, IsTrie
  <2>. QED  BY <2>1 DEF Children, Slots
<1>5. Moving'
  <2>1. NodeMapSound'
    BY <1>2, <1>3 DEF Moving, NodeMapSound
  <2>2. pos' \in 2 .. ht.capa
    BY <1>2, <1>3, <1>4 DEF Moving
  <2>3. \A i \in Children(ht) : i < pos' => i \in done
    <3>1. pos \in Nat /\ \A i \in Children(ht) : i < pos => i \in done
      BY <1>2 DEF Moving
    <3>2. pos \in Children(ht) => pos \in done
      BY <1>3 DEF Children
    <3>. QED  BY <1>3, <1>4, <3>1, <3>2
  <2>. QED  BY <1>2, <1>3, <2>1, <2>2, <2>3 DEF Moving
<1>. QED  BY <1>1, <1>2, <1>3, <1>5 DEF IndInv

LEMMA BeginPathInv == IndInv /\ BeginPath => IndInv'
<1>1. SUFFICES ASSUME IndInv, BeginPath PROVE IndInv'
  OBVIOUS
<1>2. Moving /\ phase = "scan" /\ cur \in Nodes(new_ht) \cup {0}
  BY <1>1 DEF IndInv, BeginPath
<1>3. /\ pos < ht.capa /\ pos \notin done /\ ht.table[pos] # 0
      /\ phase' = "climb" /\ path' = <<>> /\ node_id' = pos
      /\ UNCHANGED <<ht, pos, cur, done, new_ht, str, new_str>>
  BY <1>1 DEF BeginPath
<1>4. pos \in Children(ht) \ done
  <2>1. ht.capa \in Nat /\ pos \in 2 .. ht.capa
    BY <1>2 DEF Moving, IsTrie
  <2>. QED  BY <1>3, <2>1 DEF Children, Slots, Reserved, RootId
<1>5. Moving'
  <2>1. NodeMapSound'
    BY <1>2, <1>3 DEF Moving, NodeMapSound
  <2>. QED  BY <1>2, <1>3, <2>1 DEF Moving
<1>6. OnPath'
  BY <1>3, <1>4 DEF OnPath
<1>. QED  BY <1>2, <1>3, <1>4, <1>5, <1>6 DEF IndInv

LEMMA ClimbInv == IndInv /\ Climb => IndInv'
<1>. DEFINE Step == [node : Children(ht) \ done, label : Symbols]
            top == [node |-> node_id, label |-> Symb(ht, node_id)]
            up == Parent(ht, node_id)
            L == Len(path)
<1>1. SUFFICES ASSUME IndInv, Climb PROVE IndInv'
  OBVIOUS
<1>2. /\ Moving /\ phase = "climb" /\ OnPath
      /\ node_id \in Children(ht) \ done
      /\ path = <<>> => node_id = pos
      /\ \A k \in DOMAIN path : Len(str[path[k].node]) > Len(str[node_id])
      /\ cur \in Nodes(new_ht) \cup {0}
  BY <1>1 DEF IndInv, Climb
<1>3. /\ path' = Append(path, top) /\ node_id' = up
      /\ UNCHANGED <<ht, pos, done, new_ht, str, new_str>>
      /\ IF up \in done THEN phase' = "graft" /\ cur' = ht.table[up]
                        ELSE phase' = "climb" /\ cur' = cur
  BY <1>1, <1>2 DEF Climb
<1>4. node_id \in Nodes(ht) /\ node_id \notin done /\ node_id \in Slots(ht)
  BY <1>2 DEF Nodes, Children
<1>5. up \in Nodes(ht) /\ str[node_id] = Append(str[up], Symb(ht, node_id))
  BY <1>2, <1>4 DEF Moving, NodeMapSound
<1>6. Symb(ht, node_id) \in Symbols
  <2>1. ht.table[node_id] \in Nat
    BY <1>2, <1>4 DEF Moving, IsTrie
  <2>. QED  BY <2>1, KeyJoins DEF Symb
<1>7. top \in Step
  BY <1>2, <1>6
<1>8. path \in Seq(Step)
  BY <1>2 DEF OnPath
<1>9. /\ path' \in Seq(Step) /\ L \in Nat /\ Len(path') = L + 1
      /\ DOMAIN path = 1 .. L /\ DOMAIN path' = 1 .. L + 1
      /\ path'[L + 1] = top /\ \A k \in 1 .. L : path'[k] = path[k]
  <2>. HIDE DEF Step, top
  <2>1. path' \in Seq(Step) /\ L \in Nat /\ Len(path') = L + 1
    BY <1>3, <1>7, <1>8, AppendProperties, LenProperties
  <2>2. DOMAIN path = 1 .. L /\ DOMAIN path' = 1 .. L + 1
    BY <1>8, <2>1, LenProperties
  <2>. QED  BY <1>3, <1>7, <1>8, <2>1, <2>2, AppendProperties
<1>10. Moving'
  <2>1. NodeMapSound'
    BY <1>2, <1>3 DEF Moving, NodeMapSound
  <2>2. phase' # "ready"
    BY <1>3
  <2>. QED  BY <1>2, <1>3, <2>1 DEF Moving
<1>11. /\ str[node_id] \in Seq(Symbols) /\ str[up] \in Seq(Symbols)
       /\ Len(str[node_id]) = Len(str[up]) + 1 /\ Len(str[up]) \in Nat
  <2>1. DOMAIN str = Nodes(ht)
    BY <1>2 DEF Moving, Spells, IsTrie
  <2>2. str[node_id] \in Seq(Symbols) /\ str[up] \in Seq(Symbols)
    BY <1>2, <1>4, <1>5, <2>1 DEF Moving, Spells
  <2>. QED  BY <1>5, <1>6, <2>2, AppendProperties, LenProperties
<1>12. up \in done => ht.table[up] \in Nodes(new_ht) /\ new_str[ht.table[up]] = str[up]
  <2>1. DOMAIN new_str \subseteq Nodes(new_ht)
    BY <1>2 DEF Moving, Sound, Spells
  <2>. QED  BY <1>2, <1>5, <2>1 DEF Moving, NodeMapSound
<1>13. Anchor' = str[up]
  BY <1>3, <1>12 DEF Anchor
<1>14. OnPath'
  <2>1. \A k \in DOMAIN path' :
          str'[path'[k].node] =
            Append(IF k = Len(path') THEN Anchor' ELSE str'[path'[k+1].node], path'[k].label)
    <3>1. SUFFICES ASSUME NEW k \in 1 .. L + 1
                   PROVE  str[path'[k].node] =
                            Append(IF k = L + 1 THEN str[up] ELSE str[path'[k+1].node], path'[k].label)
      BY <1>3, <1>9, <1>13
    <3>2. CASE k = L + 1
      BY <1>5, <1>9, <3>2
    <3>3. CASE k \in 1 .. L /\ k = L
      <4>1. str[path[k].node] = Append(Anchor, path[k].label)
        BY <1>2, <1>9, <3>3 DEF OnPath
      <4>2. Anchor = str[node_id]
        BY <1>2 DEF Anchor
      <4>3. k # L + 1 /\ path'[k] = path[k] /\ path'[k+1].node = node_id
        <5>1. L \in Nat /\ path'[L + 1] = top /\ path'[k] = path[k]
          BY <1>9, <3>3
        <5>2. k = L /\ k # L + 1
          BY <3>3, <5>1
        <5>3. path'[k+1] = top
          BY <5>1, <5>2
        <5>. QED  BY <5>1, <5>2, <5>3
      <4>. QED  BY <4>1, <4>2, <4>3
    <3>4. CASE k \in 1 .. L /\ k # L
      <4>1. str[path[k].node] = Append(str[path[k+1].node], path[k].label)
        BY <1>2, <1>9, <3>4 DEF OnPath
      <4>2. k # L + 1 /\ k + 1 \in 1 .. L /\ path'[k] = path[k] /\ path'[k+1] = path[k+1]
        BY <1>9, <3>4
      <4>. QED  BY <4>1, <4>2
    <3>5. k = L + 1 \/ k \in 1 .. L
      BY <1>9
    <3>. QED  BY <3>2, <3>3, <3>4, <3>5
  <2>2. \A k, l \in DOMAIN path' : k < l => Len(str'[path'[k].node]) > Len(str'[path'[l].node])
    <3>1. SUFFICES ASSUME NEW k \in 1 .. L + 1, NEW l \in 1 .. L + 1, k < l
                   PROVE  Len(str[path'[k].node]) > Len(str[path'[l].node])
      BY <1>3, <1>9
    <3>2. CASE l = L + 1
      BY <1>2, <1>9, <3>1, <3>2
    <3>3. CASE l \in 1 .. L
      <4>1. k \in 1 .. L /\ path'[k] = path[k] /\ path'[l] = path[l]
        BY <1>9, <3>1, <3>3
      <4>. QED  BY <1>2, <1>9, <3>1, <3>3, <4>1 DEF OnPath
    <3>. QED  BY <3>2, <3>3, <1>9
  <2>3. path'[1].node = pos
    <3>1. CASE L = 0
      BY <1>2, <1>8, <1>9, <3>1, EmptySeq
    <3>2. CASE L > 0
      BY <1>2, <1>8, <1>9, <3>2, EmptySeq DEF OnPath
    <3>. QED  BY <1>9, <3>1, <3>2
  <2>. QED  BY <1>2, <1>3, <1>9, <2>1, <2>2, <2>3 DEF OnPath
<1>15. CASE up \in done
  <2>1. path' # <<>>
    BY <1>9, EmptySeq
  <2>. QED  BY <1>3, <1>5, <1>10, <1>12, <1>14, <1>15, <2>1 DEF IndInv
<1>16. CASE up \notin done
  <2>1. up \in Children(ht) \ done
    BY <1>2, <1>5, <1>16 DEF Moving, Nodes
  <2>2. \A k \in DOMAIN path' : Len(str[path'[k].node]) > Len(str[up])
    <3>1. SUFFICES ASSUME NEW k \in 1 .. L + 1 PROVE Len(str[path'[k].node]) > Len(str[up])
      BY <1>9
    <3>2. CASE k = L + 1
      BY <1>9, <1>11, <3>2
    <3>3. CASE k \in 1 .. L
      <4>1. Len(str[path[k].node]) > Len(str[node_id]) /\ path'[k] = path[k]
        BY <1>2, <1>9, <3>3
      <4>2. path[k].node \in Nodes(ht)
        <5>1. path[k] \in Step
          <6>. HIDE DEF Step
          <6>1. path \in [1 .. Len(path) -> Step]
            BY <1>8, LenProperties
          <6>. QED  BY <3>3, <6>1
        <5>. QED  BY <5>1 DEF Nodes
      <4>3. str[path[k].node] \in Seq(Symbols)
        BY <1>2, <4>2 DEF Moving, Spells, IsTrie
      <4>4. Len(str[path[k].node]) \in Nat
        BY <4>3, LenProperties
      <4>. QED  BY <1>11, <4>1, <4>4
    <3>. QED  BY <1>9, <3>2, <3>3
  <2>3. path' # <<>>
    BY <1>9, EmptySeq
  <2>. QED  BY <1>2, <1>3, <1>10, <1>14, <1>16, <2>1, <2>2, <2>3 DEF IndInv
<1>. QED  BY <1>15, <1>16

\* What re-inserting the top of the path does to the new table.
LEMMA GraftAdds ==
  ASSUME IndInv, Graft,
         NEW top, top = path[Len(path)],
         NEW r, r = AddChild(new_ht, cur, top.label)
  PROVE  /\ top.node \in Children(ht) \ done /\ top.label \in Symbols
         /\ str[top.node] = Append(new_str[cur], top.label)
         /\ r.added /\ r.node \in Vacant(new_ht)
         /\ r.trie.size = new_ht.size + 1 /\ r.trie.capa = new_ht.capa
         /\ Nodes(r.trie) = Nodes(new_ht) \cup {r.node}
         /\ Sound(r.trie, Named(new_str, r, cur, top.label))
<1>. DEFINE Step == [node : Children(ht) \ done, label : Symbols]
            L == Len(path)
<1>1. /\ Moving /\ phase = "graft" /\ OnPath /\ path # <<>> /\ cur \in Nodes(new_ht)
  BY DEF IndInv, Graft
<1>2. path \in Seq(Step)
  BY <1>1 DEF OnPath
<1>3. L \in DOMAIN path /\ path[L] \in Step
  <2>. HIDE DEF Step
  <2>1. L \in Nat \ {0} /\ path \in [1 .. L -> Step]
    BY <1>1, <1>2, EmptySeq, LenProperties
  <2>. QED  BY <2>1
<1>4. top.node \in Children(ht) \ done /\ top.label \in Symbols
  BY <1>3
<1>5. str[top.node] = Append(new_str[cur], top.label)
  <2>1. str[path[L].node] = Append(Anchor, path[L].label)
    BY <1>1, <1>3 DEF OnPath
  <2>. QED  BY <1>1, <2>1 DEF Anchor
<1>6. Sound(new_ht, new_str) /\ new_ht.size = Cardinality(done)
  BY <1>1 DEF Moving
<1>7. IsTrie(ht) /\ IsTrie(new_ht) /\ Counted(ht) /\ ht.size > 0
  BY <1>1, <1>6 DEF Moving, Sound
<1>8. DOMAIN str = Nodes(ht) /\ \A i, j \in Nodes(ht) : str[i] = str[j] => i = j
  BY <1>1, <1>7 DEF Moving, Spells, IsTrie
<1>9. IsFiniteSet(Nodes(ht)) /\ IsFiniteSet(done) /\ Cardinality(done) \in Nat
      /\ Cardinality(done) <= Cardinality(Nodes(ht)) /\ RootId \in done
  <2>1. IsFiniteSet(Nodes(ht)) /\ done \in SUBSET Nodes(ht) /\ RootId \in done
    BY <1>1, <1>7, NodesAreSlots DEF Moving
  <2>. QED  BY <2>1, FS_Subset, FS_CardinalityType
<1>10. new_ht.size > 0
  BY <1>6, <1>9, FS_EmptySet
<1>11. new_ht.size # MaxSizeOf(new_ht.capa)
  <2>1. ht.size = Cardinality(Nodes(ht)) /\ ht.size <= MaxSizeOf(ht.capa) /\ ht.size \in Nat
    BY <1>7 DEF Counted, IsTrie
  <2>2. MaxSizeOf(ht.capa) \in Nat /\ MaxSizeOf(2 * ht.capa) \in Nat
        /\ MaxSizeOf(ht.capa) < MaxSizeOf(2 * ht.capa)
    <3>1. ht.capa \in Nat /\ ht.capa >= MinCapa
      BY <1>7 DEF IsTrie
    <3>2. 2 * ht.capa \in Nat /\ 2 * ht.capa >= MinCapa
      BY <3>1, TrieAssumption
    <3>3. MaxSizeOf(ht.capa) \in Nat /\ MaxSizeOf(ht.capa) < MaxSizeOf(2 * ht.capa)
      BY <3>1, CapaBounds
    <3>4. MaxSizeOf(2 * ht.capa) \in Nat
      BY <3>2, CapaBounds
    <3>. QED  BY <3>3, <3>4
  <2>3. new_ht.capa = 2 * ht.capa
    BY <1>1 DEF Moving
  <2>. QED  BY <1>6, <1>9, <2>1, <2>2, <2>3
<1>12. ASSUME NEW j \in Nodes(new_ht) PROVE new_str[j] # Append(new_str[cur], top.label)
  <2>1. DOMAIN new_str = Nodes(new_ht)
    BY <1>6, <1>10 DEF Sound, Spells
  <2>2. PICK i \in done : new_str[j] = str[i]
    BY <1>1, <2>1 DEF Moving
  <2>3. i # top.node /\ i \in Nodes(ht) /\ top.node \in Nodes(ht)
    BY <1>1, <1>4, <2>2 DEF Moving, Nodes
  <2>. QED  BY <1>5, <1>8, <2>2, <2>3
<1>. QED
  <2>1. /\ r.added /\ r.node \in Vacant(new_ht)
        /\ r.trie.size = new_ht.size + 1 /\ r.trie.capa = new_ht.capa
        /\ Nodes(r.trie) = Nodes(new_ht) \cup {r.node}
        /\ Sound(r.trie, Named(new_str, r, cur, top.label))
    <3>. DEFINE a == top.label
    <3>1. a \in Symbols /\ cur \in Nodes(new_ht) /\ r = AddChild(new_ht, cur, a)
          /\ \A j \in Nodes(new_ht) : new_str[j] # Append(new_str[cur], a)
      BY <1>1, <1>4, <1>12
    <3>. HIDE DEF a
    <3>2. /\ r.added /\ r.node \in Vacant(new_ht)
          /\ r.trie.size = new_ht.size + 1 /\ r.trie.capa = new_ht.capa
          /\ Nodes(r.trie) = Nodes(new_ht) \cup {r.node}
          /\ Sound(r.trie, Named(new_str, r, cur, a))
      BY <1>6, <1>10, <1>11, <3>1, AddChildAdds
    <3>. QED  BY <3>2 DEF a
  <2>. QED  BY <1>4, <1>5, <2>1

LEMMA GraftInv == IndInv /\ Graft => IndInv'
<1>. DEFINE top == path[Len(path)]
            r == AddChild(new_ht, cur, top.label)
            L == Len(path)
            g == Named(new_str, r, cur, top.label)
            Step == [node : Children(ht) \ done, label : Symbols]
<1>1. SUFFICES ASSUME IndInv, Graft PROVE IndInv'
  OBVIOUS
<1>2. /\ Moving /\ phase = "graft" /\ OnPath /\ path # <<>>
      /\ cur \in Nodes(new_ht) /\ node_id \in Nodes(ht)
  BY <1>1 DEF IndInv, Graft
<1>3. /\ new_ht' = r.trie /\ new_str' = g /\ cur' = r.node
      /\ ht' = SetSlot(ht, top.node, r.node)
      /\ done' = done \cup {top.node}
      /\ path' = SubSeq(path, 1, L - 1)
      /\ phase' = IF path' = <<>> THEN "scan" ELSE "graft"
      /\ UNCHANGED <<pos, node_id, str>>
  BY <1>1 DEF Graft
<1>4. /\ top.node \in Children(ht) \ done /\ top.label \in Symbols
      /\ str[top.node] = Append(new_str[cur], top.label)
      /\ r.added /\ r.node \in Vacant(new_ht)
      /\ r.trie.size = new_ht.size + 1 /\ r.trie.capa = new_ht.capa
      /\ Nodes(r.trie) = Nodes(new_ht) \cup {r.node}
      /\ Sound(r.trie, g)
  <2>. HIDE DEF top, r
  <2>. QED  BY <1>1, GraftAdds DEF top, r
<1>5. path \in Seq(Step)
  BY <1>2 DEF OnPath
<1>. HIDE DEF top, r
<1>6. L \in Nat \ {0} /\ path \in [1 .. L -> Step] /\ DOMAIN path = 1 .. L
  <2>. HIDE DEF Step
  <2>. QED  BY <1>2, <1>5, EmptySeq, LenProperties
<1>7. IsTrie(ht) /\ IsTrie(new_ht) /\ DOMAIN str = Nodes(ht) /\ new_ht.size > 0
      /\ DOMAIN new_str = Nodes(new_ht)
  <2>1. IsTrie(ht) /\ IsTrie(new_ht) /\ Spells(ht, str) /\ Spells(new_ht, new_str) /\ ht.size > 0
    BY <1>2 DEF Moving, Sound
  <2>2. new_ht.size # 0
    <3>1. cur \in Nodes(new_ht) /\ new_ht.size = Cardinality(done) /\ RootId \in done
      BY <1>2 DEF Moving
    <3>2. IsFiniteSet(done)
      BY <1>2, <2>1, NodesAreSlots, FS_Subset DEF Moving
    <3>. QED  BY <3>1, <3>2, FS_EmptySet
  <2>. QED  BY <2>1, <2>2 DEF Spells, IsTrie
<1>8. r.node \in Nat \ {0, 1} /\ r.node \notin Nodes(new_ht) /\ top.node \in Nodes(ht)
      /\ top.node \in Slots(ht)
  BY <1>4, <1>7, NodesAreSlots DEF Nodes, Children
<1>9. /\ IsTrie(ht') /\ ht'.size = ht.size /\ ht'.capa = ht.capa
      /\ ht'.table[top.node] = r.node
      /\ \A j \in Slots(ht) \ {top.node} : ht'.table[j] = ht.table[j]
      /\ Slots(ht') = Slots(ht) /\ Nodes(ht') = Nodes(ht) /\ Children(ht') = Children(ht)
  BY <1>3, <1>7, <1>8, SetSlotKeepsNodes
<1>10. /\ DOMAIN g = Nodes(new_ht) \cup {r.node} /\ g[r.node] = str[top.node]
       /\ \A j \in Nodes(new_ht) : g[j] = new_str[j]
  BY <1>4, <1>7, <1>8 DEF Named
<1>. HIDE DEF g
<1>11. NodeMapSound'
  <2>1. SUFFICES ASSUME NEW i \in Nodes(ht)
                 PROVE  IF i \in done'
                        THEN /\ ht'.table[i] \in DOMAIN new_str'
                             /\ new_str'[ht'.table[i]] = str'[i]
                        ELSE /\ Parent(ht', i) \in Nodes(ht')
                             /\ str'[i] = Append(str'[Parent(ht', i)], Symb(ht', i))
    BY <1>9 DEF NodeMapSound
  <2>2. CASE i = top.node
    BY <1>3, <1>9, <1>10, <2>2
  <2>3. CASE i # top.node
    <3>1. i \in Slots(ht) \ {top.node} /\ ht'.table[i] = ht.table[i]
      BY <1>7, <1>9, <2>3, NodesAreSlots
    <3>2. Parent(ht', i) = Parent(ht, i) /\ Symb(ht', i) = Symb(ht, i)
      BY <3>1 DEF Parent, Symb
    <3>3. CASE i \in done
      BY <1>2, <1>3, <1>7, <1>10, <3>1, <3>3 DEF Moving, NodeMapSound
    <3>4. CASE i \notin done
      BY <1>2, <1>3, <1>9, <2>3, <3>2, <3>4 DEF Moving, NodeMapSound
    <3>. QED  BY <3>3, <3>4
  <2>. QED  BY <2>2, <2>3
<1>12. Moving'
  <2>1. Spells(ht', str') /\ Counted(ht') /\ ht'.size > 0
    BY <1>2, <1>3, <1>9 DEF Moving, Spells, Counted
  <2>2. new_ht'.size = Cardinality(done')
    <3>1. IsFiniteSet(done) /\ top.node \notin done
      BY <1>2, <1>4, <1>7, NodesAreSlots, FS_Subset DEF Moving
    <3>2. Cardinality(done \cup {top.node}) = Cardinality(done) + 1
      BY <3>1, FS_AddElement
    <3>. QED  BY <1>2, <1>3, <1>4, <3>2 DEF Moving
  <2>3. {new_str'[j] : j \in DOMAIN new_str'} = {str'[i] : i \in done'}
    <3>1. {g[j] : j \in DOMAIN g} = {new_str[j] : j \in Nodes(new_ht)} \cup {str[top.node]}
      BY <1>10
    <3>2. {str[i] : i \in done'} = {str[i] : i \in done} \cup {str[top.node]}
      BY <1>3
    <3>3. {new_str'[j] : j \in DOMAIN new_str'} = {g[j] : j \in DOMAIN g}
      BY <1>3
    <3>4. {str'[i] : i \in done'} = {str[i] : i \in done'}
      BY <1>3
    <3>5. {new_str[j] : j \in Nodes(new_ht)} = {str[i] : i \in done}
      BY <1>2, <1>7 DEF Moving
    <3>. QED  BY <3>1, <3>2, <3>3, <3>4, <3>5
  <2>4. done' \subseteq Nodes(ht') /\ RootId \in done'
    BY <1>2, <1>3, <1>8, <1>9 DEF Moving
  <2>5. Sound(new_ht', new_str') /\ new_ht'.capa = 2 * ht'.capa
    BY <1>2, <1>3, <1>4, <1>9 DEF Moving
  <2>6. pos' \in 2 .. ht'.capa /\ \A i \in Children(ht') : i < pos' => i \in done'
    BY <1>2, <1>3, <1>9 DEF Moving
  <2>7. str'[RootId] = <<>>
    BY <1>2, <1>3 DEF Moving
  <2>. QED  BY <1>9, <1>11, <2>1, <2>2, <2>3, <2>4, <2>5, <2>6, <2>7 DEF Moving
<1>13. cur' \in Nodes(new_ht')
  BY <1>3, <1>4
<1>14. /\ Len(path') = L - 1 /\ DOMAIN path' = 1 .. L - 1
       /\ \A k \in 1 .. L - 1 : path'[k] = path[k]
       /\ path' \in Seq([node : Children(ht') \ done', label : Symbols])
  <2>. DEFINE Step2 == [node : Children(ht') \ done', label : Symbols]
  <2>1. ASSUME NEW k \in 1 .. L - 1 PROVE path[k] \in Step2
    <3>1. k \in 1 .. L /\ L \in 1 .. L /\ k < L
      BY <1>6
    <3>2. path[k] \in Step
      BY <1>6, <3>1
    <3>3. Len(str[path[k].node]) > Len(str[top.node])
      BY <1>2, <1>6, <3>1 DEF OnPath, top
    <3>4. path[k].node # top.node
      <4>1. Len(str[top.node]) \in Nat
        <5>1. str[top.node] \in Seq(Symbols)
          BY <1>2, <1>7, <1>8 DEF Moving, Spells
        <5>. QED  BY <5>1, LenProperties
      <4>. QED  BY <3>3, <4>1
    <3>. QED  BY <1>3, <1>9, <3>2, <3>4
  <2>. HIDE DEF Step2
  <2>2. /\ SubSeq(path, 1, L - 1) \in Seq(Step2)
        /\ Len(SubSeq(path, 1, L - 1)) = IF 1 <= L - 1 THEN (L - 1) - 1 + 1 ELSE 0
        /\ \A k \in 1 .. (L - 1) - 1 + 1 : SubSeq(path, 1, L - 1)[k] = path[1 + k - 1]
    BY <1>6, <2>1, SubSeqProperties
  <2>3. \A k \in 1 .. L - 1 : path'[k] = path[k]
    <3>1. SUFFICES ASSUME NEW k \in 1 .. L - 1 PROVE path'[k] = path[k]
      OBVIOUS
    <3>2. k \in 1 .. (L - 1) - 1 + 1 /\ 1 + k - 1 = k
      BY <1>6
    <3>. QED  BY <1>3, <2>2, <3>2
  <2>4. Len(path') = L - 1
    BY <1>3, <1>6, <2>2
  <2>. QED  BY <1>3, <2>2, <2>3, <2>4, LenProperties DEF Step2
<1>15. CASE path' = <<>>
  BY <1>2, <1>3, <1>9, <1>12, <1>13, <1>15 DEF IndInv
<1>16. CASE path' # <<>>
  <2>1. L - 1 >= 1
    BY <1>14, <1>16, <1>6, EmptySeq
  <2>2. phase' = "graft" /\ Anchor' = str[top.node]
    BY <1>3, <1>10, <1>16 DEF Anchor
  <2>3. ASSUME NEW k \in 1 .. L - 1
        PROVE  str[path'[k].node] =
                 Append(IF k = L - 1 THEN str[top.node] ELSE str[path'[k+1].node], path'[k].label)
    <3>1. k \in 1 .. L /\ k # L /\ path'[k] = path[k]
      <4>1. L \in Nat
        BY <1>6
      <4>2. k \in 1 .. L /\ k # L
        BY <4>1
      <4>. QED  BY <1>14, <4>2
    <3>2. str[path[k].node] = Append(str[path[k+1].node], path[k].label)
      BY <1>2, <1>6, <3>1 DEF OnPath
    <3>3. CASE k = L - 1
      <4>1. k + 1 = L
        BY <1>6, <3>3
      <4>. QED  BY <3>1, <3>2, <3>3, <4>1 DEF top
    <3>4. CASE k # L - 1
      <4>1. k + 1 \in 1 .. L - 1
        <5>1. L \in Nat
          BY <1>6
        <5>. QED  BY <3>4, <5>1
      <4>. QED  BY <1>14, <3>1, <3>2, <3>4, <4>1
    <3>. QED  BY <3>3, <3>4
  <2>4. ASSUME NEW k \in 1 .. L - 1, NEW l \in 1 .. L - 1, k < l
        PROVE  Len(str[path'[k].node]) > Len(str[path'[l].node])
    <3>1. k \in 1 .. L /\ l \in 1 .. L /\ path'[k] = path[k] /\ path'[l] = path[l]
      BY <1>6, <1>14
    <3>. QED  BY <1>2, <1>6, <2>4, <3>1 DEF OnPath
  <2>5. path'[1].node = pos
    BY <1>2, <1>14, <2>1 DEF OnPath
  <2>6. OnPath'
    BY <1>2, <1>3, <1>9, <1>14, <2>2, <2>3, <2>4, <2>5, ZenonT(30) DEF OnPath
  <2>. QED  BY <1>2, <1>3, <1>9, <1>12, <1>13, <1>16, <2>2, <2>6 DEF IndInv
<1>. QED  BY <1>15, <1>16

\* When the outer loop is over every node has moved.
LEMMA AllMoved ==
  ASSUME IndInv, phase = "scan", pos = ht.capa
  PROVE  done = Nodes(ht)
<1>1. Moving
  BY DEF IndInv
<1>2. ht.capa \in Nat /\ \A i \in Children(ht) : i < pos
  BY <1>1 DEF Moving, IsTrie, Children, Slots
<1>. QED  BY <1>1, <1>2 DEF Moving, Nodes

LEMMA EndExpandInv == IndInv /\ EndExpand => IndInv'
<1>1. SUFFICES ASSUME IndInv, EndExpand PROVE IndInv'
  OBVIOUS
<1>2. Sound(new_ht, new_str)
  BY <1>1 DEF IndInv, EndExpand, Moving
<1>. QED  BY <1>1, <1>2 DEF IndInv, EndExpand

\* The invariant is inductive.
THEOREM Invariance == Spec => []IndInv
<1>1. Init => IndInv
  BY InitInv
<1>2. IndInv /\ [Next]_vars => IndInv'
  <2>1. SUFFICES ASSUME IndInv, [Next]_vars PROVE IndInv'
    OBVIOUS
  <2>2. CASE InsertRoot
    BY <2>1, <2>2, InsertRootInv
  <2>3. CASE \E n \in Nodes(ht), s \in Symbols : InsertChild(n, s)
    BY <2>1, <2>3, InsertChildInv
  <2>4. CASE BeginExpand
    BY <2>1, <2>4, BeginExpandInv
  <2>5. CASE Skip
    BY <2>1, <2>5, SkipInv
  <2>6. CASE BeginPath
    BY <2>1, <2>6, BeginPathInv
  <2>7. CASE Climb
    BY <2>1, <2>7, ClimbInv
  <2>8. CASE Graft
    BY <2>1, <2>8, GraftInv
  <2>9. CASE EndExpand
    BY <2>1, <2>9, EndExpandInv
  <2>10. CASE UNCHANGED vars
    <3>1. UNCHANGED <<ht, phase, str, pos, node_id, path, cur, done, new_ht, new_str>>
      BY <2>10 DEF vars, expandVars
    <3>2. NodeMapSound' = NodeMapSound
      BY <3>1 DEF NodeMapSound
    <3>3. Moving' = Moving
      BY <3>1, <3>2 DEF Moving
    <3>4. OnPath' = OnPath
      BY <3>1 DEF OnPath, Anchor
    <3>. QED  BY <2>1, <3>1, <3>3, <3>4 DEF IndInv
  <2>. QED  BY <2>1, <2>2, <2>3, <2>4, <2>5, <2>6, <2>7, <2>8, <2>9, <2>10 DEF Next, Expanding
<1>. QED  BY <1>1, <1>2, PTL DEF Spec

----------------------------------------------------------------------------
(* What follows from the invariant. *)

\* TypeOK: the variables have their types, and every slot number that the
\* loops of expand use as an index is in range.
THEOREM TypeCorrect == Spec => []TypeOK
<1>1. IndInv => TypeOK
  <2>1. SUFFICES ASSUME IndInv PROVE TypeOK
    OBVIOUS
  <2>2. IsTrie(NewTrie(0)) /\ Spells(NewTrie(0), NoStrings)
    BY NewTrieSound DEF Sound
  <2>3. CASE phase = "ready"
    <3>1. IsTrie(ht) /\ Spells(ht, str) /\ ht.capa \in Nat
      BY <2>1, <2>3 DEF IndInv, Sound, IsTrie
    <3>2. /\ pos = 0 /\ node_id = 0 /\ path = <<>> /\ cur = 0 /\ done = {}
          /\ new_ht = NewTrie(0) /\ new_str = NoStrings
      BY <2>1, <2>3 DEF IndInv
    <3>3. path \in Seq([node : Children(ht), label : Symbols])
      BY <3>2, EmptySeq
    <3>. QED  BY <2>2, <2>3, <3>1, <3>2, <3>3 DEF TypeOK
  <2>4. CASE phase # "ready"
    <3>1. Moving
      BY <2>1, <2>4 DEF IndInv
    <3>2. /\ IsTrie(ht) /\ Spells(ht, str) /\ IsTrie(new_ht) /\ Spells(new_ht, new_str)
          /\ done \subseteq Nodes(ht) /\ pos \in 0 .. ht.capa
      BY <3>1 DEF Moving, Sound
    <3>3. path \in Seq([node : Children(ht), label : Symbols])
      <4>. DEFINE S == [node : Children(ht) \ done, label : Symbols]
                  T == [node : Children(ht), label : Symbols]
      <4>1. S \subseteq T
        OBVIOUS
      <4>2. path \in Seq(S)
        BY <2>1, <2>4, EmptySeq DEF IndInv, OnPath
      <4>. HIDE DEF S, T
      <4>3. path \in Seq(T)
        BY <4>1, <4>2, SeqMonotonic
      <4>. QED  BY <4>3 DEF T
    <3>4. node_id \in Nodes(ht) \cup {0} /\ cur \in Nodes(new_ht) \cup {0}
      BY <2>1, <2>4 DEF IndInv, Nodes
    <3>. QED  BY <2>1, <2>4, <3>2, <3>3, <3>4 DEF TypeOK, IndInv
  <2>. QED  BY <2>3, <2>4
<1>. QED  BY <1>1, Invariance, PTL

\* Findable: between calls, find_child finds every child there is, at the
\* slot add_child or expand gave it, and no other.
THEOREM FindCorrect == Spec => []Findable
<1>1. IndInv => Findable
  <2>1. SUFFICES ASSUME IndInv, phase = "ready", NEW n \in DOMAIN str, NEW s \in Symbols
                 PROVE  IF \E i \in DOMAIN str : str[i] = Append(str[n], s)
                        THEN /\ FindChild(ht, n, s) \in DOMAIN str
                             /\ str[FindChild(ht, n, s)] = Append(str[n], s)
                        ELSE FindChild(ht, n, s) = NilId
    BY DEF Findable
  <2>2. Sound(ht, str) /\ IsTrie(ht) /\ Counted(ht) /\ ht.size > 0 /\ DOMAIN str = Nodes(ht)
    <3>1. Sound(ht, str)
      BY <2>1 DEF IndInv
    <3>. QED  BY <2>1, <3>1 DEF Sound, Spells, IsTrie
  <2>3. CASE \E i \in DOMAIN str : str[i] = Append(str[n], s)
    <3>1. PICK i \in Nodes(ht) : str[i] = Append(str[n], s)
      BY <2>2, <2>3
    <3>2. i \in Children(ht) /\ ht.table[i] = MakeKey(n, s)
      BY <2>1, <2>2, <3>1, KeyIsString
    <3>3. Slot(ht, MakeKey(n, s)) = i /\ i \notin Vacant(ht)
      BY <2>2, <3>2, FindsStored, NodesAreSlots
    <3>4. FindChild(ht, n, s) = i
      BY <2>2, <3>3 DEF FindChild
    <3>. QED  BY <2>2, <3>1, <3>4
  <2>4. CASE \A i \in Nodes(ht) : str[i] # Append(str[n], s)
    <3>1. MakeKey(n, s) \in Nat
      BY <2>1, <2>2, NodesAreSlots, KeySplits
    <3>2. \A i \in Children(ht) : ht.table[i] # MakeKey(n, s)
      BY <2>1, <2>2, <2>4, KeyIsString DEF Nodes
    <3>3. Slot(ht, MakeKey(n, s)) \in Vacant(ht)
      BY <2>2, <3>1, <3>2, FindsVacant
    <3>. QED  BY <2>2, <2>4, <3>3 DEF FindChild
  <2>. QED  BY <2>2, <2>3, <2>4
<1>. QED  BY <1>1, Invariance, PTL

\* CallsTerminate: no probe loop runs for ever, in the table at rest or in
\* the one expand fills.
THEOREM ProbesTerminate == Spec => []CallsTerminate
<1>1. IndInv => CallsTerminate
  <2>1. SUFFICES ASSUME IndInv PROVE CallsTerminate
    OBVIOUS
  <2>2. ASSUME phase = "ready", NEW n \in DOMAIN str, NEW s \in Symbols
        PROVE  Terminates(ht, MakeKey(n, s))
    <3>1. IsTrie(ht) /\ Counted(ht) /\ n \in Nodes(ht)
      BY <2>1, <2>2 DEF IndInv, Sound, Spells
    <3>. QED  BY <3>1, NodesAreSlots, KeySplits, ProbesReturn
  <2>3. ASSUME phase = "graft"
        PROVE  Terminates(new_ht, MakeKey(cur, path[Len(path)].label))
    <3>. DEFINE S == [node : Children(ht) \ done, label : Symbols]
    <3>1. Moving /\ path \in Seq(S) /\ path # <<>> /\ cur \in Nodes(new_ht)
      BY <2>1, <2>3 DEF IndInv, OnPath
    <3>2. IsTrie(new_ht) /\ Counted(new_ht)
      BY <3>1 DEF Moving, Sound
    <3>3. path[Len(path)] \in S
      <4>. HIDE DEF S
      <4>1. Len(path) \in Nat \ {0} /\ path \in [1 .. Len(path) -> S]
        BY <3>1, EmptySeq, LenProperties
      <4>. QED  BY <4>1
    <3>4. path[Len(path)].label \in Symbols /\ cur \in Nat
      BY <3>1, <3>2, <3>3, NodesAreSlots
    <3>. QED  BY <3>2, <3>4, KeySplits, ProbesReturn
  <2>. QED  BY <2>2, <2>3 DEF CallsTerminate
<1>. QED  BY <1>1, Invariance, PTL

\* NodeMapSound and NothingLost: the map expand returns takes every node of
\* the old table to the node of the new table with the same string.
THEOREM NodeMapCorrect == Spec => [](NodeMapSound /\ NothingLost)
<1>1. IndInv => NodeMapSound /\ NothingLost
  <2>1. SUFFICES ASSUME IndInv PROVE NodeMapSound /\ NothingLost
    OBVIOUS
  <2>2. NodeMapSound
    BY <2>1 DEF IndInv, Moving, NodeMapSound
  <2>3. ASSUME phase = "scan", pos = ht.capa
        PROVE  /\ done = Nodes(ht)
               /\ {new_str[j] : j \in DOMAIN new_str} = {str[i] : i \in DOMAIN str}
    <3>1. Moving /\ done = Nodes(ht)
      BY <2>1, <2>3, AllMoved DEF IndInv
    <3>2. DOMAIN str = Nodes(ht)
      BY <3>1 DEF Moving, Spells, IsTrie
    <3>3. {new_str[j] : j \in DOMAIN new_str} = {str[i] : i \in done}
      BY <3>1 DEF Moving
    <3>. QED  BY <3>1, <3>2, <3>3
  <2>. QED  BY <2>2, <2>3 DEF NothingLost
<1>. QED  BY <1>1, Invariance, PTL

\* SizeExact: size() is the number of nodes and within the load limit, and
\* the table expand returns is below its own limit.
THEOREM SizeCorrect == Spec => []SizeExact
<1>1. IndInv => SizeExact
  <2>1. SUFFICES ASSUME IndInv PROVE SizeExact
    OBVIOUS
  <2>2. CASE phase = "ready"
    BY <2>1, <2>2 DEF IndInv, Sound, Counted, IsTrie, SizeExact
  <2>3. CASE phase # "ready"
    <3>1. Moving
      BY <2>1, <2>3 DEF IndInv
    <3>2. IsTrie(ht) /\ Counted(ht) /\ ht.size > 0 /\ new_ht.capa = 2 * ht.capa
          /\ new_ht.size = Cardinality(done) /\ done \subseteq Nodes(ht)
      BY <3>1 DEF Moving
    <3>3. ht.size = Cardinality(Nodes(ht)) /\ ht.size <= MaxSizeOf(ht.capa) /\ ht.size \in Nat
      BY <3>2 DEF Counted, IsTrie
    <3>4. Cardinality(done) \in Nat /\ Cardinality(done) <= Cardinality(Nodes(ht))
      <4>1. IsFiniteSet(Nodes(ht))
        BY <3>2, NodesAreSlots
      <4>. QED  BY <3>2, <4>1, FS_Subset, FS_CardinalityType
    <3>5. MaxSizeOf(ht.capa) \in Nat /\ MaxSizeOf(2 * ht.capa) \in Nat
          /\ MaxSizeOf(ht.capa) < MaxSizeOf(2 * ht.capa)
      <4>1. ht.capa \in Nat /\ ht.capa >= MinCapa
        BY <3>2 DEF IsTrie
      <4>2. 2 * ht.capa \in Nat /\ 2 * ht.capa >= MinCapa
        BY <4>1, TrieAssumption
      <4>3. MaxSizeOf(ht.capa) \in Nat /\ MaxSizeOf(ht.capa) < MaxSizeOf(2 * ht.capa)
        BY <4>1, CapaBounds
      <4>4. MaxSizeOf(2 * ht.capa) \in Nat
        BY <4>2, CapaBounds
      <4>. QED  BY <4>3, <4>4
    <3>. QED  BY <3>2, <3>3, <3>4, <3>5 DEF SizeExact
  <2>. QED  BY <2>2, <2>3
<1>. QED  BY <1>1, Invariance, PTL

\* Ids maps the string of a node to that node.
LEMMA IdsInvert ==
  ASSUME NEW f, \A i, j \in DOMAIN f : f[i] = f[j] => i = j
  PROVE  /\ DOMAIN IdsOf(f) = {f[i] : i \in DOMAIN f}
         /\ \A i \in DOMAIN f : IdsOf(f)[f[i]] = i
         /\ Abstract!Unambiguous(IdsOf(f))
<1>1. DOMAIN IdsOf(f) = {f[i] : i \in DOMAIN f}
  BY DEF IdsOf
<1>2. \A i \in DOMAIN f : IdsOf(f)[f[i]] = i
  BY DEF IdsOf
<1>3. \A v, w \in DOMAIN IdsOf(f) : IdsOf(f)[v] = IdsOf(f)[w] => v = w
  BY <1>1, <1>2
<1>. QED  BY <1>1, <1>2, <1>3 DEF Abstract!Unambiguous

\* ImplementsDynamicTrie: seen through the strings of its nodes the table is a
\* dynamic trie.
THEOREM Refinement == Spec => ImplementsDynamicTrie
<1>1. Init => Abstract!Init
  <2>1. SUFFICES ASSUME Init PROVE Ids = [w \in {} |-> 0]
    BY DEF Abstract!Init
  <2>2. DOMAIN str = {}
    BY <2>1 DEF Init, NoStrings
  <2>. QED  BY <2>2 DEF Ids, IdsOf
<1>2. IndInv /\ [Next]_vars => [Abstract!Next]_Ids
  <2>1. SUFFICES ASSUME IndInv, [Next]_vars PROVE Abstract!Next \/ Ids' = Ids
    OBVIOUS
  <2>2. str' = str => Ids' = Ids
    BY DEF Ids
  <2>3. ASSUME InsertRoot PROVE Abstract!AddRoot
    <3>1. Sound(ht, str) /\ ht.size = 0 /\ str' = RootString
      BY <2>1, <2>3 DEF IndInv, InsertRoot
    <3>2. DOMAIN str = {} /\ DOMAIN str' = {RootId} /\ str'[RootId] = <<>>
      BY <3>1 DEF Sound, Spells, RootString
    <3>3. DOMAIN Ids = {} /\ DOMAIN Ids' = {<<>>}
      BY <3>2 DEF Ids, IdsOf
    <3>. QED  BY <3>3 DEF Abstract!AddRoot, Abstract!Strings
  <2>4. ASSUME NEW n \in Nodes(ht), NEW s \in Symbols, InsertChild(n, s)
        PROVE  Abstract!Next \/ str' = str
    <3>. DEFINE r == AddChild(ht, n, s)
    <3>1. /\ Sound(ht, str) /\ ht.size > 0 /\ str' = Named(str, r, n, s)
      BY <2>1, <2>4 DEF IndInv, InsertChild
    <3>2. IsTrie(ht) /\ Spells(ht, str) /\ DOMAIN str = Nodes(ht)
      BY <3>1 DEF Sound, Spells
    <3>3. CASE \E j \in Nodes(ht) : str[j] = Append(str[n], s)
      <4>1. PICK j \in Nodes(ht) : str[j] = Append(str[n], s)
        BY <3>3
      <4>2. r = [trie |-> ht, node |-> j, added |-> FALSE]
        BY <3>1, <4>1, AddChildFinds
      <4>. HIDE DEF r
      <4>. QED  BY <3>1, <4>2 DEF Named
    <3>4. CASE /\ \A j \in Nodes(ht) : str[j] # Append(str[n], s)
               /\ ht.size = MaxSizeOf(ht.capa)
      <4>1. r = [trie |-> ht, node |-> n, added |-> FALSE]
        BY <3>1, <3>4, AddChildRefuses
      <4>. HIDE DEF r
      <4>. QED  BY <3>1, <4>1 DEF Named
    <3>5. CASE /\ \A j \in Nodes(ht) : str[j] # Append(str[n], s)
               /\ ht.size # MaxSizeOf(ht.capa)
      <4>1. r.added /\ r.node \in Vacant(ht) /\ Nodes(r.trie) = Nodes(ht) \cup {r.node}
            /\ r.trie.size = ht.size + 1 /\ Sound(r.trie, str')
        BY <3>1, <3>5, AddChildAdds
      <4>. HIDE DEF r
      <4>2. r.node \notin Nodes(ht)
        BY <3>2, <4>1, NodesAreSlots
      <4>3. /\ DOMAIN str' = Nodes(ht) \cup {r.node} /\ str'[r.node] = Append(str[n], s)
            /\ \A j \in Nodes(ht) : str'[j] = str[j]
        BY <3>1, <3>2, <4>1, <4>2 DEF Named
      <4>4. \A i, j \in DOMAIN str' : str'[i] = str'[j] => i = j
        BY <4>1 DEF Sound, Spells
      <4>5. /\ DOMAIN Ids = {str[i] : i \in Nodes(ht)}
            /\ \A i \in Nodes(ht) : Ids[str[i]] = i
        BY <3>2, IdsInvert DEF Ids, Spells
      <4>6. /\ DOMAIN Ids' = {str'[i] : i \in Nodes(ht) \cup {r.node}}
            /\ \A i \in Nodes(ht) \cup {r.node} : Ids'[str'[i]] = i
            /\ Abstract!Unambiguous(Ids')
        BY <4>3, <4>4, IdsInvert DEF Ids
      <4>7. DOMAIN Ids' = DOMAIN Ids \cup {Append(str[n], s)}
        <5>1. {str'[i] : i \in Nodes(ht) \cup {r.node}} = {str[i] : i \in Nodes(ht)} \cup {str'[r.node]}
          BY <4>3
        <5>. QED  BY <4>3, <4>5, <4>6, <5>1
      <4>8. \A v \in DOMAIN Ids : Ids'[v] = Ids[v]
        BY <4>3, <4>5, <4>6
      <4>9. str[n] \in DOMAIN Ids /\ Append(str[n], s) \notin DOMAIN Ids
        BY <3>5, <4>5
      <4>10. Abstract!AddChild(str[n], s)
        BY <4>6, <4>7, <4>8, <4>9 DEF Abstract!AddChild, Abstract!Strings
      <4>. QED  BY <4>9, <4>10 DEF Abstract!Next, Abstract!Strings
    <3>. QED  BY <3>3, <3>4, <3>5
  <2>5. ASSUME EndExpand PROVE Abstract!Renumber
    <3>1. /\ phase = "scan" /\ pos = ht.capa /\ str' = new_str
      BY <2>5 DEF EndExpand
    <3>2. Moving /\ done = Nodes(ht)
      BY <2>1, <3>1, AllMoved DEF IndInv
    <3>3. /\ DOMAIN str = Nodes(ht)
          /\ \A i, j \in DOMAIN str : str[i] = str[j] => i = j
          /\ \A i, j \in DOMAIN new_str : new_str[i] = new_str[j] => i = j
      BY <3>2 DEF Moving, Sound, Spells, IsTrie
    <3>4. {new_str[j] : j \in DOMAIN new_str} = {str[i] : i \in DOMAIN str}
      BY <3>2, <3>3 DEF Moving
    <3>5. DOMAIN Ids' = DOMAIN Ids /\ Abstract!Unambiguous(Ids')
      <4>1. DOMAIN IdsOf(str) = {str[i] : i \in DOMAIN str}
        BY <3>3, IdsInvert
      <4>2. /\ DOMAIN IdsOf(new_str) = {new_str[i] : i \in DOMAIN new_str}
            /\ Abstract!Unambiguous(IdsOf(new_str))
        BY <3>3, IdsInvert
      <4>3. Ids = IdsOf(str) /\ Ids' = IdsOf(new_str)
        BY <3>1 DEF Ids
      <4>. QED  BY <3>4, <4>1, <4>2, <4>3
    <3>. QED  BY <3>5 DEF Abstract!Renumber, Abstract!Strings
  <2>6. CASE BeginExpand \/ Skip \/ BeginPath \/ Climb \/ Graft \/ UNCHANGED vars
    BY <2>2, <2>6 DEF BeginExpand, Skip, BeginPath, Climb, Graft, vars
  <2>. QED  BY <2>1, <2>2, <2>3, <2>4, <2>5, <2>6 DEF Next, Expanding, Abstract!Next
<1>. QED  BY <1>1, <1>2, Invariance, PTL DEF Spec, Abstract!Spec, ImplementsDynamicTrie
=============================================================================
