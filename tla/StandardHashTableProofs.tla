---------------------- MODULE StandardHashTableProofs ----------------------
(***************************************************************************)
(* standard_hash_table, for every capacity, load factor, hash function and *)
(* sequence of calls.  The inductive invariant is IndInv.                  *)
(***************************************************************************)
EXTENDS StandardHashTable, FiniteSetTheorems, WellFoundedInduction, TLAPS

----------------------------------------------------------------------------
(* The probe loop, for every table size and every stopping set. *)

\* right_ stays in the table and wraps once.
LEMMA AtWraps ==
  ASSUME NEW c \in Nat \ {0}, NEW h \in 0 .. c-1, NEW d \in 0 .. c-1
  PROVE  /\ At(c, h, d) = IF h + d < c THEN h + d ELSE h + d - c
         /\ At(c, h, d) \in 0 .. c-1
BY DEF At

\* The first c probes visit different slots ...
LEMMA AtInjective ==
  ASSUME NEW c \in Nat \ {0}, NEW h \in 0 .. c-1,
         NEW d \in 0 .. c-1, NEW e \in 0 .. c-1,
         At(c, h, d) = At(c, h, e)
  PROVE  d = e
BY DEF At

\* ... and leave none out.
LEMMA AtSurjective ==
  ASSUME NEW c \in Nat \ {0}, NEW h \in 0 .. c-1, NEW i \in 0 .. c-1
  PROVE  \E d \in 0 .. c-1 : At(c, h, d) = i
<1>. DEFINE d == IF h <= i THEN i - h ELSE i - h + c
<1>1. d \in 0 .. c-1
  OBVIOUS
<1>2. At(c, h, d) = IF h + d < c THEN h + d ELSE h + d - c
  <2>. HIDE DEF d
  <2>. QED  BY <1>1, AtWraps
<1>. QED  BY <1>1, <1>2

\* The loop returns at the first stopping slot, and there is one such slot.
LEMMA ProbeHits ==
  ASSUME NEW c \in Nat \ {0}, NEW h \in 0 .. c-1, NEW S,
         NEW d \in FirstStops(c, h, S)
  PROVE  /\ ProbeEnds(c, h, S)
         /\ ProbeEnd(c, h, S) = At(c, h, d)
<1>1. \A e \in FirstStops(c, h, S) : e = d
  BY DEF FirstStops
<1>2. FirstStops(c, h, S) = {d}
  BY <1>1
<1>. QED  BY <1>2 DEF ProbeEnds, ProbeEnd

\* A probe loop ends if some slot of the table stops it.
LEMMA ProbesEnd ==
  ASSUME NEW c \in Nat \ {0}, NEW h \in 0 .. c-1, NEW S, NEW i \in 0 .. c-1, i \in S
  PROVE  ProbeEnds(c, h, S)
<1>. DEFINE T == {d \in 0 .. c-1 : At(c, h, d) \in S}
<1>1. T \subseteq Nat /\ T # {}
  <2>1. PICK d \in 0 .. c-1 : At(c, h, d) = i
    BY AtSurjective
  <2>. QED  BY <2>1
<1>2. PICK d \in T : \A e \in T : <<e, d>> \notin OpToRel(<, Nat)
  <2>. HIDE DEF T
  <2>. QED  BY <1>1, NatLessThanWellFounded, WFMin
<1>3. \A e \in T : ~(e < d)
  BY <1>1, <1>2 DEF OpToRel
<1>4. d \in FirstStops(c, h, S)
  BY <1>3 DEF FirstStops
<1>. QED  BY <1>4 DEF ProbeEnds

----------------------------------------------------------------------------
\* The load limit leaves a slot free, and doubling the table raises it.
LEMMA CapaBounds ==
  ASSUME NEW c \in Nat, c >= MinCapa
  PROVE  /\ c >= 2
         /\ MaxSizeOf(c) \in Nat /\ MaxSizeOf(c) >= 1 /\ MaxSizeOf(c) < c
         /\ MaxSizeOf(c) < MaxSizeOf(2 * c)
<1>0. MinCapa \in Nat /\ MaxFactor \in 1 .. 99 /\ MinCapa * MaxFactor >= 100
  BY StandardAssumption
<1>1. c >= 2
  BY <1>0
<1>. DEFINE p == c * MaxFactor
<1>2. p \in Nat /\ p >= 100 /\ p <= 99 * c /\ (2 * c) * MaxFactor = 2 * p
  BY <1>0
<1>3. p \div 100 \in Nat /\ p \div 100 >= 1 /\ p \div 100 < c /\ p \div 100 < (2 * p) \div 100
  <2>. HIDE DEF p
  <2>. QED  BY <1>1, <1>2
<1>. QED  BY <1>1, <1>2, <1>3 DEF MaxSizeOf

LEMMA TableFacts ==
  ASSUME NEW t, IsTable(t)
  PROVE  /\ t.capa \in Nat \ {0} /\ Slots(t) = 0 .. t.capa-1
         /\ Taken(t) \cup Vacant(t) = Slots(t)
         /\ Taken(t) \cap Vacant(t) = {}
         /\ IsFiniteSet(Taken(t)) /\ t.size \in Nat
         /\ Vacant(t) # {}
         /\ \A i \in Taken(t) : t.table[i].key \in Key /\ t.table[i].val \in Value
         /\ \A i \in Vacant(t) : t.table[i] = Free
<1>1. t.capa \in Nat \ {0} /\ MaxSizeOf(t.capa) < t.capa /\ MaxSizeOf(t.capa) \in Nat
  BY CapaBounds DEF IsTable
<1>2. Slots(t) = 0 .. t.capa-1 /\ IsFiniteSet(Slots(t)) /\ Cardinality(Slots(t)) = t.capa
  <2>1. Slots(t) = 0 .. t.capa-1
    BY DEF IsTable, Slots
  <2>2. 0 \in Int /\ t.capa - 1 \in Int /\ ~(0 > t.capa - 1) /\ (t.capa - 1) - 0 + 1 = t.capa
    BY <1>1
  <2>. QED  BY <2>1, <2>2, FS_Interval
<1>3. Taken(t) \cup Vacant(t) = Slots(t) /\ Taken(t) \cap Vacant(t) = {}
  BY DEF Taken, Vacant
<1>4. IsFiniteSet(Taken(t)) /\ t.size \in Nat
  BY <1>2, <1>3, FS_Subset, FS_CardinalityType DEF IsTable
<1>5. Vacant(t) # {}
  <2>1. Cardinality(Taken(t)) # Cardinality(Slots(t))
    BY <1>1, <1>2, <1>4 DEF IsTable
  <2>. QED  BY <1>3, <2>1
<1>6. /\ \A i \in Taken(t) : t.table[i].key \in Key /\ t.table[i].val \in Value
      /\ \A i \in Vacant(t) : t.table[i] = Free
  <2>1. \A i \in Slots(t) : t.table[i] \in {Free} \cup [key : Key, val : Value]
    BY <1>2 DEF IsTable
  <2>2. NilKey \notin Key /\ Free.key = NilKey
    BY StandardAssumption DEF NilKey, Free
  <2>. QED  BY <2>1, <2>2 DEF Taken, Vacant
<1>. QED  BY <1>1, <1>2, <1>3, <1>4, <1>5, <1>6

LEMMA HomeInTable ==
  ASSUME NEW t, IsTable(t), NEW key \in Key
  PROVE  Home(t, key) \in 0 .. t.capa-1
<1>1. Hash[key] \in Nat /\ t.capa \in Nat \ {0}
  BY TableFacts, StandardAssumption
<1>. QED  BY <1>1 DEF Home

\* No probe loop runs for ever on a table within its load limit.
LEMMA ProbesReturn ==
  ASSUME NEW t, IsTable(t), NEW key \in Key
  PROVE  Terminates(t, key)
<1>1. t.capa \in Nat \ {0} /\ Home(t, key) \in 0 .. t.capa-1
  BY TableFacts, HomeInTable
<1>2. PICK i \in 0 .. t.capa-1 : i \in Stops(t, key)
  BY TableFacts DEF Stops
<1>. QED  BY <1>1, <1>2, ProbesEnd DEF Terminates

\* get and set stop at the slot of the key they look for ...
LEMMA FindsStored ==
  ASSUME NEW t, NEW f, Sound(t, f), NEW i \in Taken(t)
  PROVE  Slot(t, t.table[i].key) = i
<1>. DEFINE key == t.table[i].key
            h == Home(t, key)
<1>1. IsTable(t) /\ Holds(t, f) /\ Chained(t)
  BY DEF Sound
<1>2. t.capa \in Nat \ {0} /\ h \in 0 .. t.capa-1 /\ key \in Key
  BY <1>1, TableFacts, HomeInTable
<1>3. PICK d \in 0 .. t.capa-1 :
        /\ At(t.capa, h, d) = i
        /\ \A e \in 0 .. d-1 : At(t.capa, h, e) \notin Vacant(t)
  BY <1>1 DEF Chained
<1>4. \A e \in 0 .. d-1 : At(t.capa, h, e) \notin Stops(t, key)
  <2>1. SUFFICES ASSUME NEW e \in 0 .. d-1, At(t.capa, h, e) \in Stops(t, key)
                 PROVE  FALSE
    OBVIOUS
  <2>2. At(t.capa, h, e) \in Taken(t) /\ t.table[At(t.capa, h, e)].key = key
    BY <1>3, <2>1 DEF Stops, Taken
  <2>3. At(t.capa, h, e) = i
    BY <1>1, <2>2 DEF Holds
  <2>4. e \in 0 .. t.capa-1 /\ e # d
    BY <1>2
  <2>. QED
    <3>. HIDE DEF h
    <3>. QED  BY <1>2, <1>3, <2>3, <2>4, AtInjective
<1>5. i \in Stops(t, key)
  BY DEF Stops, Taken
<1>6. d \in FirstStops(t.capa, h, Stops(t, key))
  BY <1>3, <1>4, <1>5 DEF FirstStops
<1>7. ProbeEnd(t.capa, h, Stops(t, key)) = i
  <2>. HIDE DEF h
  <2>. QED  BY <1>2, <1>3, <1>6, ProbeHits
<1>. QED  BY <1>7 DEF Slot

\* ... and, for a key that is not stored, at a free slot with no free slot
\* before it.
LEMMA FindsVacant ==
  ASSUME NEW t, IsTable(t), NEW key \in Key,
         \A i \in Taken(t) : t.table[i].key # key
  PROVE  /\ Slot(t, key) \in Vacant(t)
         /\ \E d \in 0 .. t.capa-1 :
              /\ At(t.capa, Home(t, key), d) = Slot(t, key)
              /\ \A e \in 0 .. d-1 : At(t.capa, Home(t, key), e) \notin Vacant(t)
<1>. DEFINE h == Home(t, key)
<1>1. t.capa \in Nat \ {0} /\ h \in 0 .. t.capa-1
  BY TableFacts, HomeInTable
<1>2. PICK d : d \in FirstStops(t.capa, h, Stops(t, key))
  BY ProbesReturn DEF Terminates, ProbeEnds
<1>3. Slot(t, key) = At(t.capa, h, d)
  <2>1. ProbeEnd(t.capa, h, Stops(t, key)) = At(t.capa, h, d)
    <3>. HIDE DEF h
    <3>. QED  BY <1>1, <1>2, ProbeHits
  <2>. QED  BY <2>1 DEF Slot
<1>4. /\ d \in 0 .. t.capa-1
      /\ At(t.capa, h, d) \in Stops(t, key)
      /\ \A e \in 0 .. d-1 : At(t.capa, h, e) \notin Stops(t, key)
  BY <1>2 DEF FirstStops
<1>5. Slot(t, key) \in Vacant(t)
  BY <1>3, <1>4 DEF Stops, Taken
<1>. QED  BY <1>3, <1>4, <1>5 DEF Stops

\* set on a table with room: the table stays sound, the slot it stops at is
\* free exactly if the key is new, and only then the size grows.
LEMMA PutSound ==
  ASSUME NEW t, NEW f, Sound(t, f), t.size < MaxSizeOf(t.capa),
         NEW key \in Key, NEW val \in Value
  PROVE  /\ Sound(Put(t, key, val), Updated(f, key, val))
         /\ Put(t, key, val).capa = t.capa
         /\ Put(t, key, val).size = IF key \in DOMAIN f THEN t.size ELSE t.size + 1
         /\ Slot(t, key) \in Vacant(t) <=> key \notin DOMAIN f
<1>. DEFINE i == Slot(t, key)
            u == Put(t, key, val)
            g == Updated(f, key, val)
            entry == [key |-> key, val |-> val]
<1>1. IsTable(t) /\ Chained(t) /\ Holds(t, f)
  BY DEF Sound
<1>2. /\ t.capa \in Nat \ {0} /\ Slots(t) = 0 .. t.capa-1 /\ t.size \in Nat
      /\ Taken(t) \cup Vacant(t) = Slots(t) /\ Taken(t) \cap Vacant(t) = {}
      /\ IsFiniteSet(Taken(t))
      /\ \A j \in Taken(t) : t.table[j].key \in Key /\ t.table[j].val \in Value
      /\ \A j \in Vacant(t) : t.table[j] = Free
  BY <1>1, TableFacts
<1>3. DOMAIN f = {t.table[j].key : j \in Taken(t)}
  BY <1>1 DEF Holds
<1>4. DOMAIN g = DOMAIN f \cup {key} /\ g[key] = val /\ \A k \in DOMAIN f : k # key => g[k] = f[k]
  BY DEF Updated
<1>5. NilKey \notin Key /\ Free.key = NilKey
  BY StandardAssumption DEF NilKey, Free
<1>6. CASE key \in DOMAIN f
  <2>1. PICK j \in Taken(t) : t.table[j].key = key
    BY <1>3, <1>6
  <2>2. i = j /\ i \notin Vacant(t)
    BY <1>2, <2>1, FindsStored
  <2>3. u = [t EXCEPT !.table[i].val = val]
    BY <2>2 DEF Put
  <2>. HIDE DEF i, u, g
  <2>4. /\ u = [table |-> u.table, size |-> u.size, capa |-> u.capa]
        /\ u.size = t.size /\ u.capa = t.capa
        /\ u.table = [t.table EXCEPT ![i].val = val]
    BY <1>1, <2>3 DEF IsTable
  <2>5. t.table[i] \in [key : Key, val : Value] /\ t.table[i].key = key
    BY <1>1, <1>2, <1>5, <2>1, <2>2 DEF IsTable, Taken, Vacant
  <2>6. /\ u.table \in [0 .. t.capa-1 -> {Free} \cup [key : Key, val : Value]]
        /\ u.table[i] = entry
        /\ \A k \in Slots(t) : k # i => u.table[k] = t.table[k]
    BY <1>1, <1>2, <2>1, <2>2, <2>4, <2>5 DEF IsTable
  <2>7. Slots(u) = Slots(t) /\ Vacant(u) = Vacant(t) /\ Taken(u) = Taken(t)
        /\ \A k \in Slots(t) : u.table[k].key = t.table[k].key
    BY <1>2, <1>5, <2>1, <2>2, <2>6 DEF Slots, Vacant, Taken
  <2>8. IsTable(u)
    BY <1>1, <2>4, <2>6, <2>7 DEF IsTable
  <2>9. Chained(u)
    BY <1>1, <1>2, <2>4, <2>7 DEF Chained, Home, Taken
  <2>10. Holds(u, g)
    <3>1. DOMAIN g = {u.table[k].key : k \in Taken(u)}
      BY <1>2, <1>3, <1>4, <1>6, <2>7
    <3>2. g = [k \in DOMAIN g |-> g[k]]
      BY DEF g, Updated
    <3>3. \A k \in Taken(u) : g[u.table[k].key] = u.table[k].val
      <4>1. SUFFICES ASSUME NEW k \in Taken(t) PROVE g[u.table[k].key] = u.table[k].val
        BY <2>7
      <4>2. CASE k = i
        BY <1>4, <2>6, <4>2
      <4>3. CASE k # i
        <5>1. t.table[k].key # key
          BY <1>1, <2>1, <2>2, <4>3 DEF Holds
        <5>2. g[t.table[k].key] = f[t.table[k].key]
          BY <1>3, <1>4, <5>1
        <5>. QED  BY <1>1, <1>2, <2>6, <4>3, <5>2 DEF Holds
      <4>. QED  BY <4>2, <4>3
    <3>. QED  BY <1>1, <1>2, <2>7, <3>1, <3>2, <3>3 DEF Holds
  <2>. QED  BY <1>6, <2>2, <2>4, <2>8, <2>9, <2>10 DEF Sound, u, g, i
<1>7. CASE key \notin DOMAIN f
  <2>1. \A j \in Taken(t) : t.table[j].key # key
    BY <1>3, <1>7
  <2>2. /\ i \in Vacant(t)
        /\ \E d \in 0 .. t.capa-1 :
             /\ At(t.capa, Home(t, key), d) = i
             /\ \A e \in 0 .. d-1 : At(t.capa, Home(t, key), e) \notin Vacant(t)
    BY <1>1, <2>1, FindsVacant
  <2>3. u = [t EXCEPT !.table[i] = entry, !.size = @ + 1]
    BY <2>2 DEF Put
  <2>. HIDE DEF i, u, g
  <2>4. /\ u = [table |-> u.table, size |-> u.size, capa |-> u.capa]
        /\ u.size = t.size + 1 /\ u.capa = t.capa
        /\ u.table = [t.table EXCEPT ![i] = entry]
    BY <1>1, <2>3 DEF IsTable
  <2>5. i \in Slots(t) /\ i \notin Taken(t)
    BY <1>2, <2>2
  <2>6. /\ u.table \in [0 .. t.capa-1 -> {Free} \cup [key : Key, val : Value]]
        /\ u.table[i] = entry
        /\ \A k \in Slots(t) : k # i => u.table[k] = t.table[k]
    BY <1>1, <1>2, <2>4, <2>5 DEF IsTable
  <2>7. Slots(u) = Slots(t) /\ Vacant(u) = Vacant(t) \ {i} /\ Taken(u) = Taken(t) \cup {i}
    BY <1>2, <1>5, <2>5, <2>6 DEF Slots, Vacant, Taken
  <2>8. IsTable(u)
    <3>1. Cardinality(Taken(u)) = Cardinality(Taken(t)) + 1
      BY <1>2, <2>5, <2>7, FS_AddElement
    <3>2. u.size <= MaxSizeOf(u.capa)
      BY <1>1, <1>2, <2>4, CapaBounds DEF IsTable
    <3>. QED  BY <1>1, <2>4, <2>6, <3>1, <3>2 DEF IsTable
  <2>9. Chained(u)
    <3>1. SUFFICES ASSUME NEW j \in Taken(u)
                   PROVE  \E d \in 0 .. u.capa-1 :
                            /\ At(u.capa, Home(u, u.table[j].key), d) = j
                            /\ \A e \in 0 .. d-1 :
                                 At(u.capa, Home(u, u.table[j].key), e) \notin Vacant(u)
      BY DEF Chained
    <3>2. \A k : Home(u, k) = Home(t, k)
      BY <2>4 DEF Home
    <3>3. CASE j = i
      BY <2>2, <2>4, <2>6, <2>7, <3>2, <3>3
    <3>4. CASE j # i
      <4>1. j \in Taken(t) /\ u.table[j] = t.table[j]
        BY <1>2, <2>6, <2>7, <3>4
      <4>2. PICK d \in 0 .. t.capa-1 :
              /\ At(t.capa, Home(t, t.table[j].key), d) = j
              /\ \A e \in 0 .. d-1 : At(t.capa, Home(t, t.table[j].key), e) \notin Vacant(t)
        BY <1>1, <4>1 DEF Chained
      <4>. QED  BY <2>4, <2>7, <3>2, <4>1, <4>2
    <3>. QED  BY <3>3, <3>4
  <2>10. Holds(u, g)
    <3>1. \A k \in Taken(t) : u.table[k] = t.table[k]
      BY <1>2, <2>5, <2>6
    <3>2. DOMAIN g = {u.table[k].key : k \in Taken(u)}
      BY <1>3, <1>4, <2>6, <2>7, <3>1
    <3>3. g = [k \in DOMAIN g |-> g[k]]
      BY DEF g, Updated
    <3>4. \A k \in Taken(u) : g[u.table[k].key] = u.table[k].val
      <4>1. g[u.table[i].key] = u.table[i].val
        BY <1>4, <2>6
      <4>2. ASSUME NEW k \in Taken(t) PROVE g[t.table[k].key] = t.table[k].val
        <5>1. t.table[k].key # key /\ t.table[k].key \in DOMAIN f
          BY <1>3, <2>1
        <5>. QED  BY <1>1, <1>4, <5>1 DEF Holds
      <4>. QED  BY <2>7, <3>1, <4>1, <4>2
    <3>5. \A j, k \in Taken(u) : u.table[j].key = u.table[k].key => j = k
      BY <1>1, <2>1, <2>6, <2>7, <3>1 DEF Holds
    <3>. QED  BY <3>2, <3>3, <3>4, <3>5 DEF Holds
  <2>. QED  BY <1>7, <2>2, <2>4, <2>8, <2>9, <2>10 DEF Sound, u, g, i
<1>. QED  BY <1>6, <1>7

\* An empty table holds nothing.
LEMMA NewTableSound ==
  ASSUME NEW c \in Nat, c >= MinCapa, NEW f, f = [k \in {} |-> f[k]]
  PROVE  /\ Sound(NewTable(c), f) /\ Slots(NewTable(c)) # {}
         /\ NewTable(c).size = 0 /\ NewTable(c).capa = c
<1>. DEFINE t == NewTable(c)
<1>1. t = [table |-> [i \in 0 .. c-1 |-> Free], size |-> 0, capa |-> c]
  BY DEF NewTable
<1>. HIDE DEF t
<1>2. c >= 2 /\ MaxSizeOf(c) \in Nat
  BY CapaBounds
<1>3. Slots(t) = 0 .. c-1 /\ \A i \in 0 .. c-1 : t.table[i] = Free
  BY <1>1 DEF Slots
<1>4. Taken(t) = {}
  BY <1>3 DEF Taken, Vacant, Free, NilKey
<1>5. IsTable(t)
  <2>1. Cardinality(Taken(t)) = 0
    BY <1>4, FS_EmptySet
  <2>2. t = [table |-> t.table, size |-> t.size, capa |-> t.capa]
        /\ t.size = 0 /\ t.capa = c /\ t.table = [i \in 0 .. c-1 |-> Free]
    BY <1>1
  <2>. QED  BY <1>2, <2>1, <2>2 DEF IsTable
<1>6. Slots(t) # {}
  BY <1>2, <1>3
<1>7. Chained(t)
  BY <1>4 DEF Chained
<1>8. Holds(t, f)
  <2>1. {t.table[i].key : i \in Taken(t)} = {}
    BY <1>4
  <2>. QED  BY <1>4, <2>1 DEF Holds
<1>9. Sound(t, f) /\ t.size = 0 /\ t.capa = c
  BY <1>1, <1>5, <1>7, <1>8 DEF Sound
<1>. QED  BY <1>6, <1>9 DEF t

\* The first set allocates the table.
LEMMA AllocatedSound ==
  ASSUME IndInv, phase = "ready"
  PROVE  Sound(Allocated(ht), store)
<1>1. CASE ht = Unallocated /\ store = [k \in {} |-> 0]
  <2>1. Slots(ht) = {} /\ store = [k \in {} |-> store[k]]
    BY <1>1 DEF Slots, Unallocated
  <2>. QED  BY <2>1, NewTableSound, StandardAssumption DEF Allocated
<1>2. CASE Sound(ht, store)
  <2>1. Slots(ht) # {}
    BY <1>2, TableFacts DEF Sound
  <2>. QED  BY <1>2, <2>1 DEF Allocated
<1>. QED  BY <1>1, <1>2 DEF IndInv

\* What the loop of expand_ does with one slot.
LEMMA CopiedGrows ==
  ASSUME NEW f, Sound(ht, f), f = store, NEW p \in 0 .. ht.capa-1
  PROVE  /\ p \in Vacant(ht) =>
              TakenBelow(ht, p + 1) = TakenBelow(ht, p) /\ Copied(ht, p + 1) = Copied(ht, p)
         /\ p \in Taken(ht) =>
              /\ Cardinality(TakenBelow(ht, p + 1)) = Cardinality(TakenBelow(ht, p)) + 1
              /\ ht.table[p].key \notin DOMAIN Copied(ht, p)
              /\ Copied(ht, p + 1) = Updated(Copied(ht, p), ht.table[p].key, ht.table[p].val)
<1>1. IsTable(ht) /\ Holds(ht, store)
  BY DEF Sound
<1>2. /\ Slots(ht) = 0 .. ht.capa-1 /\ ht.capa \in Nat
      /\ Taken(ht) \cup Vacant(ht) = Slots(ht) /\ Taken(ht) \cap Vacant(ht) = {}
      /\ IsFiniteSet(Taken(ht))
  BY <1>1, TableFacts
<1>3. TakenBelow(ht, p + 1) = TakenBelow(ht, p) \cup ({p} \cap Taken(ht)) /\ p \notin TakenBelow(ht, p)
  BY <1>2 DEF TakenBelow
<1>4. ASSUME p \in Vacant(ht)
      PROVE  TakenBelow(ht, p + 1) = TakenBelow(ht, p) /\ Copied(ht, p + 1) = Copied(ht, p)
  BY <1>2, <1>3, <1>4 DEF Copied
<1>5. ASSUME p \in Taken(ht)
      PROVE  /\ Cardinality(TakenBelow(ht, p + 1)) = Cardinality(TakenBelow(ht, p)) + 1
             /\ ht.table[p].key \notin DOMAIN Copied(ht, p)
             /\ Copied(ht, p + 1) = Updated(Copied(ht, p), ht.table[p].key, ht.table[p].val)
  <2>1. TakenBelow(ht, p + 1) = TakenBelow(ht, p) \cup {p} /\ IsFiniteSet(TakenBelow(ht, p))
    <3>1. TakenBelow(ht, p) \subseteq Taken(ht)
      BY DEF TakenBelow
    <3>. QED  BY <1>2, <1>3, <1>5, <3>1, FS_Subset
  <2>2. Cardinality(TakenBelow(ht, p + 1)) = Cardinality(TakenBelow(ht, p)) + 1
    BY <1>3, <2>1, FS_AddElement
  <2>3. ht.table[p].key \notin {ht.table[i].key : i \in TakenBelow(ht, p)}
    BY <1>1, <1>2, <1>5, <1>3 DEF Holds, TakenBelow
  <2>4. store[ht.table[p].key] = ht.table[p].val
    BY <1>1, <1>5 DEF Holds
  <2>5. {ht.table[i].key : i \in TakenBelow(ht, p + 1)}
          = {ht.table[i].key : i \in TakenBelow(ht, p)} \cup {ht.table[p].key}
    BY <2>1
  <2>6. Copied(ht, p + 1) = Updated(Copied(ht, p), ht.table[p].key, ht.table[p].val)
    BY <2>3, <2>4, <2>5 DEF Copied, Updated
  <2>. QED  BY <2>2, <2>3, <2>6 DEF Copied
<1>. QED  BY <1>4, <1>5

\* The new table has room for every slot still to be copied, and for the key
\* whose set made the table grow.
LEMMA RoomWhileCopying ==
  ASSUME IndInv, phase = "copy"
  PROVE  /\ Sound(ht, store) /\ Sound(new_ht, Copied(ht, pos)) /\ pos \in 0 .. ht.capa
         /\ new_ht.size < MaxSizeOf(new_ht.capa)
         /\ pos = ht.capa => new_ht.size = ht.size /\ Copied(ht, pos) = store
<1>1. /\ Sound(ht, store) /\ Sound(new_ht, Copied(ht, pos)) /\ pos \in 0 .. ht.capa
      /\ new_ht.capa = 2 * ht.capa /\ new_ht.size = Cardinality(TakenBelow(ht, pos))
  BY DEF IndInv
<1>2. /\ ht.capa \in Nat /\ ht.capa >= MinCapa
      /\ IsFiniteSet(Taken(ht)) /\ ht.size = Cardinality(Taken(ht))
      /\ ht.size <= MaxSizeOf(ht.capa) /\ ht.size \in Nat /\ Taken(ht) \subseteq 0 .. ht.capa-1
  BY <1>1, TableFacts DEF Sound, IsTable
<1>3. MaxSizeOf(ht.capa) < MaxSizeOf(2 * ht.capa) /\ MaxSizeOf(ht.capa) \in Nat /\ MaxSizeOf(2 * ht.capa) \in Nat
  <2>1. 2 * ht.capa \in Nat /\ 2 * ht.capa >= MinCapa
    BY <1>2, StandardAssumption
  <2>. QED  BY <1>2, <2>1, CapaBounds
<1>4. TakenBelow(ht, pos) \subseteq Taken(ht)
  BY DEF TakenBelow
<1>5. new_ht.size \in Nat /\ new_ht.size <= ht.size
  BY <1>1, <1>2, <1>4, FS_Subset, FS_CardinalityType
<1>6. ASSUME pos = ht.capa PROVE new_ht.size = ht.size /\ Copied(ht, pos) = store
  <2>1. TakenBelow(ht, pos) = Taken(ht)
    BY <1>2, <1>6 DEF TakenBelow
  <2>. QED  BY <1>1, <1>2, <2>1 DEF Copied, Sound, Holds
<1>. QED  BY <1>1, <1>2, <1>3, <1>5, <1>6

LEMMA InitInv == Init => IndInv
BY DEF Init, IndInv

LEMMA SetInv ==
  ASSUME IndInv, NEW k \in Key, NEW v \in Value, Set(k, v)
  PROVE  IndInv'
<1>. DEFINE t == Allocated(ht)
<1>1. phase = "ready" /\ ~Full(t) /\ ht' = Put(t, k, v) /\ store' = Updated(store, k, v)
      /\ UNCHANGED <<phase, pos, arg, new_ht>>
  BY DEF Set, Store
<1>2. Sound(t, store)
  BY <1>1, AllocatedSound
<1>3. t.size < MaxSizeOf(t.capa)
  <2>1. t.size \in Nat /\ MaxSizeOf(t.capa) \in Nat
    BY <1>2, TableFacts, CapaBounds DEF Sound, IsTable
  <2>. QED  BY <1>1, <2>1 DEF Full
<1>4. Sound(ht', store')
  BY <1>1, <1>2, <1>3, PutSound
<1>. QED  BY <1>1, <1>4 DEF IndInv

LEMMA BeginExpandInv ==
  ASSUME IndInv, NEW k \in Key, NEW v \in Value, BeginExpand(k, v)
  PROVE  IndInv'
<1>1. /\ phase = "ready" /\ Full(Allocated(ht))
      /\ phase' = "copy" /\ pos' = 0 /\ arg' = [key |-> k, val |-> v]
      /\ new_ht' = NewTable(2 * ht.capa) /\ UNCHANGED <<ht, added, store>>
  BY DEF BeginExpand
<1>2. Sound(ht, store)
  <2>1. SUFFICES ASSUME ht = Unallocated PROVE FALSE
    BY DEF IndInv
  <2>2. Allocated(ht) = NewTable(MinCapa)
    BY <2>1 DEF Allocated, Unallocated, Slots
  <2>3. MinCapa \in Nat /\ MaxSizeOf(MinCapa) \in Nat /\ MaxSizeOf(MinCapa) >= 1
    BY CapaBounds, StandardAssumption
  <2>. QED  BY <1>1, <2>2, <2>3 DEF Full, NewTable
<1>3. ht.capa \in Nat /\ ht.capa >= MinCapa /\ MinCapa \in Nat
  BY <1>2, StandardAssumption DEF Sound, IsTable
<1>4. TakenBelow(ht, 0) = {} /\ Cardinality({}) = 0
  BY <1>2, TableFacts, FS_EmptySet DEF TakenBelow, Sound
<1>5. Copied(ht, 0) = [key \in {} |-> Copied(ht, 0)[key]]
  BY <1>4 DEF Copied
<1>6. Sound(new_ht', Copied(ht, 0)) /\ new_ht'.size = 0 /\ new_ht'.capa = 2 * ht.capa
  BY <1>1, <1>3, <1>5, NewTableSound
<1>. QED  BY <1>1, <1>2, <1>3, <1>4, <1>6 DEF IndInv, Copied

LEMMA CopyInv == IndInv /\ Copy => IndInv'
<1>1. SUFFICES ASSUME IndInv, Copy PROVE IndInv'
  OBVIOUS
<1>2. /\ phase = "copy" /\ pos < ht.capa /\ pos' = pos + 1
      /\ UNCHANGED <<ht, phase, arg, added, store>>
  BY <1>1 DEF Copy
<1>3. /\ Sound(ht, store) /\ Sound(new_ht, Copied(ht, pos)) /\ pos \in 0 .. ht.capa
      /\ new_ht.size < MaxSizeOf(new_ht.capa)
      /\ new_ht.capa = 2 * ht.capa /\ new_ht.size = Cardinality(TakenBelow(ht, pos))
      /\ arg \in [key : Key, val : Value]
  BY <1>1, <1>2, RoomWhileCopying DEF IndInv
<1>4. /\ ht.capa \in Nat /\ Taken(ht) \cup Vacant(ht) = 0 .. ht.capa-1 /\ Taken(ht) \cap Vacant(ht) = {}
      /\ \A i \in Taken(ht) : ht.table[i].key \in Key /\ ht.table[i].val \in Value
  BY <1>3, TableFacts DEF Sound
<1>5. pos \in 0 .. ht.capa-1 /\ pos' \in 0 .. ht.capa
  BY <1>2, <1>3, <1>4
<1>6. CASE pos \in Vacant(ht)
  <2>1. new_ht' = new_ht
    BY <1>1, <1>6 DEF Copy
  <2>2. TakenBelow(ht, pos') = TakenBelow(ht, pos) /\ Copied(ht, pos') = Copied(ht, pos)
    BY <1>2, <1>3, <1>5, <1>6, CopiedGrows
  <2>. QED  BY <1>2, <1>3, <1>5, <2>1, <2>2 DEF IndInv, Copied
<1>7. CASE pos \in Taken(ht)
  <2>. DEFINE k == ht.table[pos].key
              v == ht.table[pos].val
  <2>1. new_ht' = Put(new_ht, k, v)
    BY <1>1, <1>4, <1>7 DEF Copy
  <2>2. /\ Cardinality(TakenBelow(ht, pos')) = Cardinality(TakenBelow(ht, pos)) + 1
        /\ k \notin DOMAIN Copied(ht, pos)
        /\ Copied(ht, pos') = Updated(Copied(ht, pos), k, v)
    BY <1>2, <1>3, <1>5, <1>7, CopiedGrows
  <2>3. k \in Key /\ v \in Value
    BY <1>4, <1>7
  <2>. HIDE DEF k, v
  <2>4. Sound(new_ht', Copied(ht, pos')) /\ new_ht'.capa = new_ht.capa /\ new_ht'.size = new_ht.size + 1
    BY <1>3, <2>1, <2>2, <2>3, PutSound
  <2>. QED  BY <1>2, <1>3, <1>5, <2>2, <2>4 DEF IndInv, Copied
<1>. QED  BY <1>4, <1>5, <1>6, <1>7

LEMMA EndExpandInv == IndInv /\ EndExpand => IndInv'
<1>1. SUFFICES ASSUME IndInv, EndExpand PROVE IndInv'
  OBVIOUS
<1>2. /\ phase = "copy" /\ pos = ht.capa
      /\ phase' = "ready" /\ pos' = 0 /\ arg' = NoArg /\ new_ht' = Unallocated
      /\ ht' = Put(new_ht, arg.key, arg.val) /\ store' = Updated(store, arg.key, arg.val)
  BY <1>1 DEF EndExpand, Store
<1>3. Sound(new_ht, store) /\ new_ht.size < MaxSizeOf(new_ht.capa)
  BY <1>1, <1>2, RoomWhileCopying
<1>4. arg.key \in Key /\ arg.val \in Value
  BY <1>1, <1>2 DEF IndInv
<1>5. Sound(ht', store')
  BY <1>2, <1>3, <1>4, PutSound
<1>. QED  BY <1>2, <1>5 DEF IndInv

\* The table is sound in every state: every key that was set is in one slot,
\* where its probe comes to before it comes to a free one.
THEOREM Invariance == Spec => []IndInv
<1>1. Init => IndInv
  BY InitInv
<1>2. IndInv /\ [Next]_vars => IndInv'
  <2>1. SUFFICES ASSUME IndInv, [Next]_vars PROVE IndInv'
    OBVIOUS
  <2>2. CASE \E k \in Key, v \in Value : Set(k, v) \/ BeginExpand(k, v)
    BY <2>1, <2>2, SetInv, BeginExpandInv
  <2>3. CASE Copy
    BY <2>1, <2>3, CopyInv
  <2>4. CASE EndExpand
    BY <2>1, <2>4, EndExpandInv
  <2>5. CASE UNCHANGED vars
    BY <2>1, <2>5 DEF IndInv, vars, Copied
  <2>. QED  BY <2>1, <2>2, <2>3, <2>4, <2>5 DEF Next, Expanding
<1>. QED  BY <1>1, <1>2, PTL DEF Spec

\* No get and no set probes for ever, and the table that is being filled does
\* not have to grow in turn.
THEOREM ProbesTerminate == Spec => []CallsTerminate
<1>1. IndInv => CallsTerminate
  <2>1. SUFFICES ASSUME IndInv PROVE CallsTerminate
    OBVIOUS
  <2>2. phase = "ready" /\ Slots(ht) # {} => \A k \in Key : Terminates(ht, k)
    <3>1. ht = Unallocated => Slots(ht) = {}
      BY DEF Unallocated, Slots
    <3>. QED  BY <2>1, <3>1, ProbesReturn DEF IndInv, Sound
  <2>3. phase = "copy" => \A k \in Key : Terminates(new_ht, k)
    BY <2>1, RoomWhileCopying, ProbesReturn DEF Sound
  <2>4. phase = "copy" => ~Full(new_ht)
    <3>1. SUFFICES ASSUME phase = "copy" PROVE ~Full(new_ht)
      OBVIOUS
    <3>2. new_ht.size < MaxSizeOf(new_ht.capa) /\ IsTable(new_ht)
      BY <2>1, <3>1, RoomWhileCopying DEF Sound
    <3>3. new_ht.size \in Nat /\ MaxSizeOf(new_ht.capa) \in Nat
      BY <3>2, TableFacts, CapaBounds DEF IsTable
    <3>. QED  BY <3>2, <3>3 DEF Full
  <2>. QED  BY <2>2, <2>3, <2>4 DEF CallsTerminate
<1>. QED  BY <1>1, Invariance, PTL

\* size() is the number of taken slots, growth keeps it, and a key is in one
\* slot only.
THEOREM SizesCorrect == Spec => []SizesAgree
<1>1. IndInv => SizesAgree
  <2>1. SUFFICES ASSUME IndInv PROVE SizesAgree
    OBVIOUS
  <2>2. Unallocated.size = Cardinality(Slots(Unallocated) \ Vacant(Unallocated))
    <3>1. Slots(Unallocated) \ Vacant(Unallocated) = {} /\ Unallocated.size = 0
      BY DEF Unallocated, Slots
    <3>. QED  BY <3>1, FS_EmptySet
  <2>3. \A t \in {ht, new_ht} : t.size = Cardinality(Slots(t) \ Vacant(t))
    BY <2>1, <2>2 DEF IndInv, Sound, IsTable, Taken
  <2>4. phase = "copy" /\ pos = ht.capa => ht.size = new_ht.size
    BY <2>1, RoomWhileCopying
  <2>5. \A i, j \in Slots(ht) \ Vacant(ht) : ht.table[i].key = ht.table[j].key => i = j
    BY <2>1 DEF IndInv, Sound, Holds, Taken, Unallocated, Slots
  <2>. QED  BY <2>3, <2>4, <2>5 DEF SizesAgree
<1>. QED  BY <1>1, Invariance, PTL

\* get finds the value that was set last, and nil for every other key.
THEOREM GetIsCorrect == Spec => []GetCorrect
<1>1. IndInv => GetCorrect
  <2>1. SUFFICES ASSUME IndInv, NEW k \in Key
                 PROVE  Get(ht, k) = IF k \in DOMAIN store THEN store[k] ELSE Nil
    BY DEF GetCorrect
  <2>2. CASE ht = Unallocated /\ store = [j \in {} |-> 0]
    BY <2>2 DEF Get, Unallocated, Slots
  <2>3. CASE Sound(ht, store)
    <3>1. /\ Slots(ht) # {} /\ Taken(ht) \cap Vacant(ht) = {}
          /\ DOMAIN store = {ht.table[i].key : i \in Taken(ht)}
      BY <2>3, TableFacts DEF Sound, Holds
    <3>2. CASE k \in DOMAIN store
      <4>1. PICK i \in Taken(ht) : ht.table[i].key = k
        BY <3>1, <3>2
      <4>2. Slot(ht, k) = i /\ i \notin Vacant(ht) /\ store[k] = ht.table[i].val
        BY <2>3, <3>1, <4>1, FindsStored DEF Sound, Holds
      <4>. QED  BY <3>1, <3>2, <4>2 DEF Get
    <3>3. CASE k \notin DOMAIN store
      <4>1. \A i \in Taken(ht) : ht.table[i].key # k
        BY <3>1, <3>3
      <4>2. Slot(ht, k) \in Vacant(ht)
        BY <2>3, <4>1, FindsVacant DEF Sound
      <4>. QED  BY <3>1, <3>3, <4>2 DEF Get
    <3>. QED  BY <3>2, <3>3
  <2>. QED  BY <2>1, <2>2, <2>3 DEF IndInv
<1>. QED  BY <1>1, Invariance, PTL

\* set says that a key is new exactly when it is, also when the call made the
\* table grow.
THEOREM TellsNew == Spec => SetTellsNew
<1>1. IndInv /\ [Next]_vars => (store' # store => added' = (DOMAIN store' # DOMAIN store))
  <2>1. SUFFICES ASSUME IndInv, [Next]_vars, store' # store
                 PROVE  added' = (DOMAIN store' # DOMAIN store)
    OBVIOUS
  <2>2. ASSUME NEW t, NEW k \in Key, NEW v \in Value,
               Sound(t, store), t.size < MaxSizeOf(t.capa), Store(t, k, v)
        PROVE  added' = (DOMAIN store' # DOMAIN store)
    <3>1. store' = Updated(store, k, v) /\ added' = (Slot(t, k) \in Vacant(t))
      BY <2>2 DEF Store
    <3>2. Slot(t, k) \in Vacant(t) <=> k \notin DOMAIN store
      BY <2>2, PutSound
    <3>3. DOMAIN store' # DOMAIN store <=> k \notin DOMAIN store
      BY <3>1 DEF Updated
    <3>. QED  BY <3>1, <3>2, <3>3
  <2>3. ASSUME NEW k \in Key, NEW v \in Value, Set(k, v)
        PROVE  added' = (DOMAIN store' # DOMAIN store)
    <3>. DEFINE t == Allocated(ht)
    <3>1. Sound(t, store) /\ ~Full(t) /\ Store(t, k, v)
      BY <2>1, <2>3, AllocatedSound DEF Set
    <3>. HIDE DEF t
    <3>2. t.size < MaxSizeOf(t.capa)
      <4>1. t.size \in Nat /\ MaxSizeOf(t.capa) \in Nat
        BY <3>1, TableFacts, CapaBounds DEF Sound, IsTable
      <4>. QED  BY <3>1, <4>1 DEF Full
    <3>. QED  BY <2>2, <3>1, <3>2
  <2>4. CASE EndExpand
    <3>1. Sound(new_ht, store) /\ new_ht.size < MaxSizeOf(new_ht.capa)
      BY <2>1, <2>4, RoomWhileCopying DEF EndExpand
    <3>2. arg.key \in Key /\ arg.val \in Value /\ Store(new_ht, arg.key, arg.val)
      BY <2>1, <2>4 DEF IndInv, EndExpand
    <3>. QED  BY <2>2, <3>1, <3>2
  <2>. QED  BY <2>1, <2>3, <2>4 DEF Next, Expanding, BeginExpand, Copy, vars
<1>2. [][store' # store => added' = (DOMAIN store' # DOMAIN store)]_vars <=> SetTellsNew
  BY DEF SetTellsNew
<1>. QED  BY <1>1, <1>2, Invariance, PTL DEF Spec, SetTellsNew
=============================================================================
