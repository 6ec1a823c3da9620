------------------------- MODULE StandardHashTable -------------------------
(***************************************************************************)
(* standard_hash_table: open addressing with linear probing, used by the   *)
(* compact tries for the displacements that fit nowhere else.  It is       *)
(* allocated by the first set, and set grows it slot by slot when it is    *)
(* full, before it looks whether the key is there already.                 *)
(***************************************************************************)
EXTENDS LinearProbing, FiniteSets

CONSTANTS
  MinCapa,      \* 2^min_capa_bits
  MaxFactor,    \* load factor in percent at which the table grows
  Hash,         \* Hasher::hash, a function of Key
  Key, Value,   \* what set is called with
  MaxCapa       \* bound of the runs

\* What the static_assert grants; the smallest table has room for a key.
ASSUME StandardAssumption ==
  /\ MinCapa \in Nat /\ MaxFactor \in 1 .. 99
  /\ MinCapa * MaxFactor >= 100
  /\ Key \subseteq Nat /\ Value \subseteq Nat
  /\ Hash \in [Key -> Nat]

VARIABLES
  ht,
  phase,     \* "ready", or "copy" while the loop of expand_ runs
  pos,       \* i, the loop's counter
  arg,       \* the arguments of the set that grows the table
  new_ht,
  added,     \* what the last call of set returned
  store      \* history: the value every key was last set to

vars == <<ht, phase, pos, arg, new_ht, added, store>>

NilKey == -1    \* UINT64_MAX in a slot's key: the slot is free
Nil == -1       \* nil, what get returns for an unknown key

Free == [key |-> NilKey, val |-> 0]
Slots(t) == DOMAIN t.table
MaxSizeOf(c) == (c * MaxFactor) \div 100

\* A default-constructed table has no slots, and capa_size_ is 1.
Unallocated == [table |-> [i \in {} |-> Free], size |-> 0, capa |-> 1]
NewTable(c) == [table |-> [i \in 0 .. c-1 |-> Free], size |-> 0, capa |-> c]
Allocated(t) == IF Slots(t) = {} THEN NewTable(MinCapa) ELSE t

\* Mutant: the table grows one key too late.
Full_Late(t) == t.capa < t.size

Full(t) == MaxSizeOf(t.capa) <= t.size

Vacant(t) == {i \in Slots(t) : t.table[i].key = NilKey}
Home(t, key) == Hash[key] % t.capa

\* Mutant: set and get stop at the first slot, whatever key it holds.
Stops_First(t, key) == Slots(t)

\* Where the loops of get and set return.
Stops(t, key) == Vacant(t) \cup {i \in Slots(t) : t.table[i].key = key}

Terminates(t, key) == ProbeEnds(t.capa, Home(t, key), Stops(t, key))
Slot(t, key) == ProbeEnd(t.capa, Home(t, key), Stops(t, key))

Get(t, key) ==
  IF Slots(t) = {}
  THEN Nil
  ELSE LET i == Slot(t, key) IN IF i \in Vacant(t) THEN Nil ELSE t.table[i].val

\* The loop of set on a table with room.
Put(t, key, val) ==
  LET i == Slot(t, key)
  IN IF i \in Vacant(t)
     THEN [t EXCEPT !.table[i] = [key |-> key, val |-> val], !.size = @ + 1]
     ELSE [t EXCEPT !.table[i].val = val]

NoArg == [key |-> 0, val |-> 0]

Updated(f, key, val) == [k \in DOMAIN f \cup {key} |-> IF k = key THEN val ELSE f[k]]

Init ==
  /\ ht = Unallocated
  /\ phase = "ready" /\ pos = 0 /\ arg = NoArg /\ new_ht = Unallocated
  /\ added = FALSE /\ store = [k \in {} |-> 0]

\* set returns whether it took a free slot.
Store(t, key, val) ==
  /\ Terminates(t, key)
  /\ ht' = Put(t, key, val)
  /\ added' = (Slot(t, key) \in Vacant(t))
  /\ store' = Updated(store, key, val)

Set(key, val) ==
  /\ phase = "ready" /\ ~Full(Allocated(ht))
  /\ Store(Allocated(ht), key, val)
  /\ UNCHANGED <<phase, pos, arg, new_ht>>

BeginExpand(key, val) ==
  /\ phase = "ready" /\ Full(Allocated(ht))
  /\ ht.capa < MaxCapa    \* bound
  /\ phase' = "copy" /\ pos' = 0
  /\ arg' = [key |-> key, val |-> val]
  /\ new_ht' = NewTable(2 * ht.capa)
  /\ UNCHANGED <<ht, added, store>>

\* Mutant: the loop passes over the last slot.
Copy_SkipsLast ==
  /\ phase = "copy" /\ pos < ht.capa
  /\ pos' = pos + 1
  /\ new_ht' = IF pos \in Vacant(ht) \/ pos = ht.capa-1
               THEN new_ht
               ELSE Put(new_ht, ht.table[pos].key, ht.table[pos].val)
  /\ UNCHANGED <<ht, phase, arg, added, store>>

\* One iteration of the loop, which calls set on the new table.
Copy ==
  /\ phase = "copy" /\ pos < ht.capa
  /\ pos' = pos + 1
  /\ new_ht' = IF pos \in Vacant(ht)
               THEN new_ht
               ELSE Put(new_ht, ht.table[pos].key, ht.table[pos].val)
  /\ UNCHANGED <<ht, phase, arg, added, store>>

\* The swap, and the rest of set.
EndExpand ==
  /\ phase = "copy" /\ pos = ht.capa
  /\ phase' = "ready" /\ pos' = 0 /\ arg' = NoArg /\ new_ht' = Unallocated
  /\ Store(new_ht, arg.key, arg.val)

Expanding == Copy \/ EndExpand

Next ==
  \/ \E k \in Key, v \in Value : Set(k, v) \/ BeginExpand(k, v)
  \/ Expanding

Spec == Init /\ [][Next]_vars

----------------------------------------------------------------------------
\* No get and no set probes for ever, and the sets that expand_ makes on the
\* new table do not make that table grow in turn.
CallsTerminate ==
  /\ phase = "ready" /\ Slots(ht) # {} => \A k \in Key : Terminates(ht, k)
  /\ phase = "copy" => \A k \in Key : Terminates(new_ht, k)
  /\ phase = "copy" => ~Full(new_ht)

\* The assertion in expand_: the new table has as many keys as the old one;
\* size() is the number of taken slots, and a key is in one slot only.
SizesAgree ==
  /\ \A t \in {ht, new_ht} : t.size = Cardinality(Slots(t) \ Vacant(t))
  /\ phase = "copy" /\ pos = ht.capa => ht.size = new_ht.size
  /\ \A i, j \in Slots(ht) \ Vacant(ht) : ht.table[i].key = ht.table[j].key => i = j

\* get finds the value that was set last, before and after growth, and nil
\* for every other key.
GetCorrect ==
  \A k \in Key : Get(ht, k) = IF k \in DOMAIN store THEN store[k] ELSE Nil

\* set says that a key is new when it is, and at no other time: also when the
\* call made the table grow.
SetTellsNew == [][store' # store => added' = (DOMAIN store' # DOMAIN store)]_vars

----------------------------------------------------------------------------
Taken(t) == Slots(t) \ Vacant(t)

\* An allocated table: the slots, the size, and room for one more probe.
IsTable(t) ==
  /\ t = [table |-> t.table, size |-> t.size, capa |-> t.capa]
  /\ t.capa \in Nat /\ t.capa >= MinCapa
  /\ t.table \in [0 .. t.capa-1 -> {Free} \cup [key : Key, val : Value]]
  /\ t.size = Cardinality(Taken(t)) /\ t.size <= MaxSizeOf(t.capa)

\* No free slot lies between the slot a key hashes to and the one it is in.
Chained(t) ==
  \A i \in Taken(t) :
    \E d \in 0 .. t.capa-1 :
      /\ At(t.capa, Home(t, t.table[i].key), d) = i
      /\ \A e \in 0 .. d-1 : At(t.capa, Home(t, t.table[i].key), e) \notin Vacant(t)

\* The slots hold the function f, every key in one slot.
Holds(t, f) ==
  /\ f = [k \in {t.table[i].key : i \in Taken(t)} |-> f[k]]
  /\ \A i \in Taken(t) : f[t.table[i].key] = t.table[i].val
  /\ \A i, j \in Taken(t) : t.table[i].key = t.table[j].key => i = j

Sound(t, f) == IsTable(t) /\ Chained(t) /\ Holds(t, f)

\* What the loop of expand_ has copied before it comes to slot p.
TakenBelow(t, p) == {i \in Taken(t) : i < p}
Copied(t, p) == [k \in {t.table[i].key : i \in TakenBelow(t, p)} |-> store[k]]

\* The inductive invariant: the table is sound and holds what was set; while
\* it grows, so is the new one, which holds the part copied so far.
IndInv ==
  /\ \/ ht = Unallocated /\ store = [k \in {} |-> 0] /\ phase = "ready"
     \/ Sound(ht, store)
  /\ \/ phase = "ready" /\ pos = 0 /\ arg = NoArg /\ new_ht = Unallocated
     \/ /\ phase = "copy" /\ pos \in 0 .. ht.capa
        /\ arg \in [key : Key, val : Value]
        /\ Sound(new_ht, Copied(ht, pos)) /\ new_ht.capa = 2 * ht.capa
        /\ new_ht.size = Cardinality(TakenBelow(ht, pos))
=============================================================================
