-------------------------- MODULE CompactHashTable --------------------------
(***************************************************************************)
(* compact_hash_table: Cleary's compact hashing.  A bijective hash splits  *)
(* a key into the slot it belongs to (mod) and the rest (quo), and only    *)
(* quo is stored.  The items of one mod, its collision group, are          *)
(* neighbours, and groups are kept in the order of their mods in a cluster *)
(* of taken slots; a group may lie to the left of its mod.  Two bits tell  *)
(* which is which: vbit of slot m says that mod m has a group, cbit of a   *)
(* slot says that a group starts there.  The k-th vbit of a cluster        *)
(* belongs to its k-th cbit.  Nothing is ever removed.  The first part of  *)
(* the module has the class as operators, the second a table in use: set   *)
(* grows the table when it is full; the owner may also call clone itself,  *)
(* to get a copy in a larger table.  clone walks along the clusters from   *)
(* the first free slot, once around, and recovers every key from its       *)
(* quotient and the mod of its group; each of its loops is an action that  *)
(* makes one iteration.                                                    *)
(***************************************************************************)
EXTENDS Integers, FiniteSets

CONSTANTS
  Univ,        \* 2^univ_bits, the number of keys
  MinCapa,     \* 2^min_capa_bits
  MaxFactor,   \* load factor in percent at which the table grows
  ValMask,     \* 2^ValBits - 1, the value that marks a free slot
  Hash,        \* Hasher::hash, a permutation of the keys
  HashInv      \* Hasher::hash_inv

\* What the template parameters, the static_asserts and the assertion in the
\* constructor grant.  Universe and capacity are powers of two: a capacity that
\* divides the universe can be doubled up to the universe.
ASSUME CompactAssumption ==
  /\ MinCapa \in Nat /\ MaxFactor \in 1 .. 99
  /\ MinCapa * MaxFactor >= 100
  /\ Univ \in Nat /\ MinCapa <= Univ /\ Univ % MinCapa = 0
  /\ \A c \in 1 .. Univ : Univ % c = 0 /\ 2 * c <= Univ => Univ % (2 * c) = 0
  /\ ValMask \in Nat \ {0}
  /\ Hash \in [0 .. Univ-1 -> 0 .. Univ-1]
  /\ HashInv \in [0 .. Univ-1 -> 0 .. Univ-1]
  /\ \A k \in 0 .. Univ-1 : HashInv[Hash[k]] = k /\ Hash[HashInv[k]] = k

Keys == 0 .. Univ - 1
Nil == -1

MaxSizeOf(c) == (c * MaxFactor) \div 100

FreeSlot == [quo |-> 0, val |-> ValMask, vbit |-> FALSE, cbit |-> TRUE]
NewTable(c) == [table |-> [i \in 0 .. c-1 |-> FreeSlot], size |-> 0, capa |-> c]

Slots(t) == 0 .. t.capa - 1
Right(t, i, d) == (i + d) % t.capa
Left(t, i, d) == (i + t.capa - d) % t.capa
IsVacant(t, i) == t.table[i].val = ValMask
Vacant(t) == {i \in Slots(t) : IsVacant(t, i)}

Quo(t, key) == Hash[key] \div t.capa
Mod(t, key) == Hash[key] % t.capa

Full(t) == MaxSizeOf(t.capa) <= t.size

----------------------------------------------------------------------------
\* How far left of slot i the nearest free slot is: empty_id.
Gap(t, i) ==
  CHOOSE d \in 1 .. t.capa :
    /\ IsVacant(t, Left(t, i, d))
    /\ \A e \in 1 .. d-1 : ~IsVacant(t, Left(t, i, e))

\* find_ass_cbit_ from a taken slot: the free slot left of the cluster, and
\* the start of the group of the last vbit up to there, if there is one.
FindAssCbit(t, i) ==
  LET gap == Gap(t, i)
      empty == Left(t, i, gap)
      vbits == Cardinality({e \in 0 .. gap-1 : t.table[Left(t, i, e)].vbit})
      cbits(e) == Cardinality({f \in 1 .. e : t.table[Right(t, empty, f)].cbit})
  IN [empty |-> empty,
      group |-> IF vbits = 0
                THEN Nil
                ELSE Right(t, empty, CHOOSE e \in 1 .. t.capa :
                                       t.table[Right(t, empty, e)].cbit /\ cbits(e) = vbits)]

\* The slots of the group that starts at slot i, by their distance from i,
\* and its last one.
Group(t, i) ==
  {d \in 0 .. t.capa-1 : \A e \in 1 .. d : ~t.table[Right(t, i, e)].cbit}
GroupEnd(t, i) == Right(t, i, Cardinality(Group(t, i)) - 1)

\* find_item_: where quo is in the group that starts at slot i.
FindItem(t, i, quo) ==
  {Right(t, i, d) : d \in {d \in Group(t, i) : t.table[Right(t, i, d)].quo = quo}}

Get(t, key) ==
  LET mod == Mod(t, key)
  IN IF ~t.table[mod].vbit
     THEN Nil
     ELSE LET at == FindItem(t, FindAssCbit(t, mod).group, Quo(t, key))
          IN IF at = {} THEN Nil ELSE t.table[CHOOSE i \in at : TRUE].val

\* Mutant: the virgin bit moves along with the item.
Shift_Vbit(t, from, to) ==
  LET span == (to + t.capa - from) % t.capa
      moves(i) == (i + t.capa - from) % t.capa < span
  IN [i \in Slots(t) |-> IF moves(i) THEN t.table[Right(t, i, 1)] ELSE t.table[i]]

\* copy_from_right_ from the free slot up to slot to: the items between move
\* one slot to the left, the virgin bits stay.
Shift(t, from, to) ==
  LET span == (to + t.capa - from) % t.capa
      moves(i) == (i + t.capa - from) % t.capa < span
  IN [i \in Slots(t) |->
        IF moves(i) THEN [t.table[Right(t, i, 1)] EXCEPT !.vbit = t.table[i].vbit] ELSE t.table[i]]

\* Slot i gets an item; cbit says whether a group starts with it.
WithItem(table, i, quo, val, cbit) ==
  [table EXCEPT ![i] = [quo |-> quo, val |-> val, vbit |-> @.vbit, cbit |-> cbit]]

\* Mutant: a new group is put in front of the group to its left.
NewGroup_Before(t, mod, quo, val) ==
  LET ass == FindAssCbit(t, mod)
  IN WithItem([t.table EXCEPT ![mod].vbit = TRUE], ass.empty, quo, val, TRUE)

\* The first item of a group, where another group has the slot.
NewGroup(t, mod, quo, val) ==
  LET ass == FindAssCbit(t, mod)
      to == IF ass.group = Nil THEN ass.empty ELSE GroupEnd(t, ass.group)
      shifted == [Shift(t, ass.empty, to) EXCEPT ![mod].vbit = TRUE]
  IN WithItem(shifted, to, quo, val, TRUE)

\* Another item of the group that starts at slot group.
Extend(t, ass, quo, val) ==
  LET to == GroupEnd(t, ass.group)
  IN WithItem(Shift(t, ass.empty, to), to, quo, val, FALSE)

Grown(t, table) == [table |-> table, size |-> t.size + 1, capa |-> t.capa]

\* set on a table with room.
Put(t, key, val) ==
  LET mod == Mod(t, key)
      quo == Quo(t, key)
      ass == FindAssCbit(t, mod)
      at == FindItem(t, ass.group, quo)
  IN IF IsVacant(t, mod)
     THEN Grown(t, [t.table EXCEPT ![mod] = [quo |-> quo, val |-> val, vbit |-> TRUE, cbit |-> TRUE]])
     ELSE IF ~t.table[mod].vbit
     THEN Grown(t, NewGroup(t, mod, quo, val))
     ELSE IF at = {}
     THEN Grown(t, Extend(t, ass, quo, val))
     ELSE [t EXCEPT !.table[CHOOSE i \in at : TRUE].val = val]

----------------------------------------------------------------------------
CONSTANTS
  KeysUsed, Value,    \* the keys set is called with, and the values for each
  MaxCapa,            \* bound of the runs
  MayCloneEmpty       \* whether the owner clones an empty table

\* The assertions of set: a key of the universe, and not the value of a free slot.
ASSUME CallsAssumption ==
  /\ KeysUsed \subseteq Keys
  /\ \A k \in KeysUsed : Value[k] \subseteq 0 .. ValMask - 1
  /\ MaxCapa \in Nat

VARIABLES
  ht,
  phase,        \* "ready", or the loop of clone that runs
  i, beg, init_id, completed,
  arg,          \* the arguments of the set that grows the table, or Nil's
  new_cht,
  store         \* history: the value every key was last set to

loopVars == <<i, beg, init_id, completed>>
vars == <<ht, phase, loopVars, arg, new_cht, store>>

NoArg == [key |-> Nil, val |-> 0]    \* the owner called clone

Idle == i' = 0 /\ beg' = 0 /\ init_id' = 0 /\ completed' = FALSE

Init ==
  /\ ht = NewTable(MinCapa)
  /\ phase = "ready" /\ i = 0 /\ beg = 0 /\ init_id = 0 /\ completed = FALSE
  /\ arg = NoArg /\ new_cht = NewTable(MinCapa)
  /\ store = [k \in {} |-> 0]

\* set returns whether the key is new.
Store(t, key, val) ==
  /\ ht' = Put(t, key, val)
  /\ store' = [k \in DOMAIN store \cup {key} |-> IF k = key THEN val ELSE store[k]]

Set(key, val) ==
  /\ phase = "ready" /\ ~Full(ht)
  /\ Store(ht, key, val)
  /\ UNCHANGED <<phase, loopVars, arg, new_cht>>

BeginClone ==
  /\ phase = "ready"
  /\ ht.capa < MaxCapa    \* bound
  /\ phase' = "vacant" /\ Idle
  /\ new_cht' = NewTable(2 * ht.capa)
  /\ UNCHANGED <<ht, store>>

BeginGrow(key, val) ==
  /\ Full(ht)
  /\ BeginClone
  /\ arg' = [key |-> key, val |-> val]

\* The owner makes a legal table to copy to.
CallClone ==
  /\ ht.size > 0 \/ MayCloneEmpty
  /\ 2 * ht.capa <= Univ
  /\ BeginClone
  /\ arg' = NoArg

\* Find the first vacant slot.
FindVacant ==
  /\ phase = "vacant"
  /\ IF IsVacant(ht, i)
     THEN beg' = i /\ i' = Right(ht, i, 1) /\ phase' = "seek"
     ELSE i' = Right(ht, i, 1) /\ UNCHANGED <<beg, phase>>
  /\ UNCHANGED <<ht, init_id, completed, arg, new_cht, store>>

\* Mutant: the walk does not notice that it has come around over free slots.
Seek_NeverDone ==
  /\ phase = "seek"
  /\ IF IsVacant(ht, i)
     THEN i' = Right(ht, i, 1) /\ UNCHANGED <<completed, init_id, phase>>
     ELSE init_id' = i /\ phase' = "home" /\ UNCHANGED <<i, completed>>
  /\ UNCHANGED <<ht, beg, arg, new_cht, store>>

\* Find the leftmost slot of some collision groups.
Seek ==
  /\ phase = "seek"
  /\ IF IsVacant(ht, i)
     THEN /\ i' = Right(ht, i, 1)
          /\ completed' = (completed \/ i' = beg)
          /\ UNCHANGED <<init_id, phase>>
     ELSE init_id' = i /\ phase' = "home" /\ UNCHANGED <<i, completed>>
  /\ UNCHANGED <<ht, beg, arg, new_cht, store>>

\* Mutant: the group at i is taken for the group of slot i.
FindHome_Here ==
  /\ phase = "home"
  /\ phase' = "items" /\ init_id' = i
  /\ UNCHANGED <<ht, i, beg, completed, arg, new_cht, store>>

\* Find the mod of the collision group.
FindHome ==
  /\ phase = "home"
  /\ IF ht.table[init_id].vbit
     THEN phase' = "items" /\ UNCHANGED init_id
     ELSE init_id' = Right(ht, init_id, 1) /\ UNCHANGED phase
  /\ UNCHANGED <<ht, i, beg, completed, arg, new_cht, store>>

\* The key of the item in slot i, of the group of mod m.
KeyAt(t, j, m) == HashInv[t.table[j].quo * t.capa + m]

\* One item of the group; behind the last one, the next group of the cluster
\* or the next cluster.
CopyItem ==
  /\ phase = "items"
  /\ new_cht' = Put(new_cht, KeyAt(ht, i, init_id), ht.table[i].val)
  /\ i' = Right(ht, i, 1)
  /\ completed' = (completed \/ i' = beg)
  /\ IF ~ht.table[i'].cbit
     THEN UNCHANGED <<init_id, phase>>
     ELSE /\ init_id' = Right(ht, init_id, 1)
          /\ phase' = IF i' # init_id' THEN "home" ELSE IF completed' THEN "done" ELSE "seek"
  /\ UNCHANGED <<ht, beg, arg, store>>

\* clone returns to set, which moves the copy into its place and goes on.
EndGrow ==
  /\ phase = "done" /\ arg # NoArg
  /\ phase' = "ready" /\ Idle /\ arg' = NoArg /\ new_cht' = NewTable(MinCapa)
  /\ Store(new_cht, arg.key, arg.val)

\* clone returns to the owner, who goes on with the copy.
EndClone ==
  /\ phase = "done" /\ arg = NoArg
  /\ phase' = "ready" /\ Idle /\ new_cht' = NewTable(MinCapa)
  /\ ht' = new_cht
  /\ UNCHANGED <<arg, store>>

Cloning == FindVacant \/ Seek \/ FindHome \/ CopyItem \/ EndGrow \/ EndClone

Next ==
  \/ \E k \in KeysUsed : \E v \in Value[k] : Set(k, v) \/ BeginGrow(k, v)
  \/ CallClone
  \/ Cloning

Spec == Init /\ [][Next]_vars

\* clone runs on the caller's thread: it goes on as long as it has not returned.
FairSpec == Spec /\ WF_vars(Cloning)

----------------------------------------------------------------------------
IsTable(t) ==
  /\ t.capa \in Nat /\ t.size \in Nat
  /\ t.table \in [Slots(t) -> [quo : 0 .. Univ \div t.capa - 1, val : 0 .. ValMask,
                               vbit : BOOLEAN, cbit : BOOLEAN]]

\* The types of all variables; a group that clone copies lies in taken slots,
\* and the walk looks for the mod of a group at taken slots only.
TypeOK ==
  /\ IsTable(ht) /\ IsTable(new_cht)
  /\ phase \in {"ready", "vacant", "seek", "home", "items", "done"}
  /\ {i, beg, init_id} \subseteq Slots(ht) /\ completed \in BOOLEAN
  /\ arg.key \in Keys \cup {Nil}
  /\ phase \in {"home", "items"} => ~IsVacant(ht, i) /\ ~IsVacant(ht, init_id)

\* A table can be read back: every cluster has as many groups as mods, the
\* k-th mod is not left of the start of the k-th group.
GroupsMatch(t) ==
  /\ t.size = Cardinality(Slots(t) \ Vacant(t))
  /\ t.size < t.capa
  /\ \A j \in Vacant(t) : t.table[j].cbit /\ ~t.table[j].vbit
  /\ \A j \in Vacant(t) :
       LET to == CHOOSE d \in 1 .. t.capa :
                   IsVacant(t, Right(t, j, d)) /\ \A e \in 1 .. d-1 : ~IsVacant(t, Right(t, j, e))
           vbits(d) == Cardinality({e \in 1 .. d : t.table[Right(t, j, e)].vbit})
           cbits(d) == Cardinality({e \in 1 .. d : t.table[Right(t, j, e)].cbit})
       IN /\ vbits(to-1) = cbits(to-1)
          /\ \A d \in 1 .. to-1 : vbits(d) <= cbits(d)
          /\ to > 1 => t.table[Right(t, j, 1)].cbit

BitsConsistent == GroupsMatch(ht) /\ GroupsMatch(new_cht)

\* What get finds in a table.
Contents(t) ==
  LET got == [k \in Keys |-> Get(t, k)]
  IN [k \in {k \in Keys : got[k] # Nil} |-> got[k]]

\* clone copies every item under the key it was set with, and the copy has
\* room for all: at each moment it holds a part of the table, and when clone
\* returns, all of it.  This is the assertion at the end of clone, and more.
CopyExact ==
  phase # "ready" =>
    LET old == Contents(ht)
        new == Contents(new_cht)
    IN /\ \A k \in DOMAIN new : k \in DOMAIN old /\ new[k] = old[k]
       /\ phase = "done" => DOMAIN new = DOMAIN old /\ new_cht.size = ht.size
       /\ ~Full(new_cht)

\* The assertion in the constructor, for the tables that set makes: there are
\* no more slots than keys, or a quotient would have a negative width.
CapacityInUniverse == ht.capa <= Univ /\ new_cht.capa <= Univ

\* A call of clone returns, and so does the set that it was called for.
CloneReturns == phase # "ready" ~> phase = "ready"

\* get finds the value that was set last, whatever displaced whatever since
\* and however often the table was copied, and nil for every other key of the
\* universe.
GetCorrect == Contents(ht) = store
=============================================================================
