--------------------------- MODULE Displacements ---------------------------
(***************************************************************************)
(* How the compact tries store a key: a bijective hash splits it into the  *)
(* slot the probe starts from (mod) and the rest (quo); a slot of table_   *)
(* holds quo and, in its low bits, how far from mod the key was stored,    *)
(* its displacement.  A displacement that does not fit into those bits     *)
(* goes to one of two auxiliary tables under the number of the slot:       *)
(* aux_cht_ for the next few values, aux_map_ for the rest.  They are the  *)
(* key-value stores of CompactHashTable and StandardHashTable, here        *)
(* functions.  The capacity is kept instead of its logarithm.              *)
(***************************************************************************)
EXTENDS LinearProbing, Sequences, FiniteSets

CONSTANTS
  Capas,       \* the capacities a table takes: MinCapa, doubled and doubled
  MinCapa,     \* 2^min_capa_bits
  MaxFactor,   \* load factor in percent at which the table grows
  SymbSize,    \* number of edge symbols
  Dsp1Mask,    \* 2^dsp1_bits - 1: the mark of a displacement stored elsewhere
  Dsp2Mask,    \* 2^dsp2_bits - 1: the mark of a free slot of aux_cht_
  Hash,        \* Hasher::hash for each capacity, a permutation of the keys
  HashInv      \* Hasher::hash_inv

\* What the template parameters and static_asserts grant, and that hash_inv
\* inverts hash.
ASSUME DisplacementAssumption ==
  /\ Capas \subseteq Nat /\ MinCapa \in Capas
  /\ \A c \in Capas : c >= MinCapa
  /\ MaxFactor \in 1 .. 99 /\ MinCapa * MaxFactor >= 200
  /\ {SymbSize, Dsp1Mask, Dsp2Mask} \subseteq Nat \ {0}
  /\ \A c \in Capas :
       LET K == 0 .. c * SymbSize - 1
       IN /\ {Hash[c], HashInv[c]} \subseteq [K -> K]
          /\ \A k \in K : HashInv[c][Hash[c][k]] = k /\ Hash[c][HashInv[c][k]] = k

NilId == -1
Symbols == 0 .. SymbSize - 1
Slots(t) == 0 .. t.capa - 1
MaxSizeOf(c) == (c * MaxFactor) \div 100

MakeKey(n, s) == n * SymbSize + s
QuoOf(t, key) == Hash[t.capa][key] \div t.capa
ModOf(t, key) == Hash[t.capa][key] % t.capa

\* How many times the probe that started at mod advanced to come to slot i.
Dist(t, mod, i) == (i + t.capa - mod) % t.capa

Dsp1Size == Dsp1Mask + 1
Quo(t, i) == t.table[i] \div Dsp1Size
Dsp1(t, i) == t.table[i] % Dsp1Size

NoDsps == [i \in {} |-> 0]

\* get_dsp_
GetDsp(t, i) ==
  IF Dsp1(t, i) < Dsp1Mask THEN Dsp1(t, i)
  ELSE IF i \in DOMAIN t.cht THEN t.cht[i] + Dsp1Mask
  ELSE t.map[i]

\* Mutant: displacements that do not fit into the slot are not told apart.
CompareDsp_Long(t, i, rhs) ==
  IF Dsp1(t, i) < Dsp1Mask THEN Dsp1(t, i) = rhs ELSE rhs >= Dsp1Mask

\* compare_dsp_; where the auxiliary tables know nothing of the slot, the
\* assertion fails: AuxComplete below.
CompareDsp(t, i, rhs) ==
  IF Dsp1(t, i) < Dsp1Mask
  THEN Dsp1(t, i) = rhs
  ELSE /\ rhs >= Dsp1Mask
       /\ IF i \in DOMAIN t.cht
          THEN t.cht[i] + Dsp1Mask = rhs
          ELSE rhs >= Dsp1Mask + Dsp2Mask /\ t.map[i] = rhs

Extended(f, i, v) == [j \in DOMAIN f \cup {i} |-> IF j = i THEN v ELSE f[j]]

\* Mutant: the mark of a free slot of aux_cht_ is stored as a displacement.
UpdateSlot_Mark(t, i, quo, dsp) ==
  LET short == dsp < Dsp1Mask
      medium == ~short /\ dsp - Dsp1Mask <= Dsp2Mask
  IN [t EXCEPT !.table[i] = quo * Dsp1Size + IF short THEN dsp ELSE Dsp1Mask,
               !.cht = IF medium THEN Extended(@, i, dsp - Dsp1Mask) ELSE @,
               !.map = IF short \/ medium THEN @ ELSE Extended(@, i, dsp)]

\* update_slot_
UpdateSlot(t, i, quo, dsp) ==
  LET short == dsp < Dsp1Mask
      medium == ~short /\ dsp - Dsp1Mask < Dsp2Mask
  IN [t EXCEPT !.table[i] = quo * Dsp1Size + IF short THEN dsp ELSE Dsp1Mask,
               !.cht = IF medium THEN Extended(@, i, dsp - Dsp1Mask) ELSE @,
               !.map = IF short \/ medium THEN @ ELSE Extended(@, i, dsp)]

\* Mutant: a probe that wrapped around is not unrolled.
KeyOf_NoWrap(t, i, dist) ==
  HashInv[t.capa][Quo(t, i) * t.capa + IF dist <= i THEN i - dist ELSE 0]

\* The key stored in slot i, dist slots right of where its probe started.
KeyOf(t, i, dist) ==
  LET init_id == IF dist <= i THEN i - dist ELSE t.capa - (dist - i)
  IN HashInv[t.capa][Quo(t, i) * t.capa + init_id]

\* Every displacement that is not in its slot is in exactly one of the two
\* tables, with a value that the table can hold.
AuxComplete(t, taken) ==
  /\ DOMAIN t.cht \cap DOMAIN t.map = {}
  /\ DOMAIN t.cht \cup DOMAIN t.map = {i \in taken : Dsp1(t, i) = Dsp1Mask}
  /\ \A i \in DOMAIN t.cht : t.cht[i] \in 0 .. Dsp2Mask - 1
  /\ \A i \in DOMAIN t.map : t.map[i] \in Nat /\ t.map[i] >= Dsp1Mask + Dsp2Mask
=============================================================================
