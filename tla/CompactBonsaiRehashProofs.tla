--------------------- MODULE CompactBonsaiRehashProofs ---------------------
(***************************************************************************)
(* compact_bonsai_trie and its expand, for every capacity, load factor,    *)
(* alphabet, hash and sequence of insertions, and every width of the       *)
(* displacement fields.  The inductive invariant is IndInv; each action    *)
(* has a lemma that it preserves it.                                       *)
(***************************************************************************)
EXTENDS CompactBonsaiRehash, FiniteSetTheorems, SequenceTheorems, WellFoundedInduction, TLAPS

----------------------------------------------------------------------------
(* The probe loop, for every table size and every stopping set. *)

\* right_ stays in the table and wraps once.
LEMMA AtWraps ==
  ASSUME NEW c \in Nat \ {0}, NEW h \in 0 .. c-1, NEW d \in 0 .. c-1
  PROVE  /\ At(c, h, d) = IF h + d < c THEN h + d ELSE h + d - c
         /\ At(c, h, d) \in 0 .. c-1
BY DEF At

\* The first c probes visit different slots ...
LEMMA AtInjective ==
  ASSUME NEW c \in Nat \ {0}, NEW h \in 0 .. c-1,
         NEW d \in 0 .. c-1, NEW e \in 0 .. c-1,
         At(c, h, d) = At(c, h, e)
  PROVE  d = e
BY DEF At

\* ... and leave none out.
LEMMA AtSurjective ==
  ASSUME NEW c \in Nat \ {0}, NEW h \in 0 .. c-1, NEW i \in 0 .. c-1
  PROVE  \E d \in 0 .. c-1 : At(c, h, d) = i
<1>. DEFINE d == IF h <= i THEN i - h ELSE i - h + c
<1>1. d \in 0 .. c-1
  OBVIOUS
<1>2. At(c, h, d) = IF h + d < c THEN h + d ELSE h + d - c
  <2>. HIDE DEF d
  <2>. QED  BY <1>1, AtWraps
<1>. QED  BY <1>1, <1>2

\* The loop returns at the first stopping slot, and there is one such slot.
LEMMA ProbeHits ==
  ASSUME NEW c \in Nat \ {0}, NEW h \in 0 .. c-1, NEW S,
         NEW d \in FirstStops(c, h, S)
  PROVE  /\ ProbeEnds(c, h, S)
         /\ ProbeEnd(c, h, S) = At(c, h, d)
<1>1. \A e \in FirstStops(c, h, S) : e = d
  BY DEF FirstStops
<1>2. FirstStops(c, h, S) = {d}
  BY <1>1
<1>. QED  BY <1>2 DEF ProbeEnds, ProbeEnd

\* A probe loop ends if some slot of the table stops it.
LEMMA ProbesEnd ==
  ASSUME NEW c \in Nat \ {0}, NEW h \in 0 .. c-1, NEW S, NEW i \in 0 .. c-1, i \in S
  PROVE  ProbeEnds(c, h, S)
<1>. DEFINE T == {d \in 0 .. c-1 : At(c, h, d) \in S}
<1>1. T \subseteq Nat /\ T # {}
  <2>1. PICK d \in 0 .. c-1 : At(c, h, d) = i
    BY AtSurjective
  <2>. QED  BY <2>1
<1>2. PICK d \in T : \A e \in T : <<e, d>> \notin OpToRel(<, Nat)
  <2>. HIDE DEF T
  <2>. QED  BY <1>1, NatLessThanWellFounded, WFMin
<1>3. \A e \in T : ~(e < d)
  BY <1>1, <1>2 DEF OpToRel
<1>4. d \in FirstStops(c, h, S)
  BY <1>3 DEF FirstStops
<1>. QED  BY <1>4 DEF ProbeEnds

----------------------------------------------------------------------------
(* Keys and displacements: a key is recovered from its slot, its quotient  *)
(* and its displacement, and a displacement is read as it was written, in  *)
(* whichever of its three places it is.                                    *)

\* The keys of a table of c slots.
KeySpace(c) == 0 .. c * SymbSize - 1

\* The part of a table that holds quotients and displacements, those of the
\* slots in taken.
Splits(t, taken) ==
  /\ {"table", "cht", "map", "capa"} \subseteq DOMAIN t
  /\ t.capa \in Capas
  /\ t.table \in [Slots(t) -> 0 .. SymbSize * Dsp1Size - 1]
  /\ taken \subseteq Slots(t)
  /\ AuxComplete(t, taken)

\* The key with this hash value, and where the probe started that came to slot
\* i after dist steps.
KeyFrom(t, quo, mod) == HashInv[t.capa][quo * t.capa + mod]
StartOf(t, i, dist) == IF dist <= i THEN i - dist ELSE t.capa - (dist - i)

LEMMA DivMod ==
  ASSUME NEW c \in Nat \ {0}, NEW q \in Nat, NEW r \in 0 .. c-1
  PROVE  (q * c + r) \div c = q /\ (q * c + r) % c = r
OBVIOUS

LEMMA DivModBounds ==
  ASSUME NEW c \in Nat \ {0}, NEW m \in Nat, NEW x \in 0 .. c * m - 1
  PROVE  /\ x \div c \in 0 .. m-1 /\ x % c \in 0 .. c-1
         /\ (x \div c) * c + (x % c) = x
<1>. DEFINE q == x \div c
            r == x % c
<1>1. q \in Nat /\ r \in 0 .. c-1 /\ x = q * c + r
  OBVIOUS
<1>2. q < m
  <2>1. SUFFICES ASSUME q >= m PROVE FALSE
    BY <1>1
  <2>. HIDE DEF q, r
  <2>2. q * c >= m * c
    BY <1>1, <2>1
  <2>. QED  BY <1>1, <2>2
<1>. HIDE DEF q, r
<1>3. q \in 0 .. m-1 /\ q * c + r = x
  BY <1>1, <1>2
<1>. QED  BY <1>1, <1>3 DEF q, r

\* A quotient and the slot a key belongs to make a hash value.
LEMMA MulBound ==
  ASSUME NEW c \in Nat \ {0}, NEW m \in Nat, NEW q \in 0 .. m-1, NEW r \in 0 .. c-1
  PROVE  q * c + r \in 0 .. c * m - 1
<1>1. q + 1 <= m
  OBVIOUS
<1>2. (q + 1) * c <= m * c
  BY <1>1
<1>. QED  BY <1>2

LEMMA CapaFacts ==
  ASSUME NEW c \in Capas
  PROVE  /\ c \in Nat \ {0} /\ c >= 3
         /\ MaxSizeOf(c) \in Nat /\ MaxSizeOf(c) >= 2 /\ MaxSizeOf(c) < c
         /\ 2 * c \in Capas => MaxSizeOf(c) < MaxSizeOf(2 * c)
<1>0. /\ c \in Nat /\ c >= MinCapa /\ MinCapa \in Nat
      /\ MaxFactor \in 1 .. 99 /\ MinCapa * MaxFactor >= 200
  BY DisplacementAssumption
<1>1. c >= 3
  BY <1>0
<1>. DEFINE p == c * MaxFactor
<1>2. p \in Nat /\ p >= 200 /\ p <= 99 * c /\ (2 * c) * MaxFactor = 2 * p
  BY <1>0
<1>3. p \div 100 \in Nat /\ p \div 100 >= 2 /\ p \div 100 < c /\ p \div 100 < (2 * p) \div 100
  <2>. HIDE DEF p
  <2>. QED  BY <1>0, <1>1, <1>2
<1>. QED  BY <1>0, <1>1, <1>2, <1>3 DEF MaxSizeOf

\* For each capacity the hash permutes the keys.
LEMMA HashFacts ==
  ASSUME NEW c \in Capas
  PROVE  /\ \A k \in KeySpace(c) : Hash[c][k] \in KeySpace(c) /\ HashInv[c][Hash[c][k]] = k
         /\ \A k \in KeySpace(c) : HashInv[c][k] \in KeySpace(c) /\ Hash[c][HashInv[c][k]] = k
<1>1. /\ Hash[c] \in [KeySpace(c) -> KeySpace(c)] /\ HashInv[c] \in [KeySpace(c) -> KeySpace(c)]
      /\ \A k \in KeySpace(c) : HashInv[c][Hash[c][k]] = k /\ Hash[c][HashInv[c][k]] = k
  BY DisplacementAssumption DEF KeySpace
<1>. QED  BY <1>1

\* The hash of a key splits into a quotient and a slot.
LEMMA KeySplits ==
  ASSUME NEW t, t.capa \in Capas, NEW key \in KeySpace(t.capa)
  PROVE  /\ QuoOf(t, key) \in Symbols /\ ModOf(t, key) \in Slots(t)
         /\ KeyFrom(t, QuoOf(t, key), ModOf(t, key)) = key
<1>. DEFINE c == t.capa
            x == Hash[c][key]
<1>1. c \in Nat \ {0} /\ SymbSize \in Nat \ {0}
  BY CapaFacts, DisplacementAssumption
<1>2. x \in 0 .. c * SymbSize - 1 /\ HashInv[c][x] = key
  BY HashFacts DEF KeySpace
<1>3. x \div c \in 0 .. SymbSize-1 /\ x % c \in 0 .. c-1 /\ (x \div c) * c + (x % c) = x
  <2>. HIDE DEF c, x
  <2>. QED  BY <1>1, <1>2, DivModBounds
<1>4. QuoOf(t, key) = x \div c /\ ModOf(t, key) = x % c
  BY DEF QuoOf, ModOf
<1>. HIDE DEF x
<1>. QED  BY <1>2, <1>3, <1>4 DEF Symbols, Slots, KeyFrom

\* Any quotient and slot are those of a key.
LEMMA KeyJoins ==
  ASSUME NEW t, t.capa \in Capas, NEW quo \in Symbols, NEW mod \in Slots(t)
  PROVE  /\ KeyFrom(t, quo, mod) \in KeySpace(t.capa)
         /\ QuoOf(t, KeyFrom(t, quo, mod)) = quo /\ ModOf(t, KeyFrom(t, quo, mod)) = mod
<1>. DEFINE c == t.capa
            key == KeyFrom(t, quo, mod)
            x == quo * c + mod
<1>1. c \in Nat \ {0} /\ SymbSize \in Nat \ {0}
  BY CapaFacts, DisplacementAssumption
<1>2. x \in 0 .. c * SymbSize - 1 /\ x \div c = quo /\ x % c = mod
  <2>1. quo \in 0 .. SymbSize-1 /\ mod \in 0 .. c-1
    BY DEF Symbols, Slots
  <2>2. quo \in Nat
    BY <1>1, <2>1
  <2>. HIDE DEF c
  <2>. QED  BY <1>1, <2>1, <2>2, MulBound, DivMod
<1>3. key = HashInv[c][x]
  BY DEF KeyFrom
<1>. HIDE DEF x, key
<1>4. key \in KeySpace(c) /\ Hash[c][key] = x
  <2>1. x \in KeySpace(c)
    BY <1>2 DEF KeySpace
  <2>. QED  BY <1>3, <2>1, HashFacts
<1>. QED  BY <1>2, <1>4 DEF QuoOf, ModOf, key

\* The key of a child of node n.
LEMMA ChildKey ==
  ASSUME NEW c \in Capas, NEW n \in 0 .. c-1, NEW s \in Symbols
  PROVE  /\ MakeKey(n, s) \in KeySpace(c)
         /\ MakeKey(n, s) \div SymbSize = n /\ MakeKey(n, s) % SymbSize = s
<1>1. c \in Nat \ {0} /\ SymbSize \in Nat \ {0}
  BY CapaFacts, DisplacementAssumption
<1>2. n \in Nat /\ s \in 0 .. SymbSize-1
  BY <1>1 DEF Symbols
<1>3. n * SymbSize + s \in 0 .. SymbSize * c - 1 /\ SymbSize * c = c * SymbSize
  BY <1>1, <1>2, MulBound
<1>4. (n * SymbSize + s) \div SymbSize = n /\ (n * SymbSize + s) % SymbSize = s
  BY <1>1, <1>2, DivMod
<1>. QED  BY <1>3, <1>4 DEF MakeKey, KeySpace

LEMMA KeyParts ==
  ASSUME NEW c \in Capas, NEW key \in KeySpace(c)
  PROVE  /\ key \div SymbSize \in 0 .. c-1 /\ key % SymbSize \in Symbols
         /\ MakeKey(key \div SymbSize, key % SymbSize) = key
<1>1. c \in Nat \ {0} /\ SymbSize \in Nat \ {0}
  BY CapaFacts, DisplacementAssumption
<1>2. key \in 0 .. SymbSize * c - 1
  BY <1>1 DEF KeySpace
<1>3. /\ key \div SymbSize \in 0 .. c-1 /\ key % SymbSize \in 0 .. SymbSize-1
      /\ (key \div SymbSize) * SymbSize + (key % SymbSize) = key
  BY <1>1, <1>2, DivModBounds
<1>. QED  BY <1>3 DEF MakeKey, Symbols

\* Dist is the inverse of the probe.
LEMMA DistInverts ==
  ASSUME NEW t, t.capa \in Nat \ {0}, NEW mod \in Slots(t), NEW i \in Slots(t)
  PROVE  /\ Dist(t, mod, i) \in Slots(t)
         /\ At(t.capa, mod, Dist(t, mod, i)) = i
         /\ \A d \in Slots(t) : At(t.capa, mod, d) = i => d = Dist(t, mod, i)
<1>. DEFINE c == t.capa
<1>1. c \in Nat \ {0} /\ mod \in 0 .. c-1 /\ i \in 0 .. c-1 /\ Slots(t) = 0 .. c-1
  BY DEF Slots
<1>2. Dist(t, mod, i) = (i + c - mod) % c
  BY DEF Dist
<1>. HIDE DEF c
<1>3. Dist(t, mod, i) = IF mod <= i THEN i - mod ELSE i + c - mod
  BY <1>1, <1>2
<1>4. Dist(t, mod, i) \in 0 .. c-1
  BY <1>1, <1>3
<1>5. At(c, mod, Dist(t, mod, i)) = i
  <2>1. At(c, mod, Dist(t, mod, i)) =
          IF mod + Dist(t, mod, i) < c THEN mod + Dist(t, mod, i) ELSE mod + Dist(t, mod, i) - c
    BY <1>1, <1>4, AtWraps
  <2>. QED  BY <1>1, <1>3, <2>1
<1>6. \A d \in 0 .. c-1 : At(c, mod, d) = i => d = Dist(t, mod, i)
  BY <1>1, <1>4, <1>5, AtInjective
<1>. QED  BY <1>1, <1>4, <1>5, <1>6 DEF c

LEMMA DistUnique ==
  ASSUME NEW t, t.capa \in Nat \ {0}, NEW mod \in Slots(t), NEW d \in Slots(t),
         NEW i \in Slots(t), At(t.capa, mod, d) = i
  PROVE  d = Dist(t, mod, i)
<1>1. /\ At(t.capa, mod, Dist(t, mod, i)) = i
      /\ \A e \in Slots(t) : At(t.capa, mod, e) = i => e = Dist(t, mod, i)
  BY DistInverts
<1>. QED  BY <1>1

\* KeyOf unrolls the probe.
LEMMA ProbeUnrolled ==
  ASSUME NEW t, t.capa \in Nat \ {0}, NEW i \in Slots(t), NEW dist \in Slots(t)
  PROVE  /\ StartOf(t, i, dist) \in Slots(t) /\ Dist(t, StartOf(t, i, dist), i) = dist
         /\ \A mod \in Slots(t) : Dist(t, mod, i) = dist => mod = StartOf(t, i, dist)
<1>. DEFINE c == t.capa
            init == StartOf(t, i, dist)
<1>1. c \in Nat \ {0} /\ i \in 0 .. c-1 /\ dist \in 0 .. c-1 /\ Slots(t) = 0 .. c-1
      /\ init = IF dist <= i THEN i - dist ELSE c - (dist - i)
  BY DEF Slots, StartOf
<1>2. ASSUME NEW mod \in 0 .. c-1
      PROVE  Dist(t, mod, i) = IF mod <= i THEN i - mod ELSE i + c - mod
  <2>1. Dist(t, mod, i) = (i + c - mod) % c
    BY DEF Dist
  <2>. HIDE DEF c
  <2>. QED  BY <1>1, <2>1
<1>. HIDE DEF c, init
<1>3. init \in 0 .. c-1
  BY <1>1
<1>4. Dist(t, init, i) = dist
  <2>1. Dist(t, init, i) = IF init <= i THEN i - init ELSE i + c - init
    BY <1>2, <1>3
  <2>. QED  BY <1>1, <1>3, <2>1
<1>5. \A mod \in 0 .. c-1 : Dist(t, mod, i) = dist => mod = init
  BY <1>1, <1>2
<1>. QED  BY <1>1, <1>3, <1>4, <1>5 DEF init

\* A key is recovered from the slot, the quotient and the displacement, and
\* these are recovered from it.
LEMMA KeyRecovered ==
  ASSUME NEW t, t.capa \in Capas, NEW i \in Slots(t), Quo(t, i) \in Symbols, NEW dist \in Slots(t)
  PROVE  /\ KeyOf(t, i, dist) \in KeySpace(t.capa)
         /\ QuoOf(t, KeyOf(t, i, dist)) = Quo(t, i)
         /\ Dist(t, ModOf(t, KeyOf(t, i, dist)), i) = dist
         /\ ModOf(t, KeyOf(t, i, dist)) \in Slots(t)
         /\ \A key \in KeySpace(t.capa) :
              QuoOf(t, key) = Quo(t, i) /\ Dist(t, ModOf(t, key), i) = dist => KeyOf(t, i, dist) = key
<1>. DEFINE q == Quo(t, i)
            init == StartOf(t, i, dist)
<1>1. t.capa \in Nat \ {0}
  BY CapaFacts
<1>2. /\ init \in Slots(t) /\ Dist(t, init, i) = dist
      /\ \A mod \in Slots(t) : Dist(t, mod, i) = dist => mod = init
  BY <1>1, ProbeUnrolled
<1>3. KeyOf(t, i, dist) = KeyFrom(t, q, init)
  BY DEF KeyOf, KeyFrom, StartOf
<1>4. q \in Symbols
  OBVIOUS
<1>. HIDE DEF q, init
<1>5. /\ KeyFrom(t, q, init) \in KeySpace(t.capa)
      /\ QuoOf(t, KeyFrom(t, q, init)) = q /\ ModOf(t, KeyFrom(t, q, init)) = init
  BY <1>2, <1>4, KeyJoins
<1>6. ASSUME NEW key \in KeySpace(t.capa), QuoOf(t, key) = q, Dist(t, ModOf(t, key), i) = dist
      PROVE  KeyFrom(t, q, init) = key
  <2>1. ModOf(t, key) \in Slots(t) /\ KeyFrom(t, QuoOf(t, key), ModOf(t, key)) = key
    BY KeySplits
  <2>2. init = ModOf(t, key)
    BY <1>2, <1>6, <2>1
  <2>. QED  BY <1>6, <2>1, <2>2
<1>. QED  BY <1>2, <1>3, <1>5, <1>6 DEF q

LEMMA SlotFacts ==
  ASSUME NEW t, NEW taken, Splits(t, taken), NEW i \in Slots(t)
  PROVE  /\ Quo(t, i) \in Symbols /\ Dsp1(t, i) \in 0 .. Dsp1Mask
         /\ t.table[i] \in Nat /\ Dsp1Size \in Nat \ {0} /\ Dsp1Mask \in Nat \ {0}
<1>1. SymbSize \in Nat \ {0} /\ Dsp1Mask \in Nat \ {0} /\ Dsp1Size = Dsp1Mask + 1
  BY DisplacementAssumption DEF Dsp1Size
<1>2. t.table[i] \in 0 .. SymbSize * Dsp1Size - 1 /\ SymbSize * Dsp1Size = Dsp1Size * SymbSize
  BY <1>1 DEF Splits
<1>3. t.table[i] \div Dsp1Size \in 0 .. SymbSize-1 /\ t.table[i] % Dsp1Size \in 0 .. Dsp1Size-1
  <2>1. Dsp1Size \in Nat \ {0} /\ SymbSize \in Nat
    BY <1>1
  <2>. QED  BY <1>2, <2>1, DivModBounds
<1>. QED  BY <1>1, <1>2, <1>3 DEF Quo, Dsp1, Symbols

\* compare_dsp_ compares with what get_dsp_ returns.
LEMMA ComparesDsp ==
  ASSUME NEW t, NEW taken, Splits(t, taken), NEW i \in taken, NEW rhs \in Nat
  PROVE  /\ GetDsp(t, i) \in Nat
         /\ CompareDsp(t, i, rhs) <=> GetDsp(t, i) = rhs
<1>1. Dsp1(t, i) \in 0 .. Dsp1Mask /\ Dsp1Mask \in Nat \ {0} /\ Dsp2Mask \in Nat \ {0}
  BY SlotFacts, DisplacementAssumption DEF Splits
<1>2. AuxComplete(t, taken)
  BY DEF Splits
<1>3. CASE Dsp1(t, i) < Dsp1Mask
  BY <1>1, <1>3 DEF GetDsp, CompareDsp
<1>4. CASE ~(Dsp1(t, i) < Dsp1Mask)
  <2>1. Dsp1(t, i) = Dsp1Mask
    BY <1>1, <1>4
  <2>2. i \in DOMAIN t.cht \cup DOMAIN t.map
    BY <1>2, <2>1 DEF AuxComplete
  <2>3. i \in DOMAIN t.cht => t.cht[i] \in 0 .. Dsp2Mask - 1
    BY <1>2 DEF AuxComplete
  <2>4. i \notin DOMAIN t.cht => t.map[i] >= Dsp1Mask + Dsp2Mask /\ t.map[i] \in Nat
    BY <1>2, <2>2 DEF AuxComplete
  <2>. QED  BY <1>1, <1>4, <2>3, <2>4 DEF GetDsp, CompareDsp
<1>. QED  BY <1>3, <1>4

\* Table u is t with quo and dsp in slot i, which was free; those of the other
\* slots are as they were.
StoredIn(t, taken, i, quo, dsp, u) ==
  /\ Splits(u, taken \cup {i})
  /\ Quo(u, i) = quo /\ GetDsp(u, i) = dsp
  /\ \A j \in taken : Quo(u, j) = Quo(t, j) /\ GetDsp(u, j) = GetDsp(t, j)
  /\ \A j \in Slots(t) \ {i} : u.table[j] = t.table[j]
  /\ DOMAIN u = DOMAIN t /\ \A x \in DOMAIN t \ {"table", "cht", "map"} : u[x] = t[x]

\* update_slot_ writes what get_dsp_ reads back.
LEMMA UpdateSlotStores ==
  ASSUME NEW t, NEW taken, Splits(t, taken), NEW i \in Slots(t) \ taken,
         NEW quo \in Symbols, NEW dsp \in Nat,
         NEW u, u = UpdateSlot(t, i, quo, dsp)
  PROVE  StoredIn(t, taken, i, quo, dsp, u)
<1>. DEFINE short == dsp < Dsp1Mask
            medium == ~short /\ dsp - Dsp1Mask < Dsp2Mask
            low == IF short THEN dsp ELSE Dsp1Mask
            cell == quo * Dsp1Size + low
<1>0. {"table", "cht", "map", "capa"} \subseteq DOMAIN t
  BY DEF Splits
<1>1. /\ Dsp1Mask \in Nat \ {0} /\ Dsp2Mask \in Nat \ {0} /\ SymbSize \in Nat \ {0}
      /\ Dsp1Size = Dsp1Mask + 1
  BY DisplacementAssumption DEF Dsp1Size
<1>2. /\ DOMAIN u = DOMAIN t /\ \A x \in DOMAIN t \ {"table", "cht", "map"} : u[x] = t[x]
      /\ u.table = [t.table EXCEPT ![i] = cell]
      /\ u.cht = IF medium THEN Extended(t.cht, i, dsp - Dsp1Mask) ELSE t.cht
      /\ u.map = IF short \/ medium THEN t.map ELSE Extended(t.map, i, dsp)
      /\ u.capa = t.capa
  BY <1>0 DEF UpdateSlot
<1>3. low \in 0 .. Dsp1Size-1 /\ low <= Dsp1Mask /\ (low = Dsp1Mask <=> ~short)
  BY <1>1
<1>4. cell \in 0 .. SymbSize * Dsp1Size - 1 /\ cell \div Dsp1Size = quo /\ cell % Dsp1Size = low
  <2>1. Dsp1Size \in Nat \ {0} /\ quo \in 0 .. SymbSize-1 /\ quo \in Nat
    BY <1>1 DEF Symbols
  <2>2. SymbSize * Dsp1Size = Dsp1Size * SymbSize
    BY <1>1
  <2>. HIDE DEF low
  <2>. QED  BY <1>1, <1>3, <2>1, <2>2, MulBound, DivMod
<1>. HIDE DEF cell
<1>5. Slots(u) = Slots(t)
  BY <1>2 DEF Slots
<1>6. /\ u.table \in [Slots(t) -> 0 .. SymbSize * Dsp1Size - 1]
      /\ u.table[i] = cell /\ \A j \in Slots(t) \ {i} : u.table[j] = t.table[j]
  BY <1>2, <1>4 DEF Splits
<1>7. Quo(u, i) = quo /\ Dsp1(u, i) = low
  BY <1>4, <1>6 DEF Quo, Dsp1
<1>8. \A j \in taken : Quo(u, j) = Quo(t, j) /\ Dsp1(u, j) = Dsp1(t, j)
  BY <1>6 DEF Quo, Dsp1, Splits
<1>9. /\ i \notin DOMAIN t.cht /\ i \notin DOMAIN t.map
      /\ DOMAIN t.cht \cap DOMAIN t.map = {}
      /\ DOMAIN t.cht \cup DOMAIN t.map = {j \in taken : Dsp1(t, j) = Dsp1Mask}
      /\ \A j \in DOMAIN t.cht : t.cht[j] \in 0 .. Dsp2Mask - 1
      /\ \A j \in DOMAIN t.map : t.map[j] \in Nat /\ t.map[j] >= Dsp1Mask + Dsp2Mask
  BY DEF Splits, AuxComplete
<1>10. /\ DOMAIN u.cht = IF medium THEN DOMAIN t.cht \cup {i} ELSE DOMAIN t.cht
       /\ medium => u.cht[i] = dsp - Dsp1Mask
       /\ \A j \in DOMAIN t.cht : u.cht[j] = t.cht[j]
  BY <1>2, <1>9 DEF Extended
<1>11. /\ DOMAIN u.map = IF short \/ medium THEN DOMAIN t.map ELSE DOMAIN t.map \cup {i}
       /\ ~short /\ ~medium => u.map[i] = dsp
       /\ \A j \in DOMAIN t.map : u.map[j] = t.map[j]
  BY <1>2, <1>9 DEF Extended
<1>12. GetDsp(u, i) = dsp
  <2>1. CASE short
    BY <1>7, <2>1 DEF GetDsp
  <2>2. CASE medium
    BY <1>1, <1>7, <1>10, <2>2 DEF GetDsp
  <2>3. CASE ~short /\ ~medium
    BY <1>1, <1>7, <1>9, <1>10, <1>11, <2>3 DEF GetDsp
  <2>. QED  BY <2>1, <2>2, <2>3
<1>13. ASSUME NEW j \in taken PROVE GetDsp(u, j) = GetDsp(t, j)
  <2>1. j # i /\ Dsp1(u, j) = Dsp1(t, j)
    BY <1>8
  <2>2. j \in DOMAIN u.cht <=> j \in DOMAIN t.cht
    BY <1>10, <2>1
  <2>3. CASE j \in DOMAIN t.map \/ j \in DOMAIN t.cht
    BY <1>10, <1>11, <2>1, <2>2, <2>3 DEF GetDsp
  <2>4. CASE j \notin DOMAIN t.map /\ j \notin DOMAIN t.cht
    <3>1. Dsp1(t, j) # Dsp1Mask /\ Dsp1(t, j) \in 0 .. Dsp1Mask
      BY <1>9, <2>4, SlotFacts DEF Splits
    <3>. QED  BY <1>1, <2>1, <3>1 DEF GetDsp
  <2>. QED  BY <2>3, <2>4
<1>14. AuxComplete(u, taken \cup {i})
  <2>1. DOMAIN u.cht \cap DOMAIN u.map = {}
    BY <1>9, <1>10, <1>11
  <2>2. DOMAIN u.cht \cup DOMAIN u.map = {j \in taken \cup {i} : Dsp1(u, j) = Dsp1Mask}
    <3>1. {j \in taken \cup {i} : Dsp1(u, j) = Dsp1Mask}
            = {j \in taken : Dsp1(t, j) = Dsp1Mask} \cup (IF short THEN {} ELSE {i})
      BY <1>3, <1>7, <1>8
    <3>. QED  BY <1>9, <1>10, <1>11, <3>1
  <2>3. \A j \in DOMAIN u.cht : u.cht[j] \in 0 .. Dsp2Mask - 1
    <3>1. medium => dsp - Dsp1Mask \in 0 .. Dsp2Mask - 1
      BY <1>1
    <3>. QED  BY <1>9, <1>10, <3>1
  <2>4. \A j \in DOMAIN u.map : u.map[j] \in Nat /\ u.map[j] >= Dsp1Mask + Dsp2Mask
    <3>1. ~short /\ ~medium => dsp >= Dsp1Mask + Dsp2Mask
      BY <1>1
    <3>. QED  BY <1>9, <1>11, <3>1
  <2>. QED  BY <2>1, <2>2, <2>3, <2>4 DEF AuxComplete
<1>15. Splits(u, taken \cup {i})
  BY <1>0, <1>2, <1>5, <1>6, <1>14 DEF Splits
<1>. QED  BY <1>2, <1>6, <1>7, <1>8, <1>12, <1>13, <1>15 DEF StoredIn

----------------------------------------------------------------------------
(* The table.                                                              *)

LEMMA FormedFacts ==
  ASSUME NEW t, Formed(t)
  PROVE  /\ t.capa \in Capas /\ t.capa \in Nat \ {0} /\ t.capa >= 3 /\ Slots(t) = 0 .. t.capa-1
         /\ RootId \in Slots(t) /\ RootId \in Nodes(t)
         /\ Nodes(t) \cup Vacant(t) = Slots(t) /\ Nodes(t) \cap Vacant(t) = {}
         /\ Nodes(t) = Children(t) \cup {RootId} /\ RootId \notin Children(t)
         /\ Splits(t, Children(t))
         /\ \A i \in Slots(t) \ {RootId} : i \in Vacant(t) <=> Dsp1(t, i) = 0
<1>1. t.capa \in Capas /\ t.capa \in Nat \ {0} /\ t.capa >= 3
  BY CapaFacts DEF Formed
<1>2. Slots(t) = 0 .. t.capa-1 /\ RootId \in Slots(t)
  BY <1>1 DEF Slots, RootId
<1>3. Splits(t, Children(t))
  BY <1>1 DEF Splits, Formed, IsTable, LowSize, Children
<1>4. \A i \in Slots(t) \ {RootId} : i \in Vacant(t) <=> Dsp1(t, i) = 0
  <2>1. SUFFICES ASSUME NEW i \in Slots(t) \ {RootId} PROVE CompareDsp(t, i, 0) <=> Dsp1(t, i) = 0
    BY DEF Vacant
  <2>2. Dsp1(t, i) \in 0 .. Dsp1Mask /\ Dsp1Mask \in Nat \ {0}
    BY <1>3, SlotFacts
  <2>. QED  BY <2>2 DEF CompareDsp
<1>. QED  BY <1>1, <1>2, <1>3, <1>4 DEF Nodes, Children, Vacant

\* What the key recovered from a slot says of the slot.
LEMMA ParentKeyFacts ==
  ASSUME NEW t, Formed(t), NEW i \in Children(t)
  PROVE  /\ ParentKey(t, i) \in KeySpace(t.capa)
         /\ Quo(t, i) = QuoOf(t, ParentKey(t, i))
         /\ ModOf(t, ParentKey(t, i)) \in Slots(t)
         /\ GetDsp(t, i) = Dist(t, ModOf(t, ParentKey(t, i)), i) + 1
         /\ GetDsp(t, i) - 1 \in Slots(t)
         /\ \A key \in KeySpace(t.capa) :
              QuoOf(t, key) = Quo(t, i) /\ Dist(t, ModOf(t, key), i) + 1 = GetDsp(t, i)
                => ParentKey(t, i) = key
<1>. DEFINE dist == GetDsp(t, i) - 1
<1>1. t.capa \in Capas /\ t.capa \in Nat \ {0} /\ i \in Slots(t) /\ Splits(t, Children(t))
      /\ Slots(t) = 0 .. t.capa-1
  BY FormedFacts DEF Children
<1>2. GetDsp(t, i) \in 1 .. t.capa
  BY DEF Formed
<1>3. dist \in Slots(t) /\ dist \in Nat /\ GetDsp(t, i) = dist + 1
  BY <1>1, <1>2
<1>4. Quo(t, i) \in Symbols
  BY <1>1, SlotFacts
<1>5. ParentKey(t, i) = KeyOf(t, i, dist)
  BY DEF ParentKey
<1>. HIDE DEF dist
<1>6. /\ KeyOf(t, i, dist) \in KeySpace(t.capa)
      /\ QuoOf(t, KeyOf(t, i, dist)) = Quo(t, i)
      /\ Dist(t, ModOf(t, KeyOf(t, i, dist)), i) = dist
      /\ ModOf(t, KeyOf(t, i, dist)) \in Slots(t)
      /\ \A key \in KeySpace(t.capa) :
           QuoOf(t, key) = Quo(t, i) /\ Dist(t, ModOf(t, key), i) = dist => KeyOf(t, i, dist) = key
  BY <1>1, <1>3, <1>4, KeyRecovered
<1>7. ASSUME NEW key \in KeySpace(t.capa), QuoOf(t, key) = Quo(t, i),
             Dist(t, ModOf(t, key), i) + 1 = GetDsp(t, i)
      PROVE  ParentKey(t, i) = key
  <2>1. Dist(t, ModOf(t, key), i) \in Nat
    <3>1. ModOf(t, key) \in Slots(t)
      BY <1>1, KeySplits
    <3>2. Dist(t, ModOf(t, key), i) \in Slots(t)
      BY <1>1, <3>1, DistInverts
    <3>. QED  BY <1>1, <3>2
  <2>2. Dist(t, ModOf(t, key), i) = dist
    BY <1>3, <1>7, <2>1
  <2>. QED  BY <1>5, <1>6, <1>7, <2>2
<1>. QED  BY <1>3, <1>5, <1>6, <1>7 DEF dist

\* The comparison of the probe loops, quotient and displacement, is a
\* comparison of keys.
LEMMA MatchesAreEqual ==
  ASSUME NEW t, Formed(t), NEW key \in KeySpace(t.capa), NEW i \in Children(t)
  PROVE  i \in Matches(t, QuoOf(t, key), ModOf(t, key)) <=> ParentKey(t, i) = key
<1>1. t.capa \in Capas /\ t.capa \in Nat \ {0} /\ i \in Slots(t) /\ Splits(t, Children(t))
      /\ Slots(t) = 0 .. t.capa-1
  BY FormedFacts DEF Children
<1>. DEFINE rhs == Dist(t, ModOf(t, key), i) + 1
<1>2. rhs \in Nat
  <2>1. ModOf(t, key) \in Slots(t)
    BY <1>1, KeySplits
  <2>2. Dist(t, ModOf(t, key), i) \in Slots(t)
    BY <1>1, <2>1, DistInverts
  <2>. QED  BY <1>1, <2>2
<1>3. CompareDsp(t, i, rhs) <=> GetDsp(t, i) = rhs
  <2>. HIDE DEF rhs
  <2>. QED  BY <1>1, <1>2, ComparesDsp
<1>4. i \in Matches(t, QuoOf(t, key), ModOf(t, key))
        <=> Quo(t, i) = QuoOf(t, key) /\ GetDsp(t, i) = rhs
  BY <1>3 DEF Matches
<1>. QED  BY <1>4, ParentKeyFacts

\* The slot at which the loop finds no node: free, with no free slot before it.
FirstVacant(t, key, i) ==
  /\ i \in Vacant(t)
  /\ \E d \in Slots(t) :
       /\ At(t.capa, ModOf(t, key), d) = i
       /\ \A e \in 0 .. d-1 : At(t.capa, ModOf(t, key), e) \notin Vacant(t)

\* Table u is t with key in slot i, which was free.
PutIn(t, key, i, u) ==
  /\ Formed(u)
  /\ u.capa = t.capa /\ u.size = t.size + 1
  /\ Children(u) = Children(t) \cup {i} /\ Vacant(u) = Vacant(t) \ {i}
  /\ ParentKey(u, i) = key
  /\ GetDsp(u, i) = Dist(t, ModOf(t, key), i) + 1
  /\ \A j \in Children(t) : ParentKey(u, j) = ParentKey(t, j) /\ GetDsp(u, j) = GetDsp(t, j)

\* Storing a key in a free slot changes nothing that is read from the other
\* slots.
LEMMA PutStores ==
  ASSUME NEW t, Formed(t), NEW key \in KeySpace(t.capa), NEW i \in Vacant(t),
         NEW u, u = [UpdateSlot(t, i, QuoOf(t, key), Dist(t, ModOf(t, key), i) + 1) EXCEPT !.size = @ + 1]
  PROVE  PutIn(t, key, i, u)
<1>. DEFINE quo == QuoOf(t, key)
            dsp == Dist(t, ModOf(t, key), i) + 1
            v == UpdateSlot(t, i, quo, dsp)
<1>1. /\ t.capa \in Capas /\ t.capa \in Nat \ {0} /\ Slots(t) = 0 .. t.capa-1
      /\ RootId \in Slots(t)
      /\ Splits(t, Children(t)) /\ t.size \in Nat /\ t.table[RootId] = 0
      /\ DOMAIN t = {"table", "cht", "map", "size", "capa"}
  BY FormedFacts DEF Formed, IsTable
<1>2. i \in Slots(t) \ Children(t) /\ i # RootId
  BY FormedFacts DEF Children, Vacant
<1>3. quo \in Symbols /\ dsp \in Nat /\ dsp \in 1 .. t.capa
  <2>1. quo \in Symbols /\ ModOf(t, key) \in Slots(t)
    BY <1>1, KeySplits
  <2>2. Dist(t, ModOf(t, key), i) \in Slots(t)
    BY <1>1, <1>2, <2>1, DistInverts
  <2>. QED  BY <1>1, <2>1, <2>2
<1>4. u = [v EXCEPT !.size = @ + 1]
  OBVIOUS
<1>5. v = UpdateSlot(t, i, quo, dsp)
  OBVIOUS
<1>. HIDE DEF quo, dsp, v
<1>6. /\ Splits(v, Children(t) \cup {i})
      /\ Quo(v, i) = quo /\ GetDsp(v, i) = dsp
      /\ \A j \in Children(t) : Quo(v, j) = Quo(t, j) /\ GetDsp(v, j) = GetDsp(t, j)
      /\ \A j \in Slots(t) \ {i} : v.table[j] = t.table[j]
      /\ DOMAIN v = DOMAIN t /\ v.size = t.size /\ v.capa = t.capa
  <2>1. Splits(t, Children(t))
    BY <1>1
  <2>2. StoredIn(t, Children(t), i, quo, dsp, v)
    BY <1>2, <1>3, <1>5, <2>1, UpdateSlotStores
  <2>. QED  BY <1>1, <2>2 DEF StoredIn
<1>7. /\ DOMAIN u = DOMAIN t /\ u.size = t.size + 1 /\ u.capa = t.capa
      /\ u.table = v.table /\ u.cht = v.cht /\ u.map = v.map
  BY <1>1, <1>4, <1>6
<1>8. Slots(u) = Slots(t) /\ Slots(v) = Slots(t)
  BY <1>6, <1>7 DEF Slots
<1>9. /\ \A j : Quo(u, j) = Quo(v, j) /\ Dsp1(u, j) = Dsp1(v, j) /\ GetDsp(u, j) = GetDsp(v, j)
      /\ \A j : CompareDsp(u, j, 0) <=> CompareDsp(v, j, 0)
  BY <1>7 DEF Quo, Dsp1, GetDsp, CompareDsp
<1>10. Vacant(u) = Vacant(t) \ {i}
  <2>1. ~CompareDsp(u, i, 0)
    <3>1. GetDsp(v, i) # 0
      BY <1>3, <1>6
    <3>2. Splits(v, Children(t) \cup {i}) /\ i \in Children(t) \cup {i} /\ 0 \in Nat
      BY <1>6
    <3>3. CompareDsp(v, i, 0) <=> GetDsp(v, i) = 0
      BY <3>2, ComparesDsp
    <3>. QED  BY <1>9, <3>1, <3>3
  <2>2. ASSUME NEW j \in Slots(t) \ {RootId, i} PROVE CompareDsp(u, j, 0) <=> CompareDsp(t, j, 0)
    <3>1. Dsp1(u, j) = Dsp1(t, j)
      BY <1>6, <1>7 DEF Dsp1
    <3>2. Dsp1(t, j) \in 0 .. Dsp1Mask /\ Dsp1Mask \in Nat \ {0}
      BY <1>1, SlotFacts
    <3>. QED  BY <3>1, <3>2 DEF CompareDsp
  <2>. QED  BY <1>8, <2>1, <2>2 DEF Vacant
<1>11. Children(u) = Children(t) \cup {i}
  BY <1>2, <1>8, <1>10 DEF Children
<1>12. Formed(u)
  <2>1. \A j \in Children(u) : GetDsp(u, j) \in 1 .. u.capa
    BY <1>3, <1>6, <1>7, <1>9, <1>11 DEF Formed
  <2>2. AuxComplete(u, Children(u))
    BY <1>6, <1>7, <1>9, <1>11 DEF Splits, AuxComplete
  <2>3. IsTable(u)
    <3>1. u.table \in [Slots(u) -> 0 .. SymbSize * Dsp1Size - 1]
      BY <1>6, <1>7, <1>8 DEF Splits
    <3>2. u.size \in Nat
      BY <1>1, <1>7
    <3>. QED  BY <3>1, <3>2 DEF IsTable, LowSize
  <2>4. u.table[RootId] = 0
    BY <1>1, <1>2, <1>6, <1>7
  <2>. QED  BY <1>1, <1>7, <2>1, <2>2, <2>3, <2>4 DEF Formed
<1>13. \A j \in Children(t) : ParentKey(u, j) = ParentKey(t, j)
  BY <1>6, <1>7, <1>9 DEF ParentKey, KeyOf
<1>14. ParentKey(u, i) = key
  <2>1. QuoOf(u, key) = quo /\ Dist(u, ModOf(u, key), i) + 1 = dsp
    BY <1>7 DEF quo, dsp, QuoOf, ModOf, Dist
  <2>2. key \in KeySpace(u.capa) /\ i \in Children(u)
    BY <1>7, <1>11
  <2>3. Quo(u, i) = quo /\ GetDsp(u, i) = dsp
    BY <1>6, <1>9
  <2>. QED  BY <1>12, <2>1, <2>2, <2>3, ParentKeyFacts
<1>. QED  BY <1>6, <1>7, <1>9, <1>10, <1>11, <1>12, <1>13, <1>14 DEF dsp, PutIn

\* A table with a node and within its load limit has a free slot.
LEMMA SpareSlot ==
  ASSUME NEW t, Formed(t), Counted(t), t.size > 0
  PROVE  Vacant(t) # {} /\ IsFiniteSet(Nodes(t))
<1>. DEFINE c == t.capa
<1>1. /\ c \in Capas /\ c \in Nat \ {0} /\ Slots(t) = 0 .. c-1
      /\ Nodes(t) \cup Vacant(t) = Slots(t)
      /\ MaxSizeOf(c) \in Nat /\ MaxSizeOf(c) < c
      /\ t.size \in Nat
  BY FormedFacts, CapaFacts DEF Formed, IsTable
<1>2. t.size = Cardinality(Nodes(t)) /\ t.size <= MaxSizeOf(c)
  BY <1>1 DEF Counted
<1>. HIDE DEF c
<1>3. IsFiniteSet(0 .. c-1) /\ Cardinality(0 .. c-1) = c
  <2>. DEFINE x == c - 1
  <2>1. x \in Int /\ x >= 0 /\ x + 1 = c /\ 0 \in Int
    BY <1>1
  <2>. HIDE DEF x
  <2>2. IsFiniteSet(0 .. x) /\ Cardinality(0 .. x) = IF 0 > x THEN 0 ELSE x - 0 + 1
    BY <2>1, FS_Interval
  <2>3. IsFiniteSet(0 .. x) /\ Cardinality(0 .. x) = c
    BY <2>1, <2>2
  <2>. QED  BY <2>3 DEF x
<1>4. IsFiniteSet(Nodes(t))
  <2>1. Nodes(t) \subseteq 0 .. c-1
    BY <1>1
  <2>. QED  BY <1>3, <2>1, FS_Subset
<1>5. ASSUME Vacant(t) = {} PROVE FALSE
  <2>1. Nodes(t) = 0 .. c-1
    BY <1>1, <1>5
  <2>2. t.size = c
    BY <1>2, <1>3, <2>1
  <2>. QED  BY <1>1, <1>2, <2>2
<1>. QED  BY <1>4, <1>5

\* No probe loop runs for ever on a table with a free slot.
LEMMA ProbesReturn ==
  ASSUME NEW t, Formed(t), Vacant(t) # {}, NEW key \in KeySpace(t.capa), NEW S, Vacant(t) \subseteq S
  PROVE  ProbeEnds(t.capa, ModOf(t, key), S)
<1>1. t.capa \in Nat \ {0} /\ Slots(t) = 0 .. t.capa-1 /\ Vacant(t) \subseteq Slots(t)
      /\ ModOf(t, key) \in Slots(t)
  BY FormedFacts, KeySplits
<1>2. PICK i \in Slots(t) : i \in S
  BY <1>1
<1>. QED  BY <1>1, <1>2, ProbesEnd

\* The probe for a key that is stored in one slot ends there ...
LEMMA FindsStored ==
  ASSUME NEW t, Formed(t), Chained(t), NEW i \in Children(t),
         NEW key, key = ParentKey(t, i),
         \A j \in Children(t) : ParentKey(t, j) = key => j = i
  PROVE  ProbeEnd(t.capa, ModOf(t, key), Vacant(t) \cup Matches(t, QuoOf(t, key), ModOf(t, key))) = i
<1>. DEFINE c == t.capa
            h == ModOf(t, key)
            d == GetDsp(t, i) - 1
            M == Matches(t, QuoOf(t, key), h)
            S == Vacant(t) \cup M
<1>1. /\ c \in Nat \ {0} /\ Slots(t) = 0 .. c-1
      /\ i \notin Vacant(t) /\ i \in Slots(t)
  BY FormedFacts
<1>2. key \in KeySpace(t.capa) /\ h \in Slots(t) /\ d = Dist(t, h, i) /\ d \in Slots(t)
  <2>1. /\ key \in KeySpace(t.capa) /\ h \in Slots(t)
        /\ GetDsp(t, i) = Dist(t, h, i) + 1 /\ d \in Slots(t)
    BY ParentKeyFacts
  <2>2. Dist(t, h, i) \in Slots(t)
    <3>. HIDE DEF h
    <3>. QED  BY <1>1, <2>1, DistInverts
  <2>. QED  BY <1>1, <2>1, <2>2
<1>3. At(c, h, d) = i
  <2>. HIDE DEF h
  <2>1. At(t.capa, h, Dist(t, h, i)) = i
    BY <1>1, <1>2, DistInverts
  <2>. QED  BY <1>2, <2>1
<1>4. M \subseteq Children(t) /\ \A j \in Children(t) : j \in M <=> j = i
  <2>1. M \subseteq Children(t)
    BY DEF Matches
  <2>2. \A j \in Children(t) : j \in M <=> ParentKey(t, j) = key
    BY <1>2, MatchesAreEqual
  <2>. QED  BY <2>1, <2>2
<1>5. \A e \in 0 .. d-1 : At(c, h, e) \notin Vacant(t)
  <2>1. \A e \in 0 .. GetDsp(t, i) - 2 : At(c, h, e) \notin Vacant(t)
    BY DEF Chained
  <2>2. GetDsp(t, i) \in Nat
    <3>1. GetDsp(t, i) \in 1 .. t.capa
      BY DEF Formed
    <3>. QED  BY <1>1, <3>1
  <2>3. d - 1 = GetDsp(t, i) - 2
    BY <2>2
  <2>. QED  BY <2>1, <2>3
<1>. HIDE DEF c, h, d, M
<1>6. ASSUME NEW e \in 0 .. d-1 PROVE At(c, h, e) # i
  <2>1. e \in 0 .. c-1 /\ d \in 0 .. c-1 /\ h \in 0 .. c-1 /\ e # d
    BY <1>1, <1>2
  <2>. QED  BY <1>1, <1>3, <2>1, AtInjective
<1>7. i \in S /\ \A e \in 0 .. d-1 : At(c, h, e) \notin S
  BY <1>4, <1>5, <1>6
<1>8. d \in FirstStops(c, h, S)
  BY <1>1, <1>2, <1>3, <1>7 DEF FirstStops
<1>9. ProbeEnd(c, h, S) = i
  <2>. HIDE DEF S
  <2>. QED  BY <1>1, <1>2, <1>3, <1>8, ProbeHits
<1>. QED  BY <1>9 DEF c, h, M

\* ... and for any other key at the first free slot.
LEMMA FindsVacant ==
  ASSUME NEW t, Formed(t), Vacant(t) # {}, NEW key \in KeySpace(t.capa),
         NEW S, Vacant(t) \subseteq S, S \subseteq Slots(t), S \cap Nodes(t) = {}
  PROVE  FirstVacant(t, key, ProbeEnd(t.capa, ModOf(t, key), S))
<1>. DEFINE c == t.capa
            h == ModOf(t, key)
<1>1. /\ c \in Nat \ {0} /\ Slots(t) = 0 .. c-1 /\ h \in 0 .. c-1
      /\ Nodes(t) \cup Vacant(t) = Slots(t)
  BY FormedFacts, KeySplits
<1>2. PICK d : d \in FirstStops(c, h, S)
  BY ProbesReturn DEF ProbeEnds
<1>3. d \in 0 .. c-1 /\ At(c, h, d) \in S /\ \A e \in 0 .. d-1 : At(c, h, e) \notin S
  BY <1>2 DEF FirstStops
<1>. HIDE DEF c, h
<1>4. ProbeEnd(c, h, S) = At(c, h, d)
  BY <1>1, <1>2, ProbeHits
<1>5. At(c, h, d) \in Vacant(t)
  BY <1>1, <1>3
<1>6. \A e \in 0 .. d-1 : At(c, h, e) \notin Vacant(t)
  BY <1>3
<1>. QED  BY <1>1, <1>3, <1>4, <1>5, <1>6 DEF FirstVacant, c, h

\* A slot holds the key of a child exactly if its node has the child's string.
LEMMA KeyIsString ==
  ASSUME NEW t, NEW f, Sound(t, f), t.size > 0,
         NEW n \in Nodes(t), NEW s \in Symbols, NEW j \in Nodes(t)
  PROVE  /\ MakeKey(n, s) \in KeySpace(t.capa)
         /\ MakeKey(n, s) \div SymbSize = n /\ MakeKey(n, s) % SymbSize = s
         /\ f[j] = Append(f[n], s) <=> j \in Children(t) /\ ParentKey(t, j) = MakeKey(n, s)
<1>. DEFINE key == ParentKey(t, j)
            p == Parent(t, j)
            x == Symb(t, j)
<1>1. Formed(t) /\ Spells(t, f) /\ Rooted(t, f) /\ t.size # 0
  BY DEF Sound
<1>2. /\ DOMAIN f = Nodes(t) /\ f[n] \in Seq(Symbols) /\ f[j] \in Seq(Symbols)
      /\ f[RootId] = <<>>
  BY <1>1 DEF Spells, Rooted
<1>3. t.capa \in Capas /\ n \in 0 .. t.capa-1
  BY <1>1, FormedFacts
<1>4. MakeKey(n, s) \in KeySpace(t.capa) /\ MakeKey(n, s) \div SymbSize = n /\ MakeKey(n, s) % SymbSize = s
  BY <1>3, ChildKey
<1>5. ASSUME j \in Children(t)
      PROVE  f[j] = Append(f[n], s) <=> key = MakeKey(n, s)
  <2>1. p \in Nodes(t) /\ f[j] = Append(f[p], x) /\ f[p] \in Seq(Symbols)
    BY <1>1, <1>2, <1>5 DEF Rooted, Spells
  <2>2. key \in KeySpace(t.capa) /\ p = key \div SymbSize /\ x = key % SymbSize
    BY <1>1, <1>5, ParentKeyFacts DEF Parent, Symb
  <2>. HIDE DEF key, p, x
  <2>3. x \in Symbols /\ MakeKey(p, x) = key
    BY <1>3, <2>2, KeyParts
  <2>4. Append(f[p], x) = Append(f[n], s) => p = n /\ x = s
    <3>1. Append(f[p], x) = Append(f[n], s) => f[p] = f[n] /\ x = s
      BY <1>2, <2>1, <2>3, AppendProperties
    <3>. QED  BY <1>1, <1>2, <2>1, <3>1 DEF Spells
  <2>5. key = MakeKey(n, s) => p = n /\ x = s
    BY <1>4, <2>2
  <2>. QED  BY <2>1, <2>3, <2>4, <2>5
<1>6. ASSUME j \notin Children(t) PROVE f[j] # Append(f[n], s)
  <2>1. j = RootId
    BY <1>6 DEF Nodes
  <2>2. Append(f[n], s) # <<>>
    BY <1>2, AppendProperties
  <2>. QED  BY <1>2, <2>1, <2>2
<1>. QED  BY <1>4, <1>5, <1>6

LEMMA SlotOfChild ==
  ASSUME NEW t, NEW f, Sound(t, f), t.size > 0,
         NEW n \in Nodes(t), NEW s \in Symbols, NEW j \in Nodes(t), f[j] = Append(f[n], s)
  PROVE  Slot(t, n, s) = j /\ j \notin Vacant(t)
<1>. DEFINE key == MakeKey(n, s)
<1>1. Formed(t) /\ Chained(t) /\ Spells(t, f) /\ DOMAIN f = Nodes(t)
  BY DEF Sound, Spells
<1>2. j \in Children(t) /\ ParentKey(t, j) = key
  BY KeyIsString
<1>3. ASSUME NEW k \in Children(t), ParentKey(t, k) = key PROVE k = j
  <2>1. k \in Nodes(t)
    BY DEF Nodes
  <2>2. f[k] = Append(f[n], s)
    BY <1>3, <2>1, KeyIsString
  <2>. QED  BY <1>1, <2>1, <2>2 DEF Spells
<1>. HIDE DEF key
<1>4. ProbeEnd(t.capa, ModOf(t, key), Vacant(t) \cup Matches(t, QuoOf(t, key), ModOf(t, key))) = j
  BY <1>1, <1>2, <1>3, FindsStored
<1>5. j \notin Vacant(t)
  BY <1>1, FormedFacts
<1>. QED  BY <1>4, <1>5 DEF Slot, Stops, key

LEMMA SlotOfNoChild ==
  ASSUME NEW t, NEW f, Sound(t, f), t.size > 0,
         NEW n \in Nodes(t), NEW s \in Symbols, \A j \in Nodes(t) : f[j] # Append(f[n], s)
  PROVE  FirstVacant(t, MakeKey(n, s), Slot(t, n, s))
<1>. DEFINE key == MakeKey(n, s)
            M == Matches(t, QuoOf(t, key), ModOf(t, key))
            S == Vacant(t) \cup M
<1>1. Formed(t) /\ Counted(t) /\ RootId \in Nodes(t)
  BY DEF Sound, Nodes
<1>2. key \in KeySpace(t.capa) /\ \A j \in Children(t) : ParentKey(t, j) # key
  <2>1. key \in KeySpace(t.capa)
    BY <1>1, KeyIsString
  <2>2. ASSUME NEW j \in Children(t) PROVE ParentKey(t, j) # key
    <3>1. j \in Nodes(t)
      BY DEF Nodes
    <3>. QED  BY <3>1, KeyIsString
  <2>. QED  BY <2>1, <2>2
<1>. HIDE DEF key
<1>3. M = {}
  <2>1. M \subseteq Children(t)
    BY DEF Matches
  <2>2. \A j \in Children(t) : j \notin M
    BY <1>1, <1>2, MatchesAreEqual
  <2>. QED  BY <2>1, <2>2
<1>. HIDE DEF M
<1>4. S \subseteq Slots(t) /\ Vacant(t) \subseteq S /\ S \cap Nodes(t) = {} /\ Vacant(t) # {}
  BY <1>1, <1>3, FormedFacts, SpareSlot
<1>. HIDE DEF S
<1>5. FirstVacant(t, key, ProbeEnd(t.capa, ModOf(t, key), S))
  BY <1>1, <1>2, <1>4, FindsVacant
<1>. QED  BY <1>5 DEF Slot, Stops, S, M, key

\* add_child for a child that is there: it hands out its id and changes
\* nothing.
LEMMA AddChildFinds ==
  ASSUME NEW t, NEW f, Sound(t, f), t.size > 0,
         NEW n \in Nodes(t), NEW s \in Symbols,
         NEW j \in Nodes(t), f[j] = Append(f[n], s)
  PROVE  AddChild(t, n, s) = [trie |-> t, node |-> j, added |-> FALSE]
<1>1. Slot(t, n, s) = j /\ j \notin Vacant(t)
  BY SlotOfChild
<1>. QED  BY <1>1 DEF AddChild

\* add_child for a new child on a table at its load limit: it refuses, and
\* changes nothing.
LEMMA AddChildRefuses ==
  ASSUME NEW t, NEW f, Sound(t, f), t.size > 0, t.size = MaxSizeOf(t.capa),
         NEW n \in Nodes(t), NEW s \in Symbols,
         \A j \in Nodes(t) : f[j] # Append(f[n], s)
  PROVE  AddChild(t, n, s) = [trie |-> t, node |-> n, added |-> FALSE]
<1>1. Slot(t, n, s) \in Vacant(t)
  BY SlotOfNoChild DEF FirstVacant
<1>. QED  BY <1>1 DEF AddChild

\* What add_child does for a new child: it is stored in a free slot, the table
\* stays sound and no other node moves.
Grown(t, f, n, s, r) ==
  /\ r.added
  /\ r.node \in Vacant(t) /\ r.node \notin Nodes(t) /\ r.node \in Slots(t)
  /\ r.trie.size = t.size + 1 /\ r.trie.capa = t.capa
  /\ Nodes(r.trie) = Nodes(t) \cup {r.node}
  /\ Sound(r.trie, Named(f, r, n, s))

LEMMA AddChildAdds ==
  ASSUME NEW t, NEW f, Sound(t, f), t.size > 0, t.size # MaxSizeOf(t.capa),
         NEW n \in Nodes(t), NEW s \in Symbols,
         \A j \in Nodes(t) : f[j] # Append(f[n], s),
         NEW r, r = AddChild(t, n, s)
  PROVE  Grown(t, f, n, s, r)
<1>. DEFINE key == MakeKey(n, s)
            i == Slot(t, n, s)
            u == r.trie
            g == Named(f, r, n, s)
            par(k) == k \div SymbSize
            sym(k) == k % SymbSize
<1>1. Formed(t) /\ Spells(t, f) /\ Chained(t) /\ Rooted(t, f) /\ Counted(t)
  BY DEF Sound
<1>2. /\ t.capa \in Capas /\ t.capa \in Nat \ {0} /\ Slots(t) = 0 .. t.capa-1
      /\ RootId \in Slots(t) /\ RootId \in Nodes(t)
      /\ Nodes(t) \cup Vacant(t) = Slots(t) /\ Nodes(t) \cap Vacant(t) = {}
      /\ Nodes(t) = Children(t) \cup {RootId} /\ RootId \notin Children(t)
      /\ t.size \in Nat
  BY <1>1, FormedFacts DEF Formed, IsTable
<1>3. key \in KeySpace(t.capa) /\ par(key) = n /\ sym(key) = s
  BY <1>2, KeyIsString
<1>4. FirstVacant(t, key, i)
  BY SlotOfNoChild
<1>5. i \in Vacant(t) /\ i \in Slots(t) /\ i \notin Nodes(t)
  BY <1>2, <1>4 DEF FirstVacant
<1>6. /\ u = [UpdateSlot(t, i, QuoOf(t, key), Dist(t, ModOf(t, key), i) + 1) EXCEPT !.size = @ + 1]
      /\ r.node = i /\ r.added
  BY <1>5 DEF AddChild
<1>. HIDE DEF key, i, u
<1>7. PutIn(t, key, i, u)
  BY <1>1, <1>3, <1>5, <1>6, PutStores
<1>8. /\ Formed(u)
      /\ u.capa = t.capa /\ u.size = t.size + 1
      /\ Children(u) = Children(t) \cup {i} /\ Vacant(u) = Vacant(t) \ {i}
      /\ ParentKey(u, i) = key
      /\ GetDsp(u, i) = Dist(t, ModOf(t, key), i) + 1
      /\ \A j \in Children(t) : ParentKey(u, j) = ParentKey(t, j) /\ GetDsp(u, j) = GetDsp(t, j)
  BY <1>7 DEF PutIn
<1>9. Nodes(u) = Nodes(t) \cup {i}
  BY <1>8 DEF Nodes
<1>10. DOMAIN f = Nodes(t) /\ f[RootId] = <<>>
  BY <1>1 DEF Spells, Rooted
<1>11. g = [j \in Nodes(t) \cup {i} |-> IF j = i THEN Append(f[n], s) ELSE f[j]]
  BY <1>6, <1>10 DEF Named, Extended
<1>. HIDE DEF g
<1>12. /\ DOMAIN g = Nodes(u) /\ g[i] = Append(f[n], s)
       /\ \A j \in Nodes(t) : g[j] = f[j]
  BY <1>5, <1>9, <1>11
<1>13. Spells(u, g)
  <2>1. u.size # 0 /\ DOMAIN g = Nodes(u)
    BY <1>2, <1>8, <1>12
  <2>2. ASSUME NEW j \in DOMAIN g PROVE g[j] \in Seq(Symbols)
    <3>1. f[n] \in Seq(Symbols) /\ Append(f[n], s) \in Seq(Symbols)
      BY <1>1, <1>10, AppendProperties DEF Spells
    <3>. QED  BY <1>1, <1>9, <1>10, <1>12, <3>1 DEF Spells
  <2>3. ASSUME NEW j \in DOMAIN g, NEW k \in DOMAIN g, g[j] = g[k] PROVE j = k
    BY <1>1, <1>9, <1>10, <1>12, <2>3 DEF Spells
  <2>. QED  BY <2>1, <2>2, <2>3 DEF Spells
<1>14. Chained(u)
  <2>1. \A k : ModOf(u, k) = ModOf(t, k)
    BY <1>8 DEF ModOf
  <2>2. ASSUME NEW j \in Children(t), NEW d \in 0 .. GetDsp(u, j) - 2
        PROVE  At(u.capa, ModOf(u, ParentKey(u, j)), d) \notin Vacant(u)
    BY <1>1, <1>8, <2>1 DEF Chained
  <2>3. ASSUME NEW d \in 0 .. GetDsp(u, i) - 2
        PROVE  At(u.capa, ModOf(u, ParentKey(u, i)), d) \notin Vacant(u)
    <3>. DEFINE h == ModOf(t, key)
    <3>1. PICK e \in Slots(t) :
            /\ At(t.capa, h, e) = i
            /\ \A x \in 0 .. e-1 : At(t.capa, h, x) \notin Vacant(t)
      BY <1>4 DEF FirstVacant
    <3>2. e = Dist(t, h, i)
      <4>1. h \in Slots(t)
        BY <1>2, <1>3, KeySplits
      <4>. HIDE DEF h
      <4>. QED  BY <1>2, <1>5, <3>1, <4>1, DistUnique
    <3>3. d \in 0 .. e-1
      <4>1. e \in Nat
        BY <1>2
      <4>2. GetDsp(u, i) = e + 1
        BY <1>8, <3>2
      <4>. QED  BY <4>1, <4>2
    <3>. QED  BY <1>8, <2>1, <3>1, <3>3
  <2>. QED  BY <1>8, <2>2, <2>3 DEF Chained
<1>15. Rooted(u, g)
  <2>1. g[RootId] = <<>>
    BY <1>2, <1>10, <1>12
  <2>2. ASSUME NEW j \in Children(t)
        PROVE  /\ par(ParentKey(t, j)) \in Nodes(t)
               /\ f[j] = Append(f[par(ParentKey(t, j))], sym(ParentKey(t, j)))
    BY <1>1 DEF Rooted, Parent, Symb
  <2>. HIDE DEF par, sym
  <2>3. ASSUME NEW j \in Children(u)
        PROVE  /\ par(ParentKey(u, j)) \in Nodes(u)
               /\ g[j] = Append(g[par(ParentKey(u, j))], sym(ParentKey(u, j)))
    <3>1. CASE j = i
      BY <1>3, <1>8, <1>9, <1>12, <3>1
    <3>2. CASE j # i
      <4>1. j \in Children(t) /\ j \in Nodes(t) /\ ParentKey(u, j) = ParentKey(t, j)
        BY <1>2, <1>8, <3>2
      <4>. QED  BY <1>9, <1>12, <2>2, <4>1
    <3>. QED  BY <3>1, <3>2
  <2>. QED  BY <2>1, <2>3 DEF Rooted, Parent, Symb, par, sym
<1>16. Counted(u)
  <2>1. IsFiniteSet(Nodes(t)) /\ t.size # 0
    BY <1>1, SpareSlot
  <2>2. Cardinality(Nodes(u)) = Cardinality(Nodes(t)) + 1
    BY <1>5, <1>9, <2>1, FS_AddElement
  <2>3. t.size = Cardinality(Nodes(t)) /\ t.size <= MaxSizeOf(t.capa) /\ MaxSizeOf(t.capa) \in Nat
    BY <1>1, <1>2, <2>1, CapaFacts DEF Counted
  <2>4. t.size + 1 <= MaxSizeOf(t.capa)
    BY <1>2, <2>3
  <2>5. u.size = t.size + 1 /\ u.capa = t.capa /\ u.size # 0
    BY <1>2, <1>8
  <2>. QED  BY <2>2, <2>3, <2>4, <2>5 DEF Counted
<1>. QED  BY <1>5, <1>6, <1>8, <1>9, <1>13, <1>14, <1>15, <1>16 DEF Grown, Sound, g, u

\* The table the constructor and add_root make.
LEMMA NewTrieSound ==
  ASSUME NEW c \in Capas \cup {0}
  PROVE  /\ Sound(NewTrie(c), NoStrings)
         /\ NewTrie(c).size = 0
         /\ NewTrie(c).capa = IF c = 0 THEN MinCapa ELSE c
<1>. DEFINE m == IF c < MinCapa THEN MinCapa ELSE c
            t == NewTrie(c)
<1>1. m \in Capas /\ m = IF c = 0 THEN MinCapa ELSE c
  <2>1. MinCapa \in Capas /\ Capas \subseteq Nat /\ \A x \in Capas : x >= MinCapa
    BY DisplacementAssumption
  <2>2. MinCapa # 0
    BY <2>1, CapaFacts
  <2>. QED  BY <2>1, <2>2
<1>2. t = [table |-> [i \in 0 .. m-1 |-> 0], cht |-> NoDsps, map |-> NoDsps, size |-> 0, capa |-> m]
  BY DEF NewTrie
<1>. HIDE DEF m, t
<1>3. Slots(t) = 0 .. m-1 /\ t.table = [i \in 0 .. m-1 |-> 0] /\ t.cht = NoDsps /\ t.map = NoDsps
      /\ t.size = 0 /\ t.capa = m /\ RootId \in Slots(t)
  <2>1. RootId \in 0 .. m-1
    BY <1>1, CapaFacts DEF RootId
  <2>. QED  BY <1>2, <2>1 DEF Slots
<1>4. Dsp1Mask \in Nat \ {0} /\ LowSize \in Nat \ {0} /\ Dsp1Size \in Nat \ {0}
  BY DisplacementAssumption DEF LowSize, Dsp1Size
<1>5. Vacant(t) = Slots(t) \ {RootId}
  <2>1. \A i \in Slots(t) : Dsp1(t, i) = 0
    BY <1>3, <1>4 DEF Dsp1
  <2>2. \A i \in Slots(t) : CompareDsp(t, i, 0)
    BY <1>4, <2>1 DEF CompareDsp
  <2>. QED  BY <2>2 DEF Vacant
<1>6. Children(t) = {}
  BY <1>5 DEF Children
<1>7. Formed(t)
  <2>1. IsTable(t)
    BY <1>3, <1>4 DEF IsTable
  <2>2. AuxComplete(t, Children(t))
    BY <1>3, <1>6 DEF AuxComplete, NoDsps
  <2>. QED  BY <1>1, <1>2, <1>3, <1>6, <2>1, <2>2 DEF Formed
<1>8. Spells(t, NoStrings)
  BY <1>3 DEF Spells, NoStrings
<1>9. Chained(t) /\ Rooted(t, NoStrings)
  BY <1>3, <1>6 DEF Chained, Rooted
<1>10. Counted(t)
  BY <1>1, <1>3, <1>6, CapaFacts DEF Counted
<1>. QED  BY <1>1, <1>3, <1>7, <1>8, <1>9, <1>10 DEF Sound, t

LEMMA AddRootSound ==
  ASSUME NEW t, NEW f, Sound(t, f), t.size = 0
  PROVE  /\ Sound(AddRoot(t), RootString)
         /\ AddRoot(t).size = 1 /\ AddRoot(t).capa = t.capa
         /\ Nodes(AddRoot(t)) = {RootId}
<1>. DEFINE u == AddRoot(t)
<1>1. Formed(t) /\ Counted(t) /\ Children(t) = {}
  BY DEF Sound, Counted
<1>2. /\ DOMAIN u = DOMAIN t /\ u.table = t.table /\ u.cht = t.cht /\ u.map = t.map
      /\ u.size = 1 /\ u.capa = t.capa
  BY <1>1 DEF Formed, AddRoot
<1>. HIDE DEF u
<1>3. Children(u) = {} /\ Nodes(u) = {RootId} /\ Slots(u) = Slots(t)
  <2>1. Slots(u) = Slots(t) /\ \A i : CompareDsp(u, i, 0) <=> CompareDsp(t, i, 0)
    BY <1>2 DEF Slots, CompareDsp, Dsp1
  <2>2. Children(u) = {}
    BY <1>1, <2>1 DEF Children, Vacant
  <2>. QED  BY <2>1, <2>2 DEF Nodes
<1>4. Formed(u)
  <2>1. IsTable(u)
    BY <1>1, <1>2, <1>3 DEF Formed, IsTable
  <2>2. AuxComplete(u, Children(u))
    BY <1>1, <1>2, <1>3 DEF Formed, AuxComplete
  <2>. QED  BY <1>1, <1>2, <1>3, <2>1, <2>2 DEF Formed
<1>5. Spells(u, RootString)
  <2>1. DOMAIN RootString = {RootId} /\ RootString[RootId] = <<>>
    BY DEF RootString
  <2>2. <<>> \in Seq(Symbols)
    OBVIOUS
  <2>. QED  BY <1>2, <1>3, <2>1, <2>2 DEF Spells
<1>6. Chained(u) /\ Rooted(u, RootString)
  BY <1>3 DEF Chained, Rooted, RootString
<1>7. Counted(u)
  <2>1. Cardinality({RootId}) = 1
    BY FS_Singleton
  <2>2. MaxSizeOf(t.capa) \in Nat /\ MaxSizeOf(t.capa) >= 2
    BY <1>1, CapaFacts DEF Formed
  <2>. QED  BY <1>2, <1>3, <2>1, <2>2 DEF Counted
<1>. QED  BY <1>2, <1>3, <1>4, <1>5, <1>6, <1>7 DEF Sound, u

----------------------------------------------------------------------------
(* The actions. *)

LEMMA InitInv == Init => IndInv
<1>1. Sound(NewTrie(0), NoStrings)
  BY NewTrieSound
<1>. QED  BY <1>1 DEF Init, IndInv

LEMMA InsertRootInv == IndInv /\ InsertRoot => IndInv'
<1>1. SUFFICES ASSUME IndInv, InsertRoot PROVE IndInv'
  OBVIOUS
<1>2. Sound(ht, str) /\ ht.size = 0
  BY <1>1 DEF IndInv, InsertRoot
<1>3. Sound(AddRoot(ht), RootString)
  BY <1>2, AddRootSound
<1>. QED  BY <1>1, <1>3 DEF IndInv, InsertRoot, expandVars

LEMMA InsertChildInv ==
  ASSUME IndInv, NEW n \in Nodes(ht), NEW s \in Symbols, InsertChild(n, s)
  PROVE  IndInv'
<1>. DEFINE r == AddChild(ht, n, s)
<1>1. /\ phase = "ready" /\ Sound(ht, str) /\ ht.size > 0
      /\ ht' = r.trie /\ str' = Named(str, r, n, s)
      /\ UNCHANGED <<phase, expandVars>>
  BY DEF IndInv, InsertChild
<1>2. Sound(ht', str')
  <2>1. CASE \E j \in Nodes(ht) : str[j] = Append(str[n], s)
    <3>1. PICK j \in Nodes(ht) : str[j] = Append(str[n], s)
      BY <2>1
    <3>2. r = [trie |-> ht, node |-> j, added |-> FALSE]
      BY <1>1, <3>1, AddChildFinds
    <3>. HIDE DEF r
    <3>. QED  BY <1>1, <3>2 DEF Named
  <2>2. CASE /\ \A j \in Nodes(ht) : str[j] # Append(str[n], s)
             /\ ht.size = MaxSizeOf(ht.capa)
    <3>1. r = [trie |-> ht, node |-> n, added |-> FALSE]
      BY <1>1, <2>2, AddChildRefuses
    <3>. HIDE DEF r
    <3>. QED  BY <1>1, <3>1 DEF Named
  <2>3. CASE /\ \A j \in Nodes(ht) : str[j] # Append(str[n], s)
             /\ ht.size # MaxSizeOf(ht.capa)
    <3>1. Grown(ht, str, n, s, r)
      BY <1>1, <2>3, AddChildAdds
    <3>. QED  BY <1>1, <3>1 DEF Grown
  <2>. QED  BY <2>1, <2>2, <2>3
<1>. QED  BY <1>1, <1>2 DEF IndInv, expandVars

LEMMA ReadingFacts ==
  ASSUME Reading
  PROVE  /\ ht.capa \in Nat \ {0} /\ Slots(ht) = 0 .. ht.capa-1
         /\ DOMAIN str \subseteq 0 .. ht.capa-1
         /\ IsFiniteSet(DOMAIN str)
<1>1. ht.capa \in Nat \ {0} /\ Slots(ht) = 0 .. ht.capa-1
  BY CapaFacts DEF Reading, Slots
<1>2. DOMAIN str \subseteq 0 .. ht.capa-1
  BY <1>1 DEF Reading
<1>3. IsFiniteSet(0 .. ht.capa-1)
  <2>. DEFINE x == ht.capa - 1
  <2>1. x \in Int /\ 0 \in Int
    BY <1>1
  <2>. HIDE DEF x
  <2>2. IsFiniteSet(0 .. x)
    BY <2>1, FS_Interval
  <2>. QED  BY <2>2 DEF x
<1>. QED  BY <1>1, <1>2, <1>3, FS_Subset

LEMMA BeginExpandInv == IndInv /\ BeginExpand => IndInv'
<1>1. SUFFICES ASSUME IndInv, BeginExpand PROVE IndInv'
  OBVIOUS
<1>2. /\ Sound(ht, str) /\ ht.size > 0
      /\ path = <<>> /\ node_id = 0 /\ cur = 0
  BY <1>1 DEF IndInv, BeginExpand
<1>3. /\ phase' = "scan" /\ done' = {RootId} /\ pos' = 1
      /\ new_ht' = AddRoot(NewTrie(2 * ht.capa)) /\ new_str' = RootString
      /\ map_high' = IF Split(ht) THEN [i \in Slots(ht) |-> 0] ELSE <<>>
      /\ UNCHANGED <<ht, node_id, path, cur, str>>
      /\ 2 * ht.capa \in Capas
  BY <1>1 DEF BeginExpand
<1>4. Formed(ht) /\ Spells(ht, str) /\ Rooted(ht, str) /\ Counted(ht)
  BY <1>2 DEF Sound
<1>5. /\ ht.capa \in Capas /\ ht.capa \in Nat \ {0} /\ ht.capa >= 3 /\ Slots(ht) = 0 .. ht.capa-1
      /\ RootId \in Slots(ht) /\ RootId \in Nodes(ht)
      /\ Nodes(ht) \cup Vacant(ht) = Slots(ht) /\ Nodes(ht) \cap Vacant(ht) = {}
      /\ Nodes(ht) = Children(ht) \cup {RootId} /\ RootId \notin Children(ht)
  BY <1>4, FormedFacts
<1>6. LowSize \in Nat \ {0}
  BY DisplacementAssumption DEF LowSize, Dsp1Size
<1>7. /\ Sound(new_ht', new_str') /\ new_ht'.size = 1 /\ new_ht'.capa = 2 * ht.capa
      /\ Nodes(new_ht') = {RootId}
  <2>. DEFINE t == NewTrie(2 * ht.capa)
  <2>1. 2 * ht.capa \in Capas \cup {0} /\ 2 * ht.capa # 0
    BY <1>3, <1>5
  <2>2. Sound(t, NoStrings) /\ t.size = 0 /\ t.capa = 2 * ht.capa
    BY <2>1, NewTrieSound
  <2>. HIDE DEF t
  <2>. QED  BY <1>3, <2>2, AddRootSound DEF t
<1>8. DOMAIN str = Nodes(ht) /\ str[RootId] = <<>>
  BY <1>2, <1>4 DEF Spells, Rooted
<1>9. DOMAIN new_str' = {RootId} /\ new_str'[RootId] = <<>>
  BY <1>3 DEF RootString
<1>10. Reading'
  <2>1. ht.table \in [Slots(ht) -> Nat] /\ IsTable(ht)
    BY <1>4, <1>6 DEF Formed, IsTable
  <2>2. ht.size = Cardinality(DOMAIN str) /\ ht.size <= MaxSizeOf(ht.capa)
    BY <1>2, <1>4, <1>8 DEF Counted
  <2>3. \A i \in Slots(ht) \ {RootId} : i \in DOMAIN str <=> ~CompareDsp(ht, i, 0)
    BY <1>5, <1>8 DEF Children, Vacant
  <2>4. Split(ht) => map_high' \in [Slots(ht) -> Nat]
    BY <1>3
  <2>5. DOMAIN str \subseteq Slots(ht) /\ RootId \in DOMAIN str
    BY <1>5, <1>8
  <2>. QED  BY <1>3, <1>4, <1>5, <1>8, <2>1, <2>2, <2>3, <2>4, <2>5 DEF Reading, Formed, Spells
<1>11. NodeMapSound'
  <2>1. SUFFICES ASSUME NEW j \in Nodes(ht)
                 PROVE  IF j \in done'
                        THEN Mapped(j)' \in DOMAIN new_str' /\ new_str'[Mapped(j)'] = str[j]
                        ELSE /\ Parent(ht, j) \in DOMAIN str
                             /\ str[j] = Append(str[Parent(ht, j)], Symb(ht, j))
    BY <1>3, <1>5, <1>8 DEF NodeMapSound
  <2>2. CASE j = RootId
    <3>1. Mapped(RootId)' = RootId
      <4>1. ht'.table[RootId] = 0 /\ (Split(ht') => map_high'[RootId] = 0)
        BY <1>3, <1>4, <1>5 DEF Formed
      <4>. QED  BY <1>6, <4>1 DEF Mapped, RootId
    <3>. QED  BY <1>3, <1>8, <1>9, <2>2, <3>1
  <2>3. CASE j # RootId
    <3>1. j \in Children(ht) /\ j \notin done'
      BY <1>3, <1>5, <2>3
    <3>. QED  BY <1>4, <1>8, <3>1 DEF Rooted
  <2>. QED  BY <2>2, <2>3
<1>12. Moving'
  <2>1. Cardinality(done') = 1
    BY <1>3, FS_Singleton
  <2>2. {new_str'[j] : j \in DOMAIN new_str'} = {str'[i] : i \in done'}
    BY <1>3, <1>8, <1>9
  <2>3. \A i \in DOMAIN str : i < 1 => i \in {RootId}
    BY <1>5, <1>8 DEF RootId
  <2>4. 1 \in 1 .. ht.capa /\ 0 \in Slots(ht)
    BY <1>5
  <2>5. 0 \in Slots(new_ht')
    <3>1. Formed(new_ht')
      BY <1>7 DEF Sound
    <3>. QED  BY <3>1, FormedFacts DEF RootId
  <2>. QED  BY <1>2, <1>3, <1>7, <1>10, <1>11, <2>1, <2>2, <2>3, <2>4, <2>5 DEF Moving
<1>. QED  BY <1>2, <1>3, <1>12 DEF IndInv

\* What the loops of expand leave alone keeps the invariant of the move.
LEMMA MovingKept ==
  ASSUME Moving, phase # "ready", phase' # "ready", UNCHANGED <<ht, done, map_high, new_ht, str, new_str>>,
         pos' \in 1 .. ht.capa, \A i \in DOMAIN str : i < pos' => i \in done,
         node_id' \in Slots(ht), cur' \in Slots(new_ht)
  PROVE  Moving'
<1>1. Split(ht') = Split(ht) /\ \A i : Mapped(i)' = Mapped(i)
  BY DEF Split, Mapped
<1>2. Reading'
  BY DEF Moving, Reading
<1>3. NodeMapSound'
  BY <1>1 DEF Moving, NodeMapSound
<1>. QED  BY <1>2, <1>3 DEF Moving

LEMMA SkipInv == IndInv /\ Skip => IndInv'
<1>1. SUFFICES ASSUME IndInv, Skip PROVE IndInv'
  OBVIOUS
<1>2. Moving /\ phase = "scan" /\ phase' = "scan" /\ path = <<>>
  BY <1>1 DEF IndInv, Skip
<1>3. /\ pos < ht.capa /\ pos' = pos + 1
      /\ pos \in done \/ CompareDsp(ht, pos, 0)
      /\ UNCHANGED <<ht, phase, node_id, path, cur, done, map_high, new_ht, str, new_str>>
  BY <1>1 DEF Skip
<1>4. /\ ht.capa \in Nat \ {0} /\ Slots(ht) = 0 .. ht.capa-1 /\ DOMAIN str \subseteq 0 .. ht.capa-1
      /\ pos \in 1 .. ht.capa
  BY <1>2, ReadingFacts DEF Moving
<1>5. pos' \in 1 .. ht.capa /\ pos \in Slots(ht)
  BY <1>3, <1>4
<1>6. \A i \in DOMAIN str : i < pos' => i \in done
  <2>1. pos \in DOMAIN str => pos \in done
    BY <1>2, <1>3, <1>5 DEF Moving, Reading
  <2>2. \A i \in DOMAIN str : i < pos => i \in done
    BY <1>2 DEF Moving
  <2>. QED  BY <1>3, <1>4, <2>1, <2>2
<1>7. Moving'
  <2>1. node_id' \in Slots(ht) /\ cur' \in Slots(new_ht)
    BY <1>2, <1>3 DEF Moving
  <2>. QED  BY <1>2, <1>3, <1>5, <1>6, <2>1, MovingKept
<1>. QED  BY <1>2, <1>3, <1>7 DEF IndInv

LEMMA BeginPathInv == IndInv /\ BeginPath => IndInv'
<1>1. SUFFICES ASSUME IndInv, BeginPath PROVE IndInv'
  OBVIOUS
<1>2. Moving /\ phase = "scan"
  BY <1>1 DEF IndInv, BeginPath
<1>3. /\ pos < ht.capa /\ pos \notin done /\ ~CompareDsp(ht, pos, 0)
      /\ phase' = "climb" /\ path' = <<>> /\ node_id' = pos
      /\ UNCHANGED <<ht, pos, cur, done, map_high, new_ht, str, new_str>>
  BY <1>1 DEF BeginPath
<1>4. pos \in Slots(ht) /\ pos \in DOMAIN str \ done
  <2>1. pos \in Slots(ht)
    <3>1. ht.capa \in Nat \ {0} /\ Slots(ht) = 0 .. ht.capa-1 /\ pos \in 1 .. ht.capa
      BY <1>2, ReadingFacts DEF Moving
    <3>. QED  BY <1>3, <3>1
  <2>. QED  BY <1>2, <1>3, <2>1 DEF Moving, Reading
<1>5. Moving'
  <2>1. cur' \in Slots(new_ht) /\ pos' \in 1 .. ht.capa /\ node_id' \in Slots(ht)
        /\ \A i \in DOMAIN str : i < pos' => i \in done
    BY <1>2, <1>3, <1>4 DEF Moving
  <2>. QED  BY <1>2, <1>3, <2>1, MovingKept
<1>6. OnPath'
  BY <1>3 DEF OnPath
<1>. QED  BY <1>3, <1>4, <1>5, <1>6 DEF IndInv

\* A node not yet moved: what the climb reads in its slot.
LEMMA NotYetMoved ==
  ASSUME Moving, phase # "ready", NEW i \in DOMAIN str \ done
  PROVE  /\ Parent(ht, i) \in DOMAIN str /\ str[i] = Append(str[Parent(ht, i)], Symb(ht, i))
         /\ Symb(ht, i) \in Symbols
         /\ Len(str[Parent(ht, i)]) \in Nat /\ Len(str[i]) = Len(str[Parent(ht, i)]) + 1
<1>. DEFINE v == str[Parent(ht, i)]
            x == Symb(ht, i)
            S == Symbols \cup {x}
<1>1. Parent(ht, i) \in DOMAIN str /\ str[i] = Append(v, x)
  BY DEF Moving, NodeMapSound
<1>2. str[i] \in Seq(Symbols) /\ v \in Seq(Symbols)
  BY <1>1 DEF Moving, Reading
<1>3. Symbols \subseteq S /\ x \in S
  OBVIOUS
<1>. HIDE DEF v, x, S
<1>4. v \in Seq(S)
  BY <1>2, <1>3, SeqMonotonic
<1>5. Len(v) \in Nat /\ Len(Append(v, x)) = Len(v) + 1 /\ Append(v, x)[Len(v) + 1] = x
  BY <1>3, <1>4, AppendProperties, LenProperties
<1>6. str[i][Len(v) + 1] \in Symbols
  <2>1. Len(str[i]) = Len(v) + 1 /\ str[i] \in [1 .. Len(str[i]) -> Symbols]
    BY <1>1, <1>2, <1>5, LenProperties
  <2>2. Len(v) + 1 \in 1 .. Len(str[i])
    BY <1>5, <2>1
  <2>. QED  BY <2>1, <2>2
<1>. QED  BY <1>1, <1>5, <1>6 DEF v, x

LEMMA ClimbInv == IndInv /\ Climb => IndInv'
<1>. DEFINE Step == [node : DOMAIN str \ done, label : Symbols]
            top == [node |-> node_id, label |-> Symb(ht, node_id)]
            up == Parent(ht, node_id)
            L == Len(path)
<1>1. SUFFICES ASSUME IndInv, Climb PROVE IndInv'
  OBVIOUS
<1>2. /\ Moving /\ phase = "climb" /\ OnPath
      /\ node_id \in DOMAIN str \ done
      /\ path = <<>> => node_id = pos
      /\ \A k \in DOMAIN path : Len(str[path[k].node]) > Len(str[node_id])
  BY <1>1 DEF IndInv, Climb
<1>3. /\ path' = Append(path, top) /\ node_id' = up
      /\ UNCHANGED <<ht, pos, done, map_high, new_ht, str, new_str>>
      /\ IF up \in done THEN phase' = "graft" /\ cur' = Mapped(up)
                        ELSE phase' = "climb" /\ cur' = cur
  BY <1>1, <1>2 DEF Climb
<1>5. /\ up \in DOMAIN str /\ str[node_id] = Append(str[up], Symb(ht, node_id))
      /\ Symb(ht, node_id) \in Symbols
      /\ Len(str[up]) \in Nat /\ Len(str[node_id]) = Len(str[up]) + 1
  BY <1>2, NotYetMoved
<1>6. top \in Step
  BY <1>2, <1>5
<1>7. path \in Seq(Step)
  BY <1>2 DEF OnPath
<1>8. /\ path' \in Seq(Step) /\ L \in Nat /\ Len(path') = L + 1
      /\ DOMAIN path = 1 .. L /\ DOMAIN path' = 1 .. L + 1
      /\ path'[L + 1] = top /\ \A k \in 1 .. L : path'[k] = path[k]
      /\ path \in [1 .. L -> Step]
  <2>. HIDE DEF Step, top
  <2>1. path' \in Seq(Step) /\ L \in Nat /\ Len(path') = L + 1
    BY <1>3, <1>6, <1>7, AppendProperties, LenProperties
  <2>2. DOMAIN path = 1 .. L /\ DOMAIN path' = 1 .. L + 1 /\ path \in [1 .. L -> Step]
    BY <1>7, <2>1, LenProperties
  <2>. QED  BY <1>3, <1>6, <1>7, <2>1, <2>2, AppendProperties
<1>9. up \in done => Mapped(up) \in Nodes(new_ht) /\ new_str[Mapped(up)] = str[up]
  <2>1. DOMAIN new_str \subseteq Nodes(new_ht)
    BY <1>2 DEF Moving, Sound, Spells
  <2>. QED  BY <1>2, <1>5, <2>1 DEF Moving, NodeMapSound
<1>10. Moving'
  <2>1. up \in Slots(ht)
    BY <1>2, <1>5 DEF Moving, Reading
  <2>2. Nodes(new_ht) \subseteq Slots(new_ht)
    BY <1>2, FormedFacts DEF Moving, Sound
  <2>3. cur' \in Slots(new_ht)
    BY <1>2, <1>3, <1>9, <2>2 DEF Moving
  <2>4. pos' \in 1 .. ht.capa /\ \A i \in DOMAIN str : i < pos' => i \in done
    BY <1>2, <1>3 DEF Moving
  <2>5. phase # "ready" /\ phase' # "ready"
    BY <1>2, <1>3
  <2>. QED  BY <1>2, <1>3, <2>1, <2>3, <2>4, <2>5, MovingKept
<1>11. Anchor' = str[up]
  BY <1>3, <1>9 DEF Anchor
<1>12. OnPath'
  <2>1. ASSUME NEW k \in 1 .. L + 1
        PROVE  str[path'[k].node] =
                 Append(IF k = L + 1 THEN str[up] ELSE str[path'[k+1].node], path'[k].label)
    <3>1. CASE k = L + 1
      BY <1>5, <1>8, <3>1
    <3>2. CASE k \in 1 .. L /\ k = L
      <4>1. str[path[k].node] = Append(Anchor, path[k].label)
        BY <1>2, <1>8, <3>2 DEF OnPath
      <4>2. Anchor = str[node_id]
        BY <1>2 DEF Anchor
      <4>3. k # L + 1 /\ path'[k] = path[k] /\ path'[k+1].node = node_id
        <5>1. L \in Nat /\ path'[L + 1] = top /\ path'[k] = path[k]
          BY <1>8, <3>2
        <5>2. k = L /\ k # L + 1
          BY <3>2, <5>1
        <5>3. path'[k+1] = top
          BY <5>1, <5>2
        <5>. QED  BY <5>1, <5>2, <5>3
      <4>. QED  BY <4>1, <4>2, <4>3
    <3>3. CASE k \in 1 .. L /\ k # L
      <4>1. str[path[k].node] = Append(str[path[k+1].node], path[k].label)
        BY <1>2, <1>8, <3>3 DEF OnPath
      <4>2. k # L + 1 /\ k + 1 \in 1 .. L
        <5>1. L \in Nat
          BY <1>8
        <5>. HIDE DEF L
        <5>. QED  BY <3>3, <5>1
      <4>3. path'[k] = path[k] /\ path'[k+1] = path[k+1]
        BY <1>8, <3>3, <4>2
      <4>. QED  BY <4>1, <4>2, <4>3
    <3>4. k = L + 1 \/ k \in 1 .. L
      BY <1>8
    <3>. QED  BY <3>1, <3>2, <3>3, <3>4
  <2>2. ASSUME NEW k \in 1 .. L + 1, NEW l \in 1 .. L + 1, k < l
        PROVE  Len(str[path'[k].node]) > Len(str[path'[l].node])
    <3>1. CASE l = L + 1
      BY <1>2, <1>8, <2>2, <3>1
    <3>2. CASE l \in 1 .. L
      <4>1. k \in 1 .. L /\ path'[k] = path[k] /\ path'[l] = path[l]
        BY <1>8, <2>2, <3>2
      <4>. QED  BY <1>2, <1>8, <2>2, <3>2, <4>1 DEF OnPath
    <3>. QED  BY <3>1, <3>2, <1>8
  <2>3. path'[1].node = pos
    <3>1. CASE L = 0
      BY <1>2, <1>7, <1>8, <3>1, EmptySeq
    <3>2. CASE L > 0
      BY <1>2, <1>7, <1>8, <3>2, EmptySeq DEF OnPath
    <3>. QED  BY <1>8, <3>1, <3>2
  <2>. QED  BY <1>3, <1>8, <1>11, <2>1, <2>2, <2>3 DEF OnPath
<1>13. path' # <<>>
  BY <1>8, EmptySeq
<1>14. CASE up \in done
  BY <1>3, <1>9, <1>10, <1>12, <1>13, <1>14 DEF IndInv
<1>15. CASE up \notin done
  <2>1. ASSUME NEW k \in 1 .. L + 1 PROVE Len(str[path'[k].node]) > Len(str[up])
    <3>1. CASE k = L + 1
      BY <1>5, <1>8, <3>1
    <3>2. CASE k \in 1 .. L
      <4>1. Len(str[path[k].node]) > Len(str[node_id]) /\ path'[k] = path[k]
        BY <1>2, <1>8, <3>2
      <4>2. path[k] \in Step
        <5>. HIDE DEF Step
        <5>. QED  BY <1>8, <3>2
      <4>3. str[path[k].node] \in Seq(Symbols)
        BY <1>2, <4>2 DEF Moving, Reading
      <4>4. Len(str[path[k].node]) \in Nat
        BY <4>3, LenProperties
      <4>. QED  BY <1>5, <4>1, <4>4
    <3>. QED  BY <1>8, <3>1, <3>2
  <2>2. up \in DOMAIN str \ done
    BY <1>5, <1>15
  <2>. QED  BY <1>3, <1>8, <1>10, <1>12, <1>13, <1>15, <2>1, <2>2 DEF IndInv
<1>. QED  BY <1>14, <1>15

LEMMA GrowthFacts ==
  ASSUME Moving, phase # "ready"
  PROVE  /\ new_ht.size > 0 /\ DOMAIN new_str = Nodes(new_ht) /\ IsFiniteSet(done)
         /\ done \subseteq DOMAIN str /\ Cardinality(done) \in Nat
         /\ ht.size \in Nat /\ MaxSizeOf(ht.capa) < MaxSizeOf(new_ht.capa)
         /\ MaxSizeOf(ht.capa) \in Nat /\ MaxSizeOf(new_ht.capa) \in Nat
         /\ new_ht.size <= ht.size
<1>1. IsFiniteSet(DOMAIN str) /\ done \subseteq DOMAIN str /\ RootId \in done
  BY ReadingFacts DEF Moving, NodeMapSound
<1>2. IsFiniteSet(done) /\ Cardinality(done) \in Nat /\ Cardinality(DOMAIN str) \in Nat
      /\ Cardinality(done) <= Cardinality(DOMAIN str)
  BY <1>1, FS_Subset, FS_CardinalityType
<1>3. new_ht.size = Cardinality(done) /\ ht.size = Cardinality(DOMAIN str)
  BY DEF Moving, Reading
<1>4. Cardinality(done) # 0
  BY <1>1, <1>2, FS_EmptySet
<1>5. new_ht.size > 0 /\ new_ht.size # 0
  BY <1>2, <1>3, <1>4
<1>6. DOMAIN new_str = Nodes(new_ht)
  BY <1>5 DEF Moving, Sound, Spells
<1>7. ht.capa \in Capas /\ 2 * ht.capa \in Capas /\ new_ht.capa = 2 * ht.capa
  BY DEF Moving, Reading
<1>8. MaxSizeOf(ht.capa) \in Nat /\ MaxSizeOf(new_ht.capa) \in Nat
      /\ MaxSizeOf(ht.capa) < MaxSizeOf(new_ht.capa)
  BY <1>7, CapaFacts
<1>. QED  BY <1>1, <1>2, <1>3, <1>5, <1>6, <1>8

\* The top of the path.
LEMMA PathTop ==
  ASSUME Moving, phase = "graft", OnPath, path # <<>>, NEW top, top = path[Len(path)]
  PROVE  /\ top.node \in DOMAIN str \ done /\ top.label \in Symbols
         /\ str[top.node] = Append(new_str[cur], top.label)
<1>. DEFINE Step == [node : DOMAIN str \ done, label : Symbols]
            L == Len(path)
<1>1. L \in DOMAIN path /\ path[L] \in Step
  <2>1. path \in Seq(Step)
    BY DEF OnPath
  <2>. HIDE DEF Step
  <2>2. L \in Nat \ {0} /\ path \in [1 .. L -> Step]
    BY <2>1, EmptySeq, LenProperties
  <2>. QED  BY <2>2
<1>2. str[path[L].node] = Append(Anchor, path[L].label)
  BY <1>1 DEF OnPath
<1>. QED  BY <1>1, <1>2 DEF Anchor

\* What re-inserting the top of the path does to the new table.
LEMMA GraftAdds ==
  ASSUME IndInv, Graft,
         NEW top, top = path[Len(path)],
         NEW r, r = AddChild(new_ht, cur, top.label)
  PROVE  Grown(new_ht, new_str, cur, top.label, r)
<1>1. /\ Moving /\ phase = "graft" /\ OnPath /\ path # <<>> /\ cur \in Nodes(new_ht)
  BY DEF IndInv, Graft
<1>2. /\ top.node \in DOMAIN str \ done /\ top.label \in Symbols
      /\ str[top.node] = Append(new_str[cur], top.label)
  BY <1>1, PathTop
<1>3. Sound(new_ht, new_str) /\ new_ht.size = Cardinality(done)
  BY <1>1 DEF Moving
<1>4. /\ new_ht.size > 0 /\ DOMAIN new_str = Nodes(new_ht)
      /\ done \subseteq DOMAIN str /\ new_ht.size \in Nat
      /\ ht.size \in Nat /\ MaxSizeOf(ht.capa) < MaxSizeOf(new_ht.capa)
      /\ MaxSizeOf(ht.capa) \in Nat /\ MaxSizeOf(new_ht.capa) \in Nat
      /\ new_ht.size <= ht.size
  BY <1>1, <1>3, GrowthFacts
<1>5. new_ht.size # MaxSizeOf(new_ht.capa)
  <2>1. ht.size <= MaxSizeOf(ht.capa)
    BY <1>1 DEF Moving, Reading
  <2>. QED  BY <1>4, <2>1
<1>6. ASSUME NEW j \in Nodes(new_ht) PROVE new_str[j] # Append(new_str[cur], top.label)
  <2>1. PICK i \in done : new_str[j] = str[i]
    BY <1>1, <1>4 DEF Moving
  <2>2. i # top.node /\ i \in DOMAIN str
    BY <1>2, <1>4, <2>1
  <2>. QED  BY <1>1, <1>2, <2>1, <2>2 DEF Moving, Reading
<1>. DEFINE a == top.label
<1>7. a \in Symbols /\ cur \in Nodes(new_ht) /\ r = AddChild(new_ht, cur, a)
      /\ \A j \in Nodes(new_ht) : new_str[j] # Append(new_str[cur], a)
  BY <1>1, <1>2, <1>6
<1>. HIDE DEF a
<1>8. Grown(new_ht, new_str, cur, a, r)
  BY <1>3, <1>4, <1>5, <1>7, AddChildAdds
<1>. QED  BY <1>8 DEF a

\* set_mapping writes what get_mapping reads back, in one part or in two, and
\* disturbs no other slot.
LEMMA SetMappingStores ==
  ASSUME Reading, NEW i \in Slots(ht), NEW v \in Nat, SetMapping(i, v)
  PROVE  /\ Mapped(i)' = v
         /\ \A j \in Slots(ht) \ {i} : Mapped(j)' = Mapped(j) /\ ht'.table[j] = ht.table[j]
         /\ DOMAIN ht' = DOMAIN ht /\ ht'.capa = ht.capa /\ ht'.size = ht.size
         /\ ht'.cht = ht.cht /\ ht'.map = ht.map
         /\ ht'.table \in [Slots(ht) -> Nat]
         /\ Split(ht) => IsTable(ht') /\ map_high' \in [Slots(ht) -> Nat]
<1>. DEFINE low == v % LowSize
            high == v \div LowSize
            cell == IF Split(ht) THEN low ELSE v
<1>1. LowSize \in Nat \ {0}
  BY DisplacementAssumption DEF LowSize, Dsp1Size
<1>2. low \in 0 .. LowSize-1 /\ low \in Nat /\ high \in Nat /\ low + LowSize * high = v
  BY <1>1
<1>3. /\ DOMAIN ht = {"table", "cht", "map", "size", "capa"}
      /\ ht.table \in [Slots(ht) -> Nat] /\ (Split(ht) => IsTable(ht))
      /\ Split(ht) => map_high \in [Slots(ht) -> Nat]
  BY DEF Reading
<1>4. /\ ht' = [ht EXCEPT !.table[i] = cell]
      /\ map_high' = IF Split(ht) THEN [map_high EXCEPT ![i] = high] ELSE map_high
  BY DEF SetMapping
<1>. HIDE DEF low, high, cell
<1>5. /\ DOMAIN ht' = DOMAIN ht /\ ht'.capa = ht.capa /\ ht'.size = ht.size
      /\ ht'.cht = ht.cht /\ ht'.map = ht.map /\ ht'.table = [ht.table EXCEPT ![i] = cell]
  BY <1>3, <1>4
<1>6. Split(ht') <=> Split(ht)
  BY <1>5 DEF Split
<1>7. cell \in Nat /\ (Split(ht) => cell = low)
  BY <1>2 DEF cell
<1>8. /\ ht'.table[i] = cell /\ \A j \in Slots(ht) \ {i} : ht'.table[j] = ht.table[j]
      /\ ht'.table \in [Slots(ht) -> Nat]
  BY <1>3, <1>5, <1>7
<1>9. Split(ht) => IsTable(ht')
  <2>1. SUFFICES ASSUME Split(ht) PROVE IsTable(ht')
    OBVIOUS
  <2>2. ht.table \in [Slots(ht) -> 0 .. LowSize-1] /\ ht.size \in Nat
    BY <1>3, <2>1 DEF IsTable
  <2>3. Slots(ht') = Slots(ht) /\ cell \in 0 .. LowSize-1
    BY <1>2, <1>5, <1>7, <2>1 DEF Slots
  <2>4. ht'.table \in [Slots(ht) -> 0 .. LowSize-1]
    BY <1>5, <2>2, <2>3
  <2>. QED  BY <1>5, <2>2, <2>3, <2>4 DEF IsTable
<1>10. /\ Split(ht) => /\ map_high' \in [Slots(ht) -> Nat] /\ map_high'[i] = high
                       /\ \A j \in Slots(ht) \ {i} : map_high'[j] = map_high[j]
  BY <1>2, <1>3, <1>4
<1>11. Mapped(i)' = v
  BY <1>2, <1>6, <1>7, <1>8, <1>10 DEF Mapped, cell
<1>12. \A j \in Slots(ht) \ {i} : Mapped(j)' = Mapped(j)
  BY <1>6, <1>8, <1>10 DEF Mapped
<1>. QED  BY <1>5, <1>8, <1>9, <1>10, <1>11, <1>12

\* Graft moves node i: its slot gets the number of its new slot, v.
LEMMA GraftMoves ==
  ASSUME IndInv, Graft, NEW i, i = path[Len(path)].node,
         NEW r, r = AddChild(new_ht, cur, path[Len(path)].label)
  PROVE  /\ Moving' /\ i \in DOMAIN str \ done
         /\ cur' \in Nodes(new_ht') /\ new_str'[cur'] = str[i]
<1>. DEFINE top == path[Len(path)]
            v == r.node
            g == Named(new_str, r, cur, top.label)
<1>1. /\ Moving /\ phase = "graft" /\ OnPath /\ path # <<>>
      /\ cur \in Nodes(new_ht)
  BY DEF IndInv, Graft
<1>2. /\ new_ht' = r.trie /\ new_str' = g /\ cur' = v
      /\ SetMapping(i, v)
      /\ done' = done \cup {i} /\ phase' # "ready"
      /\ UNCHANGED <<pos, node_id, str>>
  BY DEF Graft
<1>3. /\ i \in DOMAIN str \ done /\ top.label \in Symbols
      /\ str[i] = Append(new_str[cur], top.label)
  <2>1. /\ top.node \in DOMAIN str \ done /\ top.label \in Symbols
        /\ str[top.node] = Append(new_str[cur], top.label)
    <3>. HIDE DEF top
    <3>. QED  BY <1>1, PathTop DEF top
  <2>. QED  BY <2>1
<1>4. /\ r.added /\ v \in Slots(new_ht) /\ v \notin Nodes(new_ht)
      /\ r.trie.size = new_ht.size + 1 /\ r.trie.capa = new_ht.capa
      /\ Nodes(r.trie) = Nodes(new_ht) \cup {v}
      /\ Sound(r.trie, g)
  <2>1. Grown(new_ht, new_str, cur, top.label, r)
    BY GraftAdds
  <2>. QED  BY <2>1 DEF Grown
<1>5. /\ DOMAIN new_str = Nodes(new_ht) /\ IsFiniteSet(done) /\ done \subseteq DOMAIN str
      /\ new_ht.size = Cardinality(done)
  BY <1>1, GrowthFacts DEF Moving
<1>6. /\ Reading /\ NodeMapSound /\ Slots(ht) = 0 .. ht.capa-1
      /\ i \in Slots(ht) /\ v \in Nat
  <2>1. Reading /\ NodeMapSound /\ Formed(new_ht)
    BY <1>1 DEF Moving, Sound
  <2>2. v \in Nat
    BY <1>4, <2>1, FormedFacts
  <2>. QED  BY <1>3, <2>1, <2>2, ReadingFacts DEF Reading
<1>. HIDE DEF v, top
<1>7. /\ Mapped(i)' = v
      /\ \A j \in Slots(ht) \ {i} : Mapped(j)' = Mapped(j) /\ ht'.table[j] = ht.table[j]
      /\ DOMAIN ht' = DOMAIN ht /\ ht'.capa = ht.capa /\ ht'.size = ht.size
      /\ ht'.cht = ht.cht /\ ht'.map = ht.map
      /\ ht'.table \in [Slots(ht) -> Nat]
      /\ Split(ht) => IsTable(ht') /\ map_high' \in [Slots(ht) -> Nat]
  BY <1>2, <1>6, SetMappingStores
<1>8. /\ DOMAIN g = Nodes(new_ht) \cup {v} /\ g[v] = str[i]
      /\ \A j \in Nodes(new_ht) : g[j] = new_str[j]
  BY <1>3, <1>4, <1>5 DEF Named, Extended, v
<1>. HIDE DEF g
<1>9. /\ Slots(ht') = Slots(ht) /\ (Split(ht') <=> Split(ht))
      /\ \A j \in Slots(ht) \ {i} :
           /\ Parent(ht', j) = Parent(ht, j) /\ Symb(ht', j) = Symb(ht, j)
           /\ CompareDsp(ht', j, 0) <=> CompareDsp(ht, j, 0)
  <2>1. Slots(ht') = Slots(ht) /\ (Split(ht') <=> Split(ht))
    BY <1>7 DEF Slots, Split
  <2>2. ASSUME NEW j \in Slots(ht) \ {i}
        PROVE  /\ ParentKey(ht', j) = ParentKey(ht, j)
               /\ CompareDsp(ht', j, 0) <=> CompareDsp(ht, j, 0)
    <3>1. Quo(ht', j) = Quo(ht, j) /\ Dsp1(ht', j) = Dsp1(ht, j)
      BY <1>7 DEF Quo, Dsp1
    <3>2. GetDsp(ht', j) = GetDsp(ht, j)
      BY <1>7, <3>1 DEF GetDsp
    <3>. QED  BY <1>7, <3>1, <3>2 DEF ParentKey, KeyOf, CompareDsp
  <2>. QED  BY <2>1, <2>2 DEF Parent, Symb
<1>10. Reading'
  <2>1. \A j \in Slots(ht) \ done' : j \in DOMAIN str <=> ~CompareDsp(ht', j, 0)
    BY <1>2, <1>6, <1>9 DEF Reading
  <2>. QED  BY <1>2, <1>6, <1>7, <1>9, <2>1 DEF Reading
<1>11. NodeMapSound'
  <2>1. ASSUME NEW j \in DOMAIN str
        PROVE  IF j \in done'
               THEN Mapped(j)' \in DOMAIN g /\ g[Mapped(j)'] = str[j]
               ELSE Parent(ht', j) \in DOMAIN str /\ str[j] = Append(str[Parent(ht', j)], Symb(ht', j))
    <3>1. CASE j = i
      BY <1>2, <1>7, <1>8, <3>1
    <3>2. CASE j # i
      <4>1. j \in Slots(ht) \ {i} /\ (j \in done' <=> j \in done)
        BY <1>2, <1>6, <3>2 DEF Reading
      <4>2. Mapped(j)' = Mapped(j) /\ Parent(ht', j) = Parent(ht, j) /\ Symb(ht', j) = Symb(ht, j)
        BY <1>7, <1>9, <4>1
      <4>3. IF j \in done
            THEN Mapped(j) \in DOMAIN new_str /\ new_str[Mapped(j)] = str[j]
            ELSE Parent(ht, j) \in DOMAIN str /\ str[j] = Append(str[Parent(ht, j)], Symb(ht, j))
        BY <1>1, <1>6 DEF NodeMapSound
      <4>4. CASE j \in done
        BY <1>5, <1>8, <4>1, <4>2, <4>3, <4>4
      <4>5. CASE j \notin done
        BY <4>1, <4>2, <4>3, <4>5
      <4>. QED  BY <4>4, <4>5
    <3>. QED  BY <3>1, <3>2
  <2>2. done' \subseteq DOMAIN str
    BY <1>2, <1>3, <1>5
  <2>. QED  BY <1>2, <2>1, <2>2 DEF NodeMapSound
<1>12. new_ht'.size = Cardinality(done')
  <2>1. Cardinality(done \cup {i}) = Cardinality(done) + 1
    BY <1>3, <1>5, FS_AddElement
  <2>. QED  BY <1>2, <1>4, <1>5, <2>1
<1>13. {new_str'[j] : j \in DOMAIN new_str'} = {str'[j] : j \in done'}
  <2>1. {g[j] : j \in DOMAIN g} = {new_str[j] : j \in Nodes(new_ht)} \cup {str[i]}
    BY <1>8
  <2>2. {str[j] : j \in done \cup {i}} = {str[j] : j \in done} \cup {str[i]}
    OBVIOUS
  <2>3. {new_str[j] : j \in Nodes(new_ht)} = {str[j] : j \in done}
    BY <1>1, <1>5 DEF Moving
  <2>4. {new_str'[j] : j \in DOMAIN new_str'} = {g[j] : j \in DOMAIN g}
    BY <1>2
  <2>5. {str'[j] : j \in done'} = {str[j] : j \in done \cup {i}}
    BY <1>2
  <2>. QED  BY <2>1, <2>2, <2>3, <2>4, <2>5
<1>14. v \in Slots(new_ht')
  BY <1>2, <1>4 DEF Slots
<1>15. Moving'
  <2>1. RootId \in done' /\ pos' \in 1 .. ht'.capa /\ node_id' \in Slots(ht')
        /\ \A j \in DOMAIN str' : j < pos' => j \in done'
    BY <1>1, <1>2, <1>7, <1>9 DEF Moving
  <2>2. Sound(new_ht', new_str') /\ new_ht'.capa = 2 * ht'.capa /\ cur' \in Slots(new_ht')
    BY <1>1, <1>2, <1>4, <1>7, <1>14 DEF Moving
  <2>. QED  BY <1>10, <1>11, <1>12, <1>13, <2>1, <2>2 DEF Moving
<1>16. cur' \in Nodes(new_ht') /\ new_str'[cur'] = str[i]
  BY <1>2, <1>4, <1>8
<1>. QED  BY <1>3, <1>15, <1>16

LEMMA GraftInv == IndInv /\ Graft => IndInv'
<1>. DEFINE L == Len(path)
            Step == [node : DOMAIN str \ done, label : Symbols]
<1>1. SUFFICES ASSUME IndInv, Graft PROVE IndInv'
  OBVIOUS
<1>2. Moving /\ phase = "graft" /\ OnPath /\ path # <<>>
  BY <1>1 DEF IndInv, Graft
<1>3. PICK i : i = path[L].node
  OBVIOUS
<1>4. /\ Moving' /\ i \in DOMAIN str \ done
      /\ cur' \in Nodes(new_ht') /\ new_str'[cur'] = str[i]
  BY <1>1, <1>3, GraftMoves
<1>5. /\ done' = done \cup {i} /\ path' = SubSeq(path, 1, L - 1)
      /\ phase' = IF path' = <<>> THEN "scan" ELSE "graft"
      /\ UNCHANGED <<pos, node_id, str>>
  BY <1>1, <1>3 DEF Graft
<1>6. path \in Seq(Step)
  BY <1>2 DEF OnPath
<1>7. L \in Nat \ {0} /\ path \in [1 .. L -> Step] /\ DOMAIN path = 1 .. L
  <2>. HIDE DEF Step
  <2>. QED  BY <1>2, <1>6, EmptySeq, LenProperties
<1>8. /\ Len(path') = L - 1 /\ DOMAIN path' = 1 .. L - 1
      /\ \A k \in 1 .. L - 1 : path'[k] = path[k]
      /\ path' \in Seq([node : DOMAIN str' \ done', label : Symbols])
  <2>. DEFINE Step2 == [node : DOMAIN str \ done', label : Symbols]
  <2>1. ASSUME NEW k \in 1 .. L - 1 PROVE path[k] \in Step2
    <3>1. k \in 1 .. L /\ L \in 1 .. L /\ k < L
      BY <1>7
    <3>2. path[k] \in Step
      BY <1>7, <3>1
    <3>3. Len(str[path[k].node]) > Len(str[i])
      BY <1>2, <1>3, <1>7, <3>1 DEF OnPath
    <3>4. path[k].node # i
      <4>1. Len(str[i]) \in Nat
        <5>1. str[i] \in Seq(Symbols)
          BY <1>2, <1>4 DEF Moving, Reading
        <5>. QED  BY <5>1, LenProperties
      <4>. QED  BY <3>3, <4>1
    <3>. QED  BY <1>5, <3>2, <3>4
  <2>. HIDE DEF Step2
  <2>2. /\ SubSeq(path, 1, L - 1) \in Seq(Step2)
        /\ Len(SubSeq(path, 1, L - 1)) = IF 1 <= L - 1 THEN (L - 1) - 1 + 1 ELSE 0
        /\ \A k \in 1 .. (L - 1) - 1 + 1 : SubSeq(path, 1, L - 1)[k] = path[1 + k - 1]
    BY <1>7, <2>1, SubSeqProperties
  <2>3. \A k \in 1 .. L - 1 : path'[k] = path[k]
    <3>1. SUFFICES ASSUME NEW k \in 1 .. L - 1 PROVE path'[k] = path[k]
      OBVIOUS
    <3>2. k \in 1 .. (L - 1) - 1 + 1 /\ 1 + k - 1 = k
      BY <1>7
    <3>. QED  BY <1>5, <2>2, <3>2
  <2>4. Len(path') = L - 1
    BY <1>5, <1>7, <2>2
  <2>. QED  BY <1>5, <2>2, <2>3, <2>4, LenProperties DEF Step2
<1>9. CASE path' = <<>>
  BY <1>4, <1>5, <1>9 DEF IndInv
<1>10. CASE path' # <<>>
  <2>1. L - 1 >= 1
    BY <1>7, <1>8, <1>10, EmptySeq
  <2>2. phase' = "graft" /\ Anchor' = str[i]
    BY <1>4, <1>5, <1>10 DEF Anchor
  <2>3. ASSUME NEW k \in 1 .. L - 1
        PROVE  str[path'[k].node] =
                 Append(IF k = L - 1 THEN str[i] ELSE str[path'[k+1].node], path'[k].label)
    <3>1. k \in 1 .. L /\ k # L /\ path'[k] = path[k]
      <4>1. L \in Nat
        BY <1>7
      <4>2. k \in 1 .. L /\ k # L
        BY <4>1
      <4>. QED  BY <1>8, <4>2
    <3>2. str[path[k].node] = Append(str[path[k+1].node], path[k].label)
      BY <1>2, <1>7, <3>1 DEF OnPath
    <3>3. CASE k = L - 1
      <4>1. k + 1 = L
        BY <1>7, <3>3
      <4>. QED  BY <1>3, <3>1, <3>2, <3>3, <4>1
    <3>4. CASE k # L - 1
      <4>1. k + 1 \in 1 .. L - 1
        <5>1. L \in Nat
          BY <1>7
        <5>. QED  BY <3>4, <5>1
      <4>. QED  BY <1>8, <3>1, <3>2, <3>4, <4>1
    <3>. QED  BY <3>3, <3>4
  <2>4. ASSUME NEW k \in 1 .. L - 1, NEW l \in 1 .. L - 1, k < l
        PROVE  Len(str[path'[k].node]) > Len(str[path'[l].node])
    <3>1. k \in 1 .. L /\ l \in 1 .. L /\ path'[k] = path[k] /\ path'[l] = path[l]
      BY <1>7, <1>8
    <3>. QED  BY <1>2, <1>7, <2>4, <3>1 DEF OnPath
  <2>5. path'[1].node = pos
    BY <1>2, <1>8, <2>1 DEF OnPath
  <2>6. OnPath'
    BY <1>5, <1>8, <2>2, <2>3, <2>4, <2>5 DEF OnPath
  <2>. QED  BY <1>4, <1>5, <1>10, <2>2, <2>6 DEF IndInv
<1>. QED  BY <1>9, <1>10

\* When the outer loop is over every node has moved.
LEMMA AllMoved ==
  ASSUME IndInv, phase = "scan", pos = ht.capa
  PROVE  done = DOMAIN str /\ new_ht.size = ht.size
<1>1. Moving /\ Reading
  BY DEF IndInv, Moving
<1>2. ht.capa \in Nat /\ DOMAIN str \subseteq 0 .. ht.capa-1
  BY <1>1, ReadingFacts
<1>3. done = DOMAIN str
  <2>1. done \subseteq DOMAIN str /\ \A i \in DOMAIN str : i < pos => i \in done
    BY <1>1 DEF Moving, NodeMapSound
  <2>2. \A i \in DOMAIN str : i < pos
    BY <1>2
  <2>. QED  BY <2>1, <2>2
<1>. QED  BY <1>1, <1>3 DEF Moving, Reading

LEMMA EndExpandInv == IndInv /\ EndExpand => IndInv'
<1>1. SUFFICES ASSUME IndInv, EndExpand PROVE IndInv'
  OBVIOUS
<1>2. Sound(new_ht, new_str)
  BY <1>1 DEF IndInv, EndExpand, Moving
<1>. QED  BY <1>1, <1>2 DEF IndInv, EndExpand

\* The invariant is inductive: at rest the table is sound, and while it grows
\* the new table is, the node map is right and the old table is still legible.
THEOREM Invariance == Spec => []IndInv
<1>1. Init => IndInv
  BY InitInv
<1>2. IndInv /\ [Next]_vars => IndInv'
  <2>1. SUFFICES ASSUME IndInv, [Next]_vars PROVE IndInv'
    OBVIOUS
  <2>2. CASE InsertRoot
    BY <2>1, <2>2, InsertRootInv
  <2>3. CASE \E n \in Nodes(ht), s \in Symbols : InsertChild(n, s)
    BY <2>1, <2>3, InsertChildInv
  <2>4. CASE BeginExpand
    BY <2>1, <2>4, BeginExpandInv
  <2>5. CASE Skip
    BY <2>1, <2>5, SkipInv
  <2>6. CASE BeginPath
    BY <2>1, <2>6, BeginPathInv
  <2>7. CASE Climb
    BY <2>1, <2>7, ClimbInv
  <2>8. CASE Graft
    BY <2>1, <2>8, GraftInv
  <2>9. CASE EndExpand
    BY <2>1, <2>9, EndExpandInv
  <2>10. CASE UNCHANGED vars
    <3>1. UNCHANGED <<ht, phase, str, pos, node_id, path, cur, done, map_high, new_ht, new_str>>
      BY <2>10 DEF vars, expandVars
    <3>2. NodeMapSound' = NodeMapSound
      BY <3>1 DEF NodeMapSound, Mapped, Split
    <3>3. Moving' = Moving
      BY <3>1, <3>2 DEF Moving, Reading
    <3>4. OnPath' = OnPath
      BY <3>1 DEF OnPath, Anchor
    <3>. QED  BY <2>1, <3>1, <3>3, <3>4 DEF IndInv
  <2>. QED  BY <2>1, <2>2, <2>3, <2>4, <2>5, <2>6, <2>7, <2>8, <2>9, <2>10 DEF Next, Expanding
<1>. QED  BY <1>1, <1>2, PTL DEF Spec

----------------------------------------------------------------------------
(* What follows from the invariant. *)

\* TypeOK: what is written to a slot fits its width, new ids that are written
\* over the old table included, and every slot number the loops of expand use
\* is one of the table it indexes.
THEOREM TypeCorrect == Spec => []TypeOK
<1>1. IndInv => TypeOK
  <2>1. SUFFICES ASSUME IndInv PROVE TypeOK
    OBVIOUS
  <2>2. LowSize \in Nat \ {0}
    BY DisplacementAssumption DEF LowSize, Dsp1Size
  <2>3. CASE phase = "ready"
    <3>1. Formed(ht) /\ Formed(NewTrie(0))
      BY <2>1, <2>3, NewTrieSound DEF IndInv, Sound
    <3>2. /\ pos = 0 /\ node_id = 0 /\ cur = 0 /\ done = {} /\ new_ht = NewTrie(0)
      BY <2>1, <2>3 DEF IndInv
    <3>3. IsTable(ht) /\ ht.table \in [Slots(ht) -> Nat] /\ IsTable(new_ht)
      BY <2>2, <3>1, <3>2 DEF Formed, IsTable
    <3>4. 0 \in Slots(ht) /\ 0 \in Slots(new_ht) /\ 0 \in 0 .. ht.capa
      <4>1. RootId \in Slots(ht) /\ RootId \in Slots(new_ht) /\ ht.capa \in Nat
        BY <3>1, <3>2, FormedFacts
      <4>. QED  BY <4>1 DEF RootId
    <3>. QED  BY <2>3, <3>2, <3>3, <3>4 DEF TypeOK
  <2>4. CASE phase # "ready"
    <3>1. Moving /\ Reading /\ NodeMapSound /\ Formed(new_ht)
      BY <2>1, <2>4 DEF IndInv, Moving, Sound
    <3>2. pos \in 1 .. ht.capa /\ ht.capa \in Nat
      BY <3>1, ReadingFacts DEF Moving
    <3>3. done \subseteq Slots(ht) /\ node_id \in Slots(ht) /\ cur \in Slots(new_ht)
      BY <2>4, <3>1 DEF Moving, Reading, NodeMapSound
    <3>. QED  BY <2>1, <2>4, <3>1, <3>2, <3>3 DEF TypeOK, IndInv, Reading, Formed
  <2>. QED  BY <2>3, <2>4
<1>. QED  BY <1>1, Invariance, PTL

\* Findable: between calls, find_child finds every child there is, at the
\* slot add_child or expand gave it, and no other, although no slot holds a
\* key.
THEOREM FindCorrect == Spec => []Findable
<1>1. IndInv => Findable
  <2>1. SUFFICES ASSUME IndInv, phase = "ready", NEW n \in DOMAIN str, NEW s \in Symbols
                 PROVE  IF \E j \in DOMAIN str : str[j] = Append(str[n], s)
                        THEN /\ FindChild(ht, n, s) \in DOMAIN str
                             /\ str[FindChild(ht, n, s)] = Append(str[n], s)
                        ELSE FindChild(ht, n, s) = NilId
    BY DEF Findable
  <2>2. Sound(ht, str) /\ ht.size > 0 /\ ht.size # 0 /\ DOMAIN str = Nodes(ht)
    <3>1. Sound(ht, str) /\ ht.size # 0 /\ ht.size \in Nat
      BY <2>1 DEF IndInv, Sound, Spells, Formed, IsTable
    <3>. QED  BY <3>1 DEF Sound, Spells
  <2>3. CASE \E j \in DOMAIN str : str[j] = Append(str[n], s)
    <3>1. PICK j \in Nodes(ht) : str[j] = Append(str[n], s)
      BY <2>2, <2>3
    <3>2. Slot(ht, n, s) = j /\ j \notin Vacant(ht)
      BY <2>1, <2>2, <3>1, SlotOfChild
    <3>3. FindChild(ht, n, s) = j
      BY <2>2, <3>2 DEF FindChild
    <3>. QED  BY <2>2, <3>1, <3>3
  <2>4. CASE \A j \in Nodes(ht) : str[j] # Append(str[n], s)
    <3>1. Slot(ht, n, s) \in Vacant(ht)
      BY <2>1, <2>2, <2>4, SlotOfNoChild DEF FirstVacant
    <3>. QED  BY <2>2, <2>4, <3>1 DEF FindChild
  <2>. QED  BY <2>2, <2>3, <2>4
<1>. QED  BY <1>1, Invariance, PTL

\* DisplacementsKept: a displacement that does not fit into its slot is in
\* exactly one of the auxiliary tables, in the table at rest and in the one
\* that is being filled.
THEOREM AuxiliariesComplete == Spec => []DisplacementsKept
<1>1. IndInv => DisplacementsKept
  <2>1. SUFFICES ASSUME IndInv PROVE DisplacementsKept
    OBVIOUS
  <2>2. phase = "ready" => Formed(ht)
    BY <2>1 DEF IndInv, Sound
  <2>3. Formed(new_ht)
    BY <2>1, NewTrieSound DEF IndInv, Moving, Sound
  <2>. QED  BY <2>2, <2>3 DEF DisplacementsKept, Formed
<1>. QED  BY <1>1, Invariance, PTL

\* NodeMapSound: the node map, with its ids in one or two parts, takes every
\* node that expand has moved to the node of the new table with the same
\* string, and the slots not yet overwritten still hold their keys.
THEOREM NodeMapCorrect == Spec => []NodeMapSound
<1>1. IndInv => NodeMapSound
  BY DEF IndInv, Moving, NodeMapSound
<1>. QED  BY <1>1, Invariance, PTL

\* NothingLost: when expand returns it has moved every node, and size() is the
\* number of nodes.
THEOREM NothingIsLost == Spec => []NothingLost
<1>1. IndInv => NothingLost
  <2>1. SUFFICES ASSUME IndInv PROVE NothingLost
    OBVIOUS
  <2>2. ASSUME phase = "ready" PROVE ht.size = Cardinality(DOMAIN str)
    <3>1. Spells(ht, str) /\ Counted(ht)
      BY <2>1, <2>2 DEF IndInv, Sound
    <3>2. CASE ht.size = 0
      BY <3>1, <3>2, FS_EmptySet DEF Spells
    <3>3. CASE ht.size # 0
      BY <3>1, <3>3 DEF Spells, Counted
    <3>. QED  BY <3>2, <3>3
  <2>3. ASSUME phase = "scan", pos = ht.capa
        PROVE  done = DOMAIN str /\ new_ht.size = ht.size
    BY <2>1, <2>3, AllMoved
  <2>. QED  BY <2>2, <2>3 DEF NothingLost
<1>. QED  BY <1>1, Invariance, PTL

\* Ids maps the string of a node to that node.
LEMMA IdsInvert ==
  ASSUME NEW f, \A i, j \in DOMAIN f : f[i] = f[j] => i = j
  PROVE  /\ DOMAIN IdsOf(f) = {f[i] : i \in DOMAIN f}
         /\ \A i \in DOMAIN f : IdsOf(f)[f[i]] = i
         /\ Abstract!Unambiguous(IdsOf(f))
<1>1. DOMAIN IdsOf(f) = {f[i] : i \in DOMAIN f}
  BY DEF IdsOf
<1>2. \A i \in DOMAIN f : IdsOf(f)[f[i]] = i
  BY DEF IdsOf
<1>3. \A v, w \in DOMAIN IdsOf(f) : IdsOf(f)[v] = IdsOf(f)[w] => v = w
  BY <1>1, <1>2
<1>. QED  BY <1>1, <1>2, <1>3 DEF Abstract!Unambiguous

\* ImplementsDynamicTrie: seen through the strings of its nodes the compact
\* table is the same dynamic trie as the plain one.
THEOREM Refinement == Spec => ImplementsDynamicTrie
<1>1. Init => Abstract!Init
  <2>1. SUFFICES ASSUME Init PROVE Ids = [w \in {} |-> 0]
    BY DEF Abstract!Init
  <2>2. DOMAIN str = {}
    BY <2>1 DEF Init, NoStrings
  <2>. QED  BY <2>2 DEF Ids, IdsOf
<1>2. IndInv /\ [Next]_vars => [Abstract!Next]_Ids
  <2>1. SUFFICES ASSUME IndInv, [Next]_vars PROVE Abstract!Next \/ Ids' = Ids
    OBVIOUS
  <2>2. str' = str => Ids' = Ids
    BY DEF Ids
  <2>3. ASSUME InsertRoot PROVE Abstract!AddRoot
    <3>1. Sound(ht, str) /\ ht.size = 0 /\ str' = RootString
      BY <2>1, <2>3 DEF IndInv, InsertRoot
    <3>2. DOMAIN str = {} /\ DOMAIN str' = {RootId} /\ str'[RootId] = <<>>
      BY <3>1 DEF Sound, Spells, RootString
    <3>3. DOMAIN Ids = {} /\ DOMAIN Ids' = {<<>>}
      BY <3>2 DEF Ids, IdsOf
    <3>. QED  BY <3>3 DEF Abstract!AddRoot, Abstract!Strings
  <2>4. ASSUME NEW n \in Nodes(ht), NEW s \in Symbols, InsertChild(n, s)
        PROVE  Abstract!Next \/ str' = str
    <3>. DEFINE r == AddChild(ht, n, s)
    <3>1. /\ Sound(ht, str) /\ ht.size > 0 /\ str' = Named(str, r, n, s)
      BY <2>1, <2>4 DEF IndInv, InsertChild
    <3>2. Spells(ht, str) /\ DOMAIN str = Nodes(ht)
      BY <3>1 DEF Sound, Spells
    <3>3. CASE \E j \in Nodes(ht) : str[j] = Append(str[n], s)
      <4>1. PICK j \in Nodes(ht) : str[j] = Append(str[n], s)
        BY <3>3
      <4>2. r = [trie |-> ht, node |-> j, added |-> FALSE]
        BY <3>1, <4>1, AddChildFinds
      <4>. HIDE DEF r
      <4>. QED  BY <3>1, <4>2 DEF Named
    <3>4. CASE /\ \A j \in Nodes(ht) : str[j] # Append(str[n], s)
               /\ ht.size = MaxSizeOf(ht.capa)
      <4>1. r = [trie |-> ht, node |-> n, added |-> FALSE]
        BY <3>1, <3>4, AddChildRefuses
      <4>. HIDE DEF r
      <4>. QED  BY <3>1, <4>1 DEF Named
    <3>5. CASE /\ \A j \in Nodes(ht) : str[j] # Append(str[n], s)
               /\ ht.size # MaxSizeOf(ht.capa)
      <4>1. Grown(ht, str, n, s, r)
        BY <3>1, <3>5, AddChildAdds
      <4>. HIDE DEF r
      <4>2. r.added /\ r.node \notin Nodes(ht) /\ Sound(r.trie, str')
        BY <3>1, <4>1 DEF Grown
      <4>3. /\ DOMAIN str' = Nodes(ht) \cup {r.node} /\ str'[r.node] = Append(str[n], s)
            /\ \A j \in Nodes(ht) : str'[j] = str[j]
        BY <3>1, <3>2, <4>2 DEF Named, Extended
      <4>4. \A i, j \in DOMAIN str' : str'[i] = str'[j] => i = j
        BY <4>2 DEF Sound, Spells
      <4>5. /\ DOMAIN Ids = {str[i] : i \in Nodes(ht)}
            /\ \A i \in Nodes(ht) : Ids[str[i]] = i
        BY <3>2, IdsInvert DEF Ids, Spells
      <4>6. /\ DOMAIN Ids' = {str'[i] : i \in Nodes(ht) \cup {r.node}}
            /\ \A i \in Nodes(ht) \cup {r.node} : Ids'[str'[i]] = i
            /\ Abstract!Unambiguous(Ids')
        BY <4>3, <4>4, IdsInvert DEF Ids
      <4>7. DOMAIN Ids' = DOMAIN Ids \cup {Append(str[n], s)}
        <5>1. {str'[i] : i \in Nodes(ht) \cup {r.node}} = {str[i] : i \in Nodes(ht)} \cup {str'[r.node]}
          BY <4>3
        <5>. QED  BY <4>3, <4>5, <4>6, <5>1
      <4>8. \A v \in DOMAIN Ids : Ids'[v] = Ids[v]
        BY <4>3, <4>5, <4>6
      <4>9. str[n] \in DOMAIN Ids /\ Append(str[n], s) \notin DOMAIN Ids
        BY <3>5, <4>5
      <4>10. Abstract!AddChild(str[n], s)
        BY <4>6, <4>7, <4>8, <4>9 DEF Abstract!AddChild, Abstract!Strings
      <4>. QED  BY <4>9, <4>10 DEF Abstract!Next, Abstract!Strings
    <3>. QED  BY <3>3, <3>4, <3>5
  <2>5. ASSUME EndExpand PROVE Abstract!Renumber
    <3>1. /\ phase = "scan" /\ pos = ht.capa /\ str' = new_str
      BY <2>5 DEF EndExpand
    <3>2. Moving /\ Reading /\ done = DOMAIN str
      BY <2>1, <3>1, AllMoved DEF IndInv, Moving
    <3>3. /\ \A i, j \in DOMAIN str : str[i] = str[j] => i = j
          /\ \A i, j \in DOMAIN new_str : new_str[i] = new_str[j] => i = j
      BY <3>2 DEF Moving, Reading, Sound, Spells
    <3>4. {new_str[j] : j \in DOMAIN new_str} = {str[i] : i \in DOMAIN str}
      BY <3>2 DEF Moving
    <3>5. DOMAIN Ids' = DOMAIN Ids /\ Abstract!Unambiguous(Ids')
      <4>1. DOMAIN IdsOf(str) = {str[i] : i \in DOMAIN str}
        BY <3>3, IdsInvert
      <4>2. /\ DOMAIN IdsOf(new_str) = {new_str[i] : i \in DOMAIN new_str}
            /\ Abstract!Unambiguous(IdsOf(new_str))
        BY <3>3, IdsInvert
      <4>3. Ids = IdsOf(str) /\ Ids' = IdsOf(new_str)
        BY <3>1 DEF Ids
      <4>. QED  BY <3>4, <4>1, <4>2, <4>3
    <3>. QED  BY <3>5 DEF Abstract!Renumber, Abstract!Strings
  <2>6. CASE BeginExpand \/ Skip \/ BeginPath \/ Climb \/ Graft \/ UNCHANGED vars
    BY <2>2, <2>6 DEF BeginExpand, Skip, BeginPath, Climb, Graft, vars
  <2>. QED  BY <2>1, <2>2, <2>3, <2>4, <2>5, <2>6 DEF Next, Expanding, Abstract!Next
<1>. QED  BY <1>1, <1>2, Invariance, PTL DEF Spec, Abstract!Spec, ImplementsDynamicTrie
=============================================================================
