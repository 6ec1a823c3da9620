--------------------- MODULE CompactFkhashRehashProofs ---------------------
(***************************************************************************)
(* compact_fkhash_trie, for every capacity, load factor, alphabet, hash    *)
(* and sequence of calls, and every width of the displacement fields.  The *)
(* inductive invariant is IndInv.                                          *)
(***************************************************************************)
EXTENDS CompactFkhashRehash, FiniteSetTheorems, SequenceTheorems, WellFoundedInduction, TLAPS

----------------------------------------------------------------------------
(* The probe loop, for every table size and every stopping set. *)

\* right_ stays in the table and wraps once.
LEMMA AtWraps ==
  ASSUME NEW c \in Nat \ {0}, NEW h \in 0 .. c-1, NEW d \in 0 .. c-1
  PROVE  /\ At(c, h, d) = IF h + d < c THEN h + d ELSE h + d - c
         /\ At(c, h, d) \in 0 .. c-1
BY DEF At

\* The first c probes visit different slots ...
LEMMA AtInjective ==
  ASSUME NEW c \in Nat \ {0}, NEW h \in 0 .. c-1,
         NEW d \in 0 .. c-1, NEW e \in 0 .. c-1,
         At(c, h, d) = At(c, h, e)
  PROVE  d = e
BY DEF At

\* ... and leave none out.
LEMMA AtSurjective ==
  ASSUME NEW c \in Nat \ {0}, NEW h \in 0 .. c-1, NEW i \in 0 .. c-1
  PROVE  \E d \in 0 .. c-1 : At(c, h, d) = i
<1>. DEFINE d == IF h <= i THEN i - h ELSE i - h + c
<1>1. d \in 0 .. c-1
  OBVIOUS
<1>2. At(c, h, d) = IF h + d < c THEN h + d ELSE h + d - c
  <2>. HIDE DEF d
  <2>. QED  BY <1>1, AtWraps
<1>. QED  BY <1>1, <1>2

\* The loop returns at the first stopping slot, and there is one such slot.
LEMMA ProbeHits ==
  ASSUME NEW c \in Nat \ {0}, NEW h \in 0 .. c-1, NEW S,
         NEW d \in FirstStops(c, h, S)
  PROVE  /\ ProbeEnds(c, h, S)
         /\ ProbeEnd(c, h, S) = At(c, h, d)
<1>1. \A e \in FirstStops(c, h, S) : e = d
  BY DEF FirstStops
<1>2. FirstStops(c, h, S) = {d}
  BY <1>1
<1>. QED  BY <1>2 DEF ProbeEnds, ProbeEnd

\* A probe loop ends if some slot of the table stops it.
LEMMA ProbesEnd ==
  ASSUME NEW c \in Nat \ {0}, NEW h \in 0 .. c-1, NEW S, NEW i \in 0 .. c-1, i \in S
  PROVE  ProbeEnds(c, h, S)
<1>. DEFINE T == {d \in 0 .. c-1 : At(c, h, d) \in S}
<1>1. T \subseteq Nat /\ T # {}
  <2>1. PICK d \in 0 .. c-1 : At(c, h, d) = i
    BY AtSurjective
  <2>. QED  BY <2>1
<1>2. PICK d \in T : \A e \in T : <<e, d>> \notin OpToRel(<, Nat)
  <2>. HIDE DEF T
  <2>. QED  BY <1>1, NatLessThanWellFounded, WFMin
<1>3. \A e \in T : ~(e < d)
  BY <1>1, <1>2 DEF OpToRel
<1>4. d \in FirstStops(c, h, S)
  BY <1>3 DEF FirstStops
<1>. QED  BY <1>4 DEF ProbeEnds

----------------------------------------------------------------------------
(* Keys and displacements: a key is recovered from its slot, its quotient  *)
(* and its displacement, and a displacement is read as it was written, in  *)
(* whichever of its three places it is.                                    *)

\* The keys of a table of c slots.
KeySpace(c) == 0 .. c * SymbSize - 1

\* The part of a table that holds quotients and displacements, those of the
\* slots in taken.
Splits(t, taken) ==
  /\ {"table", "cht", "map", "capa"} \subseteq DOMAIN t
  /\ t.capa \in Capas
  /\ t.table \in [Slots(t) -> 0 .. SymbSize * Dsp1Size - 1]
  /\ taken \subseteq Slots(t)
  /\ AuxComplete(t, taken)

\* The key with this hash value, and where the probe started that came to slot
\* i after dist steps.
KeyFrom(t, quo, mod) == HashInv[t.capa][quo * t.capa + mod]
StartOf(t, i, dist) == IF dist <= i THEN i - dist ELSE t.capa - (dist - i)

LEMMA DivMod ==
  ASSUME NEW c \in Nat \ {0}, NEW q \in Nat, NEW r \in 0 .. c-1
  PROVE  (q * c + r) \div c = q /\ (q * c + r) % c = r
OBVIOUS

LEMMA DivModBounds ==
  ASSUME NEW c \in Nat \ {0}, NEW m \in Nat, NEW x \in 0 .. c * m - 1
  PROVE  /\ x \div c \in 0 .. m-1 /\ x % c \in 0 .. c-1
         /\ (x \div c) * c + (x % c) = x
<1>. DEFINE q == x \div c
            r == x % c
<1>1. q \in Nat /\ r \in 0 .. c-1 /\ x = q * c + r
  OBVIOUS
<1>2. q < m
  <2>1. SUFFICES ASSUME q >= m PROVE FALSE
    BY <1>1
  <2>. HIDE DEF q, r
  <2>2. q * c >= m * c
    BY <1>1, <2>1
  <2>. QED  BY <1>1, <2>2
<1>. HIDE DEF q, r
<1>3. q \in 0 .. m-1 /\ q * c + r = x
  BY <1>1, <1>2
<1>. QED  BY <1>1, <1>3 DEF q, r

\* A quotient and the slot a key belongs to make a hash value.
LEMMA MulBound ==
  ASSUME NEW c \in Nat \ {0}, NEW m \in Nat, NEW q \in 0 .. m-1, NEW r \in 0 .. c-1
  PROVE  q * c + r \in 0 .. c * m - 1
<1>1. q + 1 <= m
  OBVIOUS
<1>2. (q + 1) * c <= m * c
  BY <1>1
<1>. QED  BY <1>2

LEMMA CapaFacts ==
  ASSUME NEW c \in Capas
  PROVE  /\ c \in Nat \ {0} /\ c >= 3
         /\ MaxSizeOf(c) \in Nat /\ MaxSizeOf(c) >= 2 /\ MaxSizeOf(c) < c
         /\ 2 * c \in Capas => MaxSizeOf(c) < MaxSizeOf(2 * c)
<1>0. /\ c \in Nat /\ c >= MinCapa /\ MinCapa \in Nat
      /\ MaxFactor \in 1 .. 99 /\ MinCapa * MaxFactor >= 200
  BY DisplacementAssumption
<1>1. c >= 3
  BY <1>0
<1>. DEFINE p == c * MaxFactor
<1>2. p \in Nat /\ p >= 200 /\ p <= 99 * c /\ (2 * c) * MaxFactor = 2 * p
  BY <1>0
<1>3. p \div 100 \in Nat /\ p \div 100 >= 2 /\ p \div 100 < c /\ p \div 100 < (2 * p) \div 100
  <2>. HIDE DEF p
  <2>. QED  BY <1>0, <1>1, <1>2
<1>. QED  BY <1>0, <1>1, <1>2, <1>3 DEF MaxSizeOf

\* For each capacity the hash permutes the keys.
LEMMA HashFacts ==
  ASSUME NEW c \in Capas
  PROVE  /\ \A k \in KeySpace(c) : Hash[c][k] \in KeySpace(c) /\ HashInv[c][Hash[c][k]] = k
         /\ \A k \in KeySpace(c) : HashInv[c][k] \in KeySpace(c) /\ Hash[c][HashInv[c][k]] = k
<1>1. /\ Hash[c] \in [KeySpace(c) -> KeySpace(c)] /\ HashInv[c] \in [KeySpace(c) -> KeySpace(c)]
      /\ \A k \in KeySpace(c) : HashInv[c][Hash[c][k]] = k /\ Hash[c][HashInv[c][k]] = k
  BY DisplacementAssumption DEF KeySpace
<1>. QED  BY <1>1

\* The hash of a key splits into a quotient and a slot.
LEMMA KeySplits ==
  ASSUME NEW t, t.capa \in Capas, NEW key \in KeySpace(t.capa)
  PROVE  /\ QuoOf(t, key) \in Symbols /\ ModOf(t, key) \in Slots(t)
         /\ KeyFrom(t, QuoOf(t, key), ModOf(t, key)) = key
<1>. DEFINE c == t.capa
            x == Hash[c][key]
<1>1. c \in Nat \ {0} /\ SymbSize \in Nat \ {0}
  BY CapaFacts, DisplacementAssumption
<1>2. x \in 0 .. c * SymbSize - 1 /\ HashInv[c][x] = key
  BY HashFacts DEF KeySpace
<1>3. x \div c \in 0 .. SymbSize-1 /\ x % c \in 0 .. c-1 /\ (x \div c) * c + (x % c) = x
  <2>. HIDE DEF c, x
  <2>. QED  BY <1>1, <1>2, DivModBounds
<1>4. QuoOf(t, key) = x \div c /\ ModOf(t, key) = x % c
  BY DEF QuoOf, ModOf
<1>. HIDE DEF x
<1>. QED  BY <1>2, <1>3, <1>4 DEF Symbols, Slots, KeyFrom

\* Any quotient and slot are those of a key.
LEMMA KeyJoins ==
  ASSUME NEW t, t.capa \in Capas, NEW quo \in Symbols, NEW mod \in Slots(t)
  PROVE  /\ KeyFrom(t, quo, mod) \in KeySpace(t.capa)
         /\ QuoOf(t, KeyFrom(t, quo, mod)) = quo /\ ModOf(t, KeyFrom(t, quo, mod)) = mod
<1>. DEFINE c == t.capa
            key == KeyFrom(t, quo, mod)
            x == quo * c + mod
<1>1. c \in Nat \ {0} /\ SymbSize \in Nat \ {0}
  BY CapaFacts, DisplacementAssumption
<1>2. x \in 0 .. c * SymbSize - 1 /\ x \div c = quo /\ x % c = mod
  <2>1. quo \in 0 .. SymbSize-1 /\ mod \in 0 .. c-1
    BY DEF Symbols, Slots
  <2>2. quo \in Nat
    BY <1>1, <2>1
  <2>. HIDE DEF c
  <2>. QED  BY <1>1, <2>1, <2>2, MulBound, DivMod
<1>3. key = HashInv[c][x]
  BY DEF KeyFrom
<1>. HIDE DEF x, key
<1>4. key \in KeySpace(c) /\ Hash[c][key] = x
  <2>1. x \in KeySpace(c)
    BY <1>2 DEF KeySpace
  <2>. QED  BY <1>3, <2>1, HashFacts
<1>. QED  BY <1>2, <1>4 DEF QuoOf, ModOf, key

\* The key of a child of node n.
LEMMA ChildKey ==
  ASSUME NEW c \in Capas, NEW n \in 0 .. c-1, NEW s \in Symbols
  PROVE  /\ MakeKey(n, s) \in KeySpace(c)
         /\ MakeKey(n, s) \div SymbSize = n /\ MakeKey(n, s) % SymbSize = s
<1>1. c \in Nat \ {0} /\ SymbSize \in Nat \ {0}
  BY CapaFacts, DisplacementAssumption
<1>2. n \in Nat /\ s \in 0 .. SymbSize-1
  BY <1>1 DEF Symbols
<1>3. n * SymbSize + s \in 0 .. SymbSize * c - 1 /\ SymbSize * c = c * SymbSize
  BY <1>1, <1>2, MulBound
<1>4. (n * SymbSize + s) \div SymbSize = n /\ (n * SymbSize + s) % SymbSize = s
  BY <1>1, <1>2, DivMod
<1>. QED  BY <1>3, <1>4 DEF MakeKey, KeySpace

LEMMA KeyParts ==
  ASSUME NEW c \in Capas, NEW key \in KeySpace(c)
  PROVE  /\ key \div SymbSize \in 0 .. c-1 /\ key % SymbSize \in Symbols
         /\ MakeKey(key \div SymbSize, key % SymbSize) = key
<1>1. c \in Nat \ {0} /\ SymbSize \in Nat \ {0}
  BY CapaFacts, DisplacementAssumption
<1>2. key \in 0 .. SymbSize * c - 1
  BY <1>1 DEF KeySpace
<1>3. /\ key \div SymbSize \in 0 .. c-1 /\ key % SymbSize \in 0 .. SymbSize-1
      /\ (key \div SymbSize) * SymbSize + (key % SymbSize) = key
  BY <1>1, <1>2, DivModBounds
<1>. QED  BY <1>3 DEF MakeKey, Symbols

\* Dist is the inverse of the probe.
LEMMA DistInverts ==
  ASSUME NEW t, t.capa \in Nat \ {0}, NEW mod \in Slots(t), NEW i \in Slots(t)
  PROVE  /\ Dist(t, mod, i) \in Slots(t)
         /\ At(t.capa, mod, Dist(t, mod, i)) = i
         /\ \A d \in Slots(t) : At(t.capa, mod, d) = i => d = Dist(t, mod, i)
<1>. DEFINE c == t.capa
<1>1. c \in Nat \ {0} /\ mod \in 0 .. c-1 /\ i \in 0 .. c-1 /\ Slots(t) = 0 .. c-1
  BY DEF Slots
<1>2. Dist(t, mod, i) = (i + c - mod) % c
  BY DEF Dist
<1>. HIDE DEF c
<1>3. Dist(t, mod, i) = IF mod <= i THEN i - mod ELSE i + c - mod
  BY <1>1, <1>2
<1>4. Dist(t, mod, i) \in 0 .. c-1
  BY <1>1, <1>3
<1>5. At(c, mod, Dist(t, mod, i)) = i
  <2>1. At(c, mod, Dist(t, mod, i)) =
          IF mod + Dist(t, mod, i) < c THEN mod + Dist(t, mod, i) ELSE mod + Dist(t, mod, i) - c
    BY <1>1, <1>4, AtWraps
  <2>. QED  BY <1>1, <1>3, <2>1
<1>6. \A d \in 0 .. c-1 : At(c, mod, d) = i => d = Dist(t, mod, i)
  BY <1>1, <1>4, <1>5, AtInjective
<1>. QED  BY <1>1, <1>4, <1>5, <1>6 DEF c

LEMMA DistUnique ==
  ASSUME NEW t, t.capa \in Nat \ {0}, NEW mod \in Slots(t), NEW d \in Slots(t),
         NEW i \in Slots(t), At(t.capa, mod, d) = i
  PROVE  d = Dist(t, mod, i)
<1>1. /\ At(t.capa, mod, Dist(t, mod, i)) = i
      /\ \A e \in Slots(t) : At(t.capa, mod, e) = i => e = Dist(t, mod, i)
  BY DistInverts
<1>. QED  BY <1>1

\* KeyOf unrolls the probe.
LEMMA ProbeUnrolled ==
  ASSUME NEW t, t.capa \in Nat \ {0}, NEW i \in Slots(t), NEW dist \in Slots(t)
  PROVE  /\ StartOf(t, i, dist) \in Slots(t) /\ Dist(t, StartOf(t, i, dist), i) = dist
         /\ \A mod \in Slots(t) : Dist(t, mod, i) = dist => mod = StartOf(t, i, dist)
<1>. DEFINE c == t.capa
            init == StartOf(t, i, dist)
<1>1. c \in Nat \ {0} /\ i \in 0 .. c-1 /\ dist \in 0 .. c-1 /\ Slots(t) = 0 .. c-1
      /\ init = IF dist <= i THEN i - dist ELSE c - (dist - i)
  BY DEF Slots, StartOf
<1>2. ASSUME NEW mod \in 0 .. c-1
      PROVE  Dist(t, mod, i) = IF mod <= i THEN i - mod ELSE i + c - mod
  <2>1. Dist(t, mod, i) = (i + c - mod) % c
    BY DEF Dist
  <2>. HIDE DEF c
  <2>. QED  BY <1>1, <2>1
<1>. HIDE DEF c, init
<1>3. init \in 0 .. c-1
  BY <1>1
<1>4. Dist(t, init, i) = dist
  <2>1. Dist(t, init, i) = IF init <= i THEN i - init ELSE i + c - init
    BY <1>2, <1>3
  <2>. QED  BY <1>1, <1>3, <2>1
<1>5. \A mod \in 0 .. c-1 : Dist(t, mod, i) = dist => mod = init
  BY <1>1, <1>2
<1>. QED  BY <1>1, <1>3, <1>4, <1>5 DEF init

\* A key is recovered from the slot, the quotient and the displacement, and
\* these are recovered from it.
LEMMA KeyRecovered ==
  ASSUME NEW t, t.capa \in Capas, NEW i \in Slots(t), Quo(t, i) \in Symbols, NEW dist \in Slots(t)
  PROVE  /\ KeyOf(t, i, dist) \in KeySpace(t.capa)
         /\ QuoOf(t, KeyOf(t, i, dist)) = Quo(t, i)
         /\ Dist(t, ModOf(t, KeyOf(t, i, dist)), i) = dist
         /\ ModOf(t, KeyOf(t, i, dist)) \in Slots(t)
         /\ \A key \in KeySpace(t.capa) :
              QuoOf(t, key) = Quo(t, i) /\ Dist(t, ModOf(t, key), i) = dist => KeyOf(t, i, dist) = key
<1>. DEFINE q == Quo(t, i)
            init == StartOf(t, i, dist)
<1>1. t.capa \in Nat \ {0}
  BY CapaFacts
<1>2. /\ init \in Slots(t) /\ Dist(t, init, i) = dist
      /\ \A mod \in Slots(t) : Dist(t, mod, i) = dist => mod = init
  BY <1>1, ProbeUnrolled
<1>3. KeyOf(t, i, dist) = KeyFrom(t, q, init)
  BY DEF KeyOf, KeyFrom, StartOf
<1>4. q \in Symbols
  OBVIOUS
<1>. HIDE DEF q, init
<1>5. /\ KeyFrom(t, q, init) \in KeySpace(t.capa)
      /\ QuoOf(t, KeyFrom(t, q, init)) = q /\ ModOf(t, KeyFrom(t, q, init)) = init
  BY <1>2, <1>4, KeyJoins
<1>6. ASSUME NEW key \in KeySpace(t.capa), QuoOf(t, key) = q, Dist(t, ModOf(t, key), i) = dist
      PROVE  KeyFrom(t, q, init) = key
  <2>1. ModOf(t, key) \in Slots(t) /\ KeyFrom(t, QuoOf(t, key), ModOf(t, key)) = key
    BY KeySplits
  <2>2. init = ModOf(t, key)
    BY <1>2, <1>6, <2>1
  <2>. QED  BY <1>6, <2>1, <2>2
<1>. QED  BY <1>2, <1>3, <1>5, <1>6 DEF q

LEMMA SlotFacts ==
  ASSUME NEW t, NEW taken, Splits(t, taken), NEW i \in Slots(t)
  PROVE  /\ Quo(t, i) \in Symbols /\ Dsp1(t, i) \in 0 .. Dsp1Mask
         /\ t.table[i] \in Nat /\ Dsp1Size \in Nat \ {0} /\ Dsp1Mask \in Nat \ {0}
<1>1. SymbSize \in Nat \ {0} /\ Dsp1Mask \in Nat \ {0} /\ Dsp1Size = Dsp1Mask + 1
  BY DisplacementAssumption DEF Dsp1Size
<1>2. t.table[i] \in 0 .. SymbSize * Dsp1Size - 1 /\ SymbSize * Dsp1Size = Dsp1Size * SymbSize
  BY <1>1 DEF Splits
<1>3. t.table[i] \div Dsp1Size \in 0 .. SymbSize-1 /\ t.table[i] % Dsp1Size \in 0 .. Dsp1Size-1
  <2>1. Dsp1Size \in Nat \ {0} /\ SymbSize \in Nat
    BY <1>1
  <2>. QED  BY <1>2, <2>1, DivModBounds
<1>. QED  BY <1>1, <1>2, <1>3 DEF Quo, Dsp1, Symbols

\* compare_dsp_ compares with what get_dsp_ returns.
LEMMA ComparesDsp ==
  ASSUME NEW t, NEW taken, Splits(t, taken), NEW i \in taken, NEW rhs \in Nat
  PROVE  /\ GetDsp(t, i) \in Nat
         /\ CompareDsp(t, i, rhs) <=> GetDsp(t, i) = rhs
<1>1. Dsp1(t, i) \in 0 .. Dsp1Mask /\ Dsp1Mask \in Nat \ {0} /\ Dsp2Mask \in Nat \ {0}
  BY SlotFacts, DisplacementAssumption DEF Splits
<1>2. AuxComplete(t, taken)
  BY DEF Splits
<1>3. CASE Dsp1(t, i) < Dsp1Mask
  BY <1>1, <1>3 DEF GetDsp, CompareDsp
<1>4. CASE ~(Dsp1(t, i) < Dsp1Mask)
  <2>1. Dsp1(t, i) = Dsp1Mask
    BY <1>1, <1>4
  <2>2. i \in DOMAIN t.cht \cup DOMAIN t.map
    BY <1>2, <2>1 DEF AuxComplete
  <2>3. i \in DOMAIN t.cht => t.cht[i] \in 0 .. Dsp2Mask - 1
    BY <1>2 DEF AuxComplete
  <2>4. i \notin DOMAIN t.cht => t.map[i] >= Dsp1Mask + Dsp2Mask /\ t.map[i] \in Nat
    BY <1>2, <2>2 DEF AuxComplete
  <2>. QED  BY <1>1, <1>4, <2>3, <2>4 DEF GetDsp, CompareDsp
<1>. QED  BY <1>3, <1>4

\* Table u is t with quo and dsp in slot i, which was free; those of the other
\* slots are as they were.
StoredIn(t, taken, i, quo, dsp, u) ==
  /\ Splits(u, taken \cup {i})
  /\ Quo(u, i) = quo /\ GetDsp(u, i) = dsp
  /\ \A j \in taken : Quo(u, j) = Quo(t, j) /\ GetDsp(u, j) = GetDsp(t, j)
  /\ \A j \in Slots(t) \ {i} : u.table[j] = t.table[j]
  /\ DOMAIN u = DOMAIN t /\ \A x \in DOMAIN t \ {"table", "cht", "map"} : u[x] = t[x]

\* update_slot_ writes what get_dsp_ reads back.
LEMMA UpdateSlotStores ==
  ASSUME NEW t, NEW taken, Splits(t, taken), NEW i \in Slots(t) \ taken,
         NEW quo \in Symbols, NEW dsp \in Nat,
         NEW u, u = UpdateSlot(t, i, quo, dsp)
  PROVE  StoredIn(t, taken, i, quo, dsp, u)
<1>. DEFINE short == dsp < Dsp1Mask
            medium == ~short /\ dsp - Dsp1Mask < Dsp2Mask
            low == IF short THEN dsp ELSE Dsp1Mask
            cell == quo * Dsp1Size + low
<1>0. {"table", "cht", "map", "capa"} \subseteq DOMAIN t
  BY DEF Splits
<1>1. /\ Dsp1Mask \in Nat \ {0} /\ Dsp2Mask \in Nat \ {0} /\ SymbSize \in Nat \ {0}
      /\ Dsp1Size = Dsp1Mask + 1
  BY DisplacementAssumption DEF Dsp1Size
<1>2. /\ DOMAIN u = DOMAIN t /\ \A x \in DOMAIN t \ {"table", "cht", "map"} : u[x] = t[x]
      /\ u.table = [t.table EXCEPT ![i] = cell]
      /\ u.cht = IF medium THEN Extended(t.cht, i, dsp - Dsp1Mask) ELSE t.cht
      /\ u.map = IF short \/ medium THEN t.map ELSE Extended(t.map, i, dsp)
      /\ u.capa = t.capa
  BY <1>0 DEF UpdateSlot
<1>3. low \in 0 .. Dsp1Size-1 /\ low <= Dsp1Mask /\ (low = Dsp1Mask <=> ~short)
  BY <1>1
<1>4. cell \in 0 .. SymbSize * Dsp1Size - 1 /\ cell \div Dsp1Size = quo /\ cell % Dsp1Size = low
  <2>1. Dsp1Size \in Nat \ {0} /\ quo \in 0 .. SymbSize-1 /\ quo \in Nat
    BY <1>1 DEF Symbols
  <2>2. SymbSize * Dsp1Size = Dsp1Size * SymbSize
    BY <1>1
  <2>. HIDE DEF low
  <2>. QED  BY <1>1, <1>3, <2>1, <2>2, MulBound, DivMod
<1>. HIDE DEF cell
<1>5. Slots(u) = Slots(t)
  BY <1>2 DEF Slots
<1>6. /\ u.table \in [Slots(t) -> 0 .. SymbSize * Dsp1Size - 1]
      /\ u.table[i] = cell /\ \A j \in Slots(t) \ {i} : u.table[j] = t.table[j]
  BY <1>2, <1>4 DEF Splits
<1>7. Quo(u, i) = quo /\ Dsp1(u, i) = low
  BY <1>4, <1>6 DEF Quo, Dsp1
<1>8. \A j \in taken : Quo(u, j) = Quo(t, j) /\ Dsp1(u, j) = Dsp1(t, j)
  BY <1>6 DEF Quo, Dsp1, Splits
<1>9. /\ i \notin DOMAIN t.cht /\ i \notin DOMAIN t.map
      /\ DOMAIN t.cht \cap DOMAIN t.map = {}
      /\ DOMAIN t.cht \cup DOMAIN t.map = {j \in taken : Dsp1(t, j) = Dsp1Mask}
      /\ \A j \in DOMAIN t.cht : t.cht[j] \in 0 .. Dsp2Mask - 1
      /\ \A j \in DOMAIN t.map : t.map[j] \in Nat /\ t.map[j] >= Dsp1Mask + Dsp2Mask
  BY DEF Splits, AuxComplete
<1>10. /\ DOMAIN u.cht = IF medium THEN DOMAIN t.cht \cup {i} ELSE DOMAIN t.cht
       /\ medium => u.cht[i] = dsp - Dsp1Mask
       /\ \A j \in DOMAIN t.cht : u.cht[j] = t.cht[j]
  BY <1>2, <1>9 DEF Extended
<1>11. /\ DOMAIN u.map = IF short \/ medium THEN DOMAIN t.map ELSE DOMAIN t.map \cup {i}
       /\ ~short /\ ~medium => u.map[i] = dsp
       /\ \A j \in DOMAIN t.map : u.map[j] = t.map[j]
  BY <1>2, <1>9 DEF Extended
<1>12. GetDsp(u, i) = dsp
  <2>1. CASE short
    BY <1>7, <2>1 DEF GetDsp
  <2>2. CASE medium
    BY <1>1, <1>7, <1>10, <2>2 DEF GetDsp
  <2>3. CASE ~short /\ ~medium
    BY <1>1, <1>7, <1>9, <1>10, <1>11, <2>3 DEF GetDsp
  <2>. QED  BY <2>1, <2>2, <2>3
<1>13. ASSUME NEW j \in taken PROVE GetDsp(u, j) = GetDsp(t, j)
  <2>1. j # i /\ Dsp1(u, j) = Dsp1(t, j)
    BY <1>8
  <2>2. j \in DOMAIN u.cht <=> j \in DOMAIN t.cht
    BY <1>10, <2>1
  <2>3. CASE j \in DOMAIN t.map \/ j \in DOMAIN t.cht
    BY <1>10, <1>11, <2>1, <2>2, <2>3 DEF GetDsp
  <2>4. CASE j \notin DOMAIN t.map /\ j \notin DOMAIN t.cht
    <3>1. Dsp1(t, j) # Dsp1Mask /\ Dsp1(t, j) \in 0 .. Dsp1Mask
      BY <1>9, <2>4, SlotFacts DEF Splits
    <3>. QED  BY <1>1, <2>1, <3>1 DEF GetDsp
  <2>. QED  BY <2>3, <2>4
<1>14. AuxComplete(u, taken \cup {i})
  <2>1. DOMAIN u.cht \cap DOMAIN u.map = {}
    BY <1>9, <1>10, <1>11
  <2>2. DOMAIN u.cht \cup DOMAIN u.map = {j \in taken \cup {i} : Dsp1(u, j) = Dsp1Mask}
    <3>1. {j \in taken \cup {i} : Dsp1(u, j) = Dsp1Mask}
            = {j \in taken : Dsp1(t, j) = Dsp1Mask} \cup (IF short THEN {} ELSE {i})
      BY <1>3, <1>7, <1>8
    <3>. QED  BY <1>9, <1>10, <1>11, <3>1
  <2>3. \A j \in DOMAIN u.cht : u.cht[j] \in 0 .. Dsp2Mask - 1
    <3>1. medium => dsp - Dsp1Mask \in 0 .. Dsp2Mask - 1
      BY <1>1
    <3>. QED  BY <1>9, <1>10, <3>1
  <2>4. \A j \in DOMAIN u.map : u.map[j] \in Nat /\ u.map[j] >= Dsp1Mask + Dsp2Mask
    <3>1. ~short /\ ~medium => dsp >= Dsp1Mask + Dsp2Mask
      BY <1>1
    <3>. QED  BY <1>9, <1>11, <3>1
  <2>. QED  BY <2>1, <2>2, <2>3, <2>4 DEF AuxComplete
<1>15. Splits(u, taken \cup {i})
  BY <1>0, <1>2, <1>5, <1>6, <1>14 DEF Splits
<1>. QED  BY <1>2, <1>6, <1>7, <1>8, <1>12, <1>13, <1>15 DEF StoredIn

----------------------------------------------------------------------------
(* The table.                                                              *)

LEMMA FormedFacts ==
  ASSUME NEW t, Formed(t)
  PROVE  /\ t.capa \in Capas /\ t.capa \in Nat \ {0} /\ Slots(t) = 0 .. t.capa-1
         /\ Taken(t) \cup Vacant(t) = Slots(t) /\ Taken(t) \cap Vacant(t) = {}
         /\ Splits(t, Taken(t))
         /\ t.ids \in [Slots(t) -> Slots(t)]
         /\ \A i \in Slots(t) : i \in Vacant(t) <=> t.ids[i] = FreeId(t)
<1>1. t.capa \in Capas /\ t.capa \in Nat \ {0}
  BY CapaFacts DEF Formed
<1>2. Taken(t) \cup Vacant(t) = Slots(t) /\ Taken(t) \cap Vacant(t) = {}
      /\ \A i \in Slots(t) : i \in Vacant(t) <=> t.ids[i] = FreeId(t)
  BY DEF Taken, Vacant
<1>3. Splits(t, Taken(t))
  BY <1>1, <1>2 DEF Splits, Formed, IsTable
<1>. QED  BY <1>1, <1>2, <1>3 DEF Formed, IsTable, Slots

\* What the key recovered from a slot says of the slot.
LEMMA StoredKeyFacts ==
  ASSUME NEW t, Formed(t), NEW i \in Taken(t)
  PROVE  /\ StoredKey(t, i) \in KeySpace(t.capa)
         /\ Quo(t, i) = QuoOf(t, StoredKey(t, i))
         /\ ModOf(t, StoredKey(t, i)) \in Slots(t)
         /\ GetDsp(t, i) = Dist(t, ModOf(t, StoredKey(t, i)), i)
         /\ GetDsp(t, i) \in Slots(t)
         /\ \A key \in KeySpace(t.capa) :
              QuoOf(t, key) = Quo(t, i) /\ Dist(t, ModOf(t, key), i) = GetDsp(t, i)
                => StoredKey(t, i) = key
<1>1. t.capa \in Capas /\ i \in Slots(t) /\ Splits(t, Taken(t))
  BY FormedFacts
<1>2. GetDsp(t, i) \in Slots(t)
  BY DEF Formed
<1>3. Quo(t, i) \in Symbols
  BY <1>1, SlotFacts
<1>. QED  BY <1>1, <1>2, <1>3, KeyRecovered DEF StoredKey

\* The comparison of the probe loop, quotient and displacement, is a
\* comparison of keys.
LEMMA MatchesAreEqual ==
  ASSUME NEW t, Formed(t), NEW key \in KeySpace(t.capa), NEW i \in Taken(t)
  PROVE  i \in Matches(t, QuoOf(t, key), ModOf(t, key)) <=> StoredKey(t, i) = key
<1>1. t.capa \in Capas /\ t.capa \in Nat \ {0} /\ i \in Slots(t) /\ Splits(t, Taken(t))
  BY FormedFacts
<1>. DEFINE rhs == Dist(t, ModOf(t, key), i)
<1>2. rhs \in Nat
  <2>1. ModOf(t, key) \in Slots(t)
    BY <1>1, KeySplits
  <2>2. rhs \in Slots(t)
    BY <1>1, <2>1, DistInverts
  <2>. QED  BY <1>1, <2>2 DEF Slots
<1>3. CompareDsp(t, i, rhs) <=> GetDsp(t, i) = rhs
  <2>. HIDE DEF rhs
  <2>. QED  BY <1>1, <1>2, ComparesDsp
<1>4. i \in Matches(t, QuoOf(t, key), ModOf(t, key))
        <=> Quo(t, i) = QuoOf(t, key) /\ GetDsp(t, i) = rhs
  BY <1>3 DEF Matches
<1>. QED  BY <1>4, StoredKeyFacts

\* The slot at which the loop finds no node: free, with no free slot before it.
FirstVacant(t, key, i) ==
  /\ i \in Vacant(t)
  /\ \E d \in Slots(t) :
       /\ At(t.capa, ModOf(t, key), d) = i
       /\ \A e \in 0 .. d-1 : At(t.capa, ModOf(t, key), e) \notin Vacant(t)

\* Table u is t with key and id in slot i, which was free.
PutIn(t, key, i, id, u) ==
  /\ Formed(u)
  /\ u.capa = t.capa /\ u.size = t.size
  /\ Taken(u) = Taken(t) \cup {i} /\ Vacant(u) = Vacant(t) \ {i}
  /\ StoredKey(u, i) = key /\ u.ids[i] = id
  /\ GetDsp(u, i) = Dist(t, ModOf(t, key), i)
  /\ \A j \in Taken(t) : /\ StoredKey(u, j) = StoredKey(t, j) /\ u.ids[j] = t.ids[j]
                         /\ GetDsp(u, j) = GetDsp(t, j)

\* Storing a key and an id in a free slot changes nothing that is read from
\* the other slots.
LEMMA PutIdStores ==
  ASSUME NEW t, Formed(t), NEW key \in KeySpace(t.capa), NEW i \in Vacant(t),
         NEW id \in Slots(t), id # FreeId(t),
         NEW u, u = PutId(t, i, QuoOf(t, key), ModOf(t, key), id)
  PROVE  PutIn(t, key, i, id, u)
<1>. DEFINE quo == QuoOf(t, key)
            dsp == Dist(t, ModOf(t, key), i)
            v == UpdateSlot(t, i, quo, dsp)
<1>1. /\ t.capa \in Capas /\ t.capa \in Nat \ {0} /\ Slots(t) = 0 .. t.capa-1
      /\ Taken(t) \cup Vacant(t) = Slots(t) /\ Taken(t) \cap Vacant(t) = {}
      /\ Splits(t, Taken(t)) /\ t.ids \in [Slots(t) -> Slots(t)]
      /\ \A j \in Slots(t) : j \in Vacant(t) <=> t.ids[j] = FreeId(t)
      /\ DOMAIN t = {"table", "ids", "cht", "map", "size", "capa"}
  BY FormedFacts DEF Formed
<1>2. i \in Slots(t) \ Taken(t)
  BY <1>1
<1>3. quo \in Symbols /\ dsp \in Slots(t) /\ dsp \in Nat
  <2>1. quo \in Symbols /\ ModOf(t, key) \in Slots(t)
    BY <1>1, KeySplits
  <2>2. dsp \in Slots(t)
    BY <1>1, <1>2, <2>1, DistInverts
  <2>. HIDE DEF quo, dsp
  <2>. QED  BY <1>1, <2>1, <2>2
<1>. HIDE DEF quo, dsp
<1>4. /\ Splits(v, Taken(t) \cup {i})
      /\ Quo(v, i) = quo /\ GetDsp(v, i) = dsp
      /\ \A j \in Taken(t) : Quo(v, j) = Quo(t, j) /\ GetDsp(v, j) = GetDsp(t, j)
      /\ DOMAIN v = DOMAIN t /\ v.ids = t.ids /\ v.size = t.size /\ v.capa = t.capa
  <2>. HIDE DEF v
  <2>1. v = UpdateSlot(t, i, quo, dsp)
    BY DEF v
  <2>2. Splits(t, Taken(t))
    BY <1>1
  <2>3. StoredIn(t, Taken(t), i, quo, dsp, v)
    BY <1>2, <1>3, <2>1, <2>2, UpdateSlotStores
  <2>. QED  BY <1>1, <2>3 DEF StoredIn
<1>5. u = [v EXCEPT !.ids[i] = id]
  BY DEF PutId, quo, dsp
<1>. HIDE DEF v
<1>6. /\ DOMAIN u = DOMAIN t /\ u.ids = [t.ids EXCEPT ![i] = id]
      /\ u.size = t.size /\ u.capa = t.capa
      /\ u.table = v.table /\ u.cht = v.cht /\ u.map = v.map
  BY <1>1, <1>4, <1>5
<1>7. /\ Slots(u) = Slots(t) /\ Slots(v) = Slots(t) /\ FreeId(u) = FreeId(t)
      /\ u.ids \in [Slots(t) -> Slots(t)]
      /\ u.ids[i] = id /\ \A j \in Taken(t) : u.ids[j] = t.ids[j]
      /\ \A j \in Slots(t) : j # i => u.ids[j] = t.ids[j]
  BY <1>1, <1>2, <1>4, <1>6 DEF Slots, FreeId
<1>8. Taken(u) = Taken(t) \cup {i} /\ Vacant(u) = Vacant(t) \ {i}
  <2>1. Vacant(u) = Vacant(t) \ {i}
    BY <1>1, <1>2, <1>7 DEF Vacant
  <2>. QED  BY <1>1, <1>2, <1>7, <2>1 DEF Taken
<1>9. \A j : Quo(u, j) = Quo(v, j) /\ Dsp1(u, j) = Dsp1(v, j) /\ GetDsp(u, j) = GetDsp(v, j)
  BY <1>6 DEF Quo, Dsp1, GetDsp
<1>10. Formed(u)
  <2>1. \A j \in Taken(u) : GetDsp(u, j) \in Slots(u)
    BY <1>3, <1>4, <1>7, <1>8, <1>9 DEF Formed
  <2>2. AuxComplete(u, Taken(u))
    BY <1>4, <1>6, <1>8, <1>9 DEF Splits, AuxComplete
  <2>3. IsTable(u)
    BY <1>4, <1>6, <1>7 DEF Splits, IsTable
  <2>. QED  BY <1>1, <1>6, <2>1, <2>2, <2>3 DEF Formed
<1>11. \A j \in Taken(t) : StoredKey(u, j) = StoredKey(t, j)
  BY <1>4, <1>6, <1>9 DEF StoredKey, KeyOf
<1>12. StoredKey(u, i) = key
  <2>1. QuoOf(u, key) = quo /\ Dist(u, ModOf(u, key), i) = dsp
    BY <1>6 DEF quo, dsp, QuoOf, ModOf, Dist
  <2>2. key \in KeySpace(u.capa) /\ i \in Taken(u)
    BY <1>6, <1>8
  <2>. QED  BY <1>4, <1>9, <1>10, <2>1, <2>2, StoredKeyFacts
<1>. QED  BY <1>4, <1>6, <1>7, <1>8, <1>9, <1>10, <1>11, <1>12 DEF dsp, PutIn

\* No probe loop runs for ever on a table with a free slot.
LEMMA ProbesReturn ==
  ASSUME NEW t, Formed(t), Vacant(t) # {}, NEW key \in KeySpace(t.capa), NEW S, Vacant(t) \subseteq S
  PROVE  ProbeEnds(t.capa, ModOf(t, key), S)
<1>1. t.capa \in Nat \ {0} /\ Slots(t) = 0 .. t.capa-1 /\ Vacant(t) \subseteq Slots(t)
      /\ ModOf(t, key) \in Slots(t)
  BY FormedFacts, KeySplits
<1>2. PICK i \in Slots(t) : i \in S
  BY <1>1
<1>. QED  BY <1>1, <1>2, ProbesEnd

\* The probe for a key that is stored ends at its slot ...
LEMMA FindsStored ==
  ASSUME NEW t, NEW f, Sound(t, f), NEW i \in Taken(t),
         NEW key, key = StoredKey(t, i),
         \A j \in Taken(t) : StoredKey(t, j) = key => j = i
  PROVE  ProbeEnd(t.capa, ModOf(t, key), Vacant(t) \cup Matches(t, QuoOf(t, key), ModOf(t, key))) = i
<1>. DEFINE c == t.capa
            h == ModOf(t, key)
            d == GetDsp(t, i)
            M == Matches(t, QuoOf(t, key), h)
            S == Vacant(t) \cup M
<1>1. Formed(t) /\ Chained(t)
  BY DEF Sound
<1>2. /\ c \in Nat \ {0} /\ Slots(t) = 0 .. c-1
      /\ Taken(t) \cap Vacant(t) = {} /\ i \in Slots(t)
  BY <1>1, FormedFacts
<1>3. key \in KeySpace(t.capa) /\ h \in Slots(t) /\ d = Dist(t, h, i) /\ d \in Slots(t)
  BY <1>1, StoredKeyFacts
<1>4. At(c, h, d) = i
  <2>. HIDE DEF h
  <2>1. At(t.capa, h, Dist(t, h, i)) = i
    BY <1>2, <1>3, DistInverts
  <2>. QED  BY <1>3, <2>1
<1>5. M \subseteq Taken(t) /\ \A j \in Taken(t) : j \in M <=> j = i
  <2>1. M \subseteq Taken(t)
    BY DEF Matches
  <2>2. \A j \in Taken(t) : j \in M <=> StoredKey(t, j) = key
    BY <1>1, <1>3, MatchesAreEqual
  <2>. QED  BY <2>1, <2>2
<1>6. \A e \in 0 .. d-1 : At(c, h, e) \notin Vacant(t)
  BY <1>1 DEF Chained
<1>. HIDE DEF c, h, d, M
<1>7. ASSUME NEW e \in 0 .. d-1 PROVE At(c, h, e) # i
  <2>1. e \in 0 .. c-1 /\ d \in 0 .. c-1 /\ h \in 0 .. c-1 /\ e # d
    BY <1>2, <1>3
  <2>. QED  BY <1>2, <1>4, <2>1, AtInjective
<1>8. i \in S /\ \A e \in 0 .. d-1 : At(c, h, e) \notin S
  BY <1>5, <1>6, <1>7
<1>9. d \in FirstStops(c, h, S)
  BY <1>2, <1>3, <1>4, <1>8 DEF FirstStops
<1>10. ProbeEnd(c, h, S) = i
  <2>. HIDE DEF S
  <2>. QED  BY <1>2, <1>3, <1>4, <1>9, ProbeHits
<1>. QED  BY <1>10 DEF c, h, M

\* ... and for any other key at the first free slot.
LEMMA FindsVacant ==
  ASSUME NEW t, Formed(t), Vacant(t) # {}, NEW key \in KeySpace(t.capa),
         NEW S, Vacant(t) \subseteq S, S \cap Taken(t) = {}
  PROVE  FirstVacant(t, key, ProbeEnd(t.capa, ModOf(t, key), S))
<1>. DEFINE c == t.capa
            h == ModOf(t, key)
<1>1. /\ c \in Nat \ {0} /\ Slots(t) = 0 .. c-1 /\ h \in 0 .. c-1
      /\ Taken(t) \cup Vacant(t) = Slots(t)
  BY FormedFacts, KeySplits
<1>2. PICK d : d \in FirstStops(c, h, S)
  BY ProbesReturn DEF ProbeEnds
<1>3. d \in 0 .. c-1 /\ At(c, h, d) \in S /\ \A e \in 0 .. d-1 : At(c, h, e) \notin S
  BY <1>2 DEF FirstStops
<1>. HIDE DEF c, h
<1>4. ProbeEnd(c, h, S) = At(c, h, d)
  BY <1>1, <1>2, ProbeHits
<1>5. At(c, h, d) \in Slots(t)
  BY <1>1, <1>3, AtWraps
<1>6. At(c, h, d) \in Vacant(t)
  BY <1>1, <1>3, <1>5
<1>7. \A e \in 0 .. d-1 : At(c, h, e) \notin Vacant(t)
  BY <1>3
<1>. QED  BY <1>1, <1>3, <1>4, <1>6, <1>7 DEF FirstVacant, c, h

\* Storing a node under a free id, in the first free slot, keeps a table sound.
LEMMA PutIdSound ==
  ASSUME NEW t, NEW f, Sound(t, f), NEW key \in KeySpace(t.capa), NEW i, FirstVacant(t, key, i),
         NEW id \in Slots(t), id # FreeId(t), \A j \in Taken(t) : t.ids[j] # id,
         NEW g, DOMAIN f \subseteq DOMAIN g, \A n \in DOMAIN f : g[n] = f[n],
         id \in DOMAIN g \ {RootId}, key \div SymbSize \in DOMAIN g,
         g[id] = Append(g[key \div SymbSize], key % SymbSize),
         NEW u, PutIn(t, key, i, id, u)
  PROVE  Sound(u, g)
<1>. DEFINE h == ModOf(t, key)
            par(k) == k \div SymbSize
            sym(k) == k % SymbSize
<1>1. /\ Formed(t) /\ Chained(t) /\ Spelled(t, f)
      /\ t.capa \in Capas /\ t.capa \in Nat \ {0} /\ Slots(t) = 0 .. t.capa-1
      /\ Taken(t) \cup Vacant(t) = Slots(t) /\ Taken(t) \cap Vacant(t) = {}
  BY FormedFacts DEF Sound
<1>2. /\ Formed(u) /\ u.capa = t.capa
      /\ Taken(u) = Taken(t) \cup {i} /\ Vacant(u) = Vacant(t) \ {i}
      /\ StoredKey(u, i) = key /\ u.ids[i] = id
      /\ GetDsp(u, i) = Dist(t, h, i)
      /\ \A j \in Taken(t) : /\ StoredKey(u, j) = StoredKey(t, j) /\ u.ids[j] = t.ids[j]
                             /\ GetDsp(u, j) = GetDsp(t, j)
  BY DEF PutIn
<1>3. \A k : ModOf(u, k) = ModOf(t, k)
  BY <1>2 DEF ModOf
<1>4. Chained(u)
  <2>1. ASSUME NEW j \in Taken(t), NEW d \in 0 .. GetDsp(u, j) - 1
        PROVE  At(u.capa, ModOf(u, StoredKey(u, j)), d) \notin Vacant(u)
    BY <1>1, <1>2, <1>3 DEF Chained
  <2>2. ASSUME NEW d \in 0 .. GetDsp(u, i) - 1
        PROVE  At(u.capa, ModOf(u, StoredKey(u, i)), d) \notin Vacant(u)
    <3>1. PICK e \in Slots(t) :
            /\ At(t.capa, h, e) = i
            /\ \A x \in 0 .. e-1 : At(t.capa, h, x) \notin Vacant(t)
      BY DEF FirstVacant
    <3>2. e = Dist(t, h, i)
      <4>1. h \in Slots(t) /\ i \in Slots(t)
        BY <1>1, KeySplits DEF FirstVacant
      <4>. HIDE DEF h
      <4>. QED  BY <1>1, <3>1, <4>1, DistUnique
    <3>. QED  BY <1>2, <1>3, <3>1, <3>2
  <2>. QED  BY <1>2, <2>1, <2>2 DEF Chained
<1>5. \A j \in Taken(t) :
        /\ t.ids[j] \in DOMAIN f \ {RootId} /\ par(StoredKey(t, j)) \in DOMAIN f
        /\ f[t.ids[j]] = Append(f[par(StoredKey(t, j))], sym(StoredKey(t, j)))
  BY <1>1 DEF Spelled
<1>6. par(key) \in DOMAIN g /\ g[id] = Append(g[par(key)], sym(key))
  OBVIOUS
<1>. HIDE DEF par, sym
<1>7. \A j \in Taken(u) :
        /\ u.ids[j] \in DOMAIN g \ {RootId} /\ par(StoredKey(u, j)) \in DOMAIN g
        /\ g[u.ids[j]] = Append(g[par(StoredKey(u, j))], sym(StoredKey(u, j)))
  <2>1. ASSUME NEW j \in Taken(t)
        PROVE  /\ u.ids[j] \in DOMAIN g \ {RootId} /\ par(StoredKey(u, j)) \in DOMAIN g
               /\ g[u.ids[j]] = Append(g[par(StoredKey(u, j))], sym(StoredKey(u, j)))
    BY <1>2, <1>5
  <2>. QED  BY <1>2, <1>6, <2>1
<1>8. \A j, k \in Taken(u) : u.ids[j] = u.ids[k] => j = k
  <2>1. \A j, k \in Taken(t) : u.ids[j] = u.ids[k] => j = k
    BY <1>1, <1>2 DEF Spelled
  <2>. QED  BY <1>2, <2>1
<1>. QED  BY <1>2, <1>4, <1>7, <1>8 DEF Sound, Spelled, par, sym

SameSlots(t, u) ==
  /\ u.capa = t.capa /\ u.ids = t.ids
  /\ Taken(u) = Taken(t) /\ Vacant(u) = Vacant(t)
  /\ \A p : IdsBelow(u, p) = IdsBelow(t, p)

\* The number of nodes is no part of what makes a table sound.
LEMMA Resized ==
  ASSUME NEW t, NEW f, Sound(t, f), NEW m, NEW u, u = [t EXCEPT !.size = m]
  PROVE  Sound(u, f) /\ u.size = m /\ SameSlots(t, u)
<1>1. Formed(t) /\ Chained(t) /\ Spelled(t, f)
  BY DEF Sound
<1>2. /\ DOMAIN u = DOMAIN t /\ u.size = m /\ u.capa = t.capa /\ u.ids = t.ids
      /\ u.table = t.table /\ u.cht = t.cht /\ u.map = t.map
  BY <1>1 DEF Formed
<1>3. Slots(u) = Slots(t) /\ Vacant(u) = Vacant(t) /\ Taken(u) = Taken(t)
  BY <1>2 DEF Slots, Vacant, Taken, FreeId
<1>4. \A i : /\ Quo(u, i) = Quo(t, i) /\ Dsp1(u, i) = Dsp1(t, i) /\ GetDsp(u, i) = GetDsp(t, i)
  BY <1>2 DEF Quo, Dsp1, GetDsp
<1>5. \A i : StoredKey(u, i) = StoredKey(t, i)
  BY <1>2, <1>4 DEF StoredKey, KeyOf
<1>6. \A key : ModOf(u, key) = ModOf(t, key)
  BY <1>2 DEF ModOf
<1>7. Formed(u)
  <2>1. IsTable(u)
    BY <1>1, <1>2, <1>3 DEF Formed, IsTable
  <2>2. AuxComplete(u, Taken(u))
    BY <1>1, <1>2, <1>3, <1>4 DEF Formed, AuxComplete
  <2>. QED  BY <1>1, <1>2, <1>3, <1>4, <2>1, <2>2 DEF Formed
<1>8. Chained(u)
  BY <1>1, <1>2, <1>3, <1>4, <1>5, <1>6 DEF Chained
<1>9. Spelled(u, f)
  BY <1>1, <1>2, <1>3, <1>5 DEF Spelled
<1>. QED  BY <1>2, <1>3, <1>7, <1>8, <1>9 DEF Sound, IdsBelow, SameSlots

\* Ids differ and stay below the load limit, so that a slot stays free.
LEMMA SpareSlot ==
  ASSUME NEW t, NEW f, Sound(t, f),
         NEW m \in Nat, m <= MaxSizeOf(t.capa), \A i \in Taken(t) : t.ids[i] \in 1 .. m-1
  PROVE  Vacant(t) # {}
<1>. DEFINE c == t.capa
<1>1. /\ c \in Capas /\ c \in Nat \ {0} /\ Slots(t) = 0 .. c-1
      /\ Taken(t) \cup Vacant(t) = Slots(t)
      /\ MaxSizeOf(c) \in Nat /\ MaxSizeOf(c) < c
      /\ t.ids \in [Slots(t) -> Slots(t)]
  BY FormedFacts, CapaFacts DEF Sound
<1>2. SUFFICES ASSUME Vacant(t) = {} PROVE FALSE
  OBVIOUS
<1>3. Taken(t) = 0 .. c-1
  BY <1>1, <1>2
<1>. HIDE DEF c
<1>4. /\ IsFiniteSet(0 .. c-1) /\ Cardinality(0 .. c-1) = c
      /\ IsFiniteSet(1 .. m-1) /\ Cardinality(1 .. m-1) < c
  <2>1. c \in Nat \ {0} /\ m < c
    BY <1>1 DEF c
  <2>. DEFINE x == c - 1
              y == m - 1
  <2>2. x \in Int /\ y \in Int /\ x >= 0 /\ x + 1 = c /\ y < x
    BY <2>1
  <2>. HIDE DEF x, y
  <2>3. /\ IsFiniteSet(0 .. x) /\ Cardinality(0 .. x) = c
        /\ IsFiniteSet(1 .. y) /\ Cardinality(1 .. y) < c
    <3>1. 0 \in Int /\ 1 \in Int
      OBVIOUS
    <3>2. /\ IsFiniteSet(0 .. x) /\ Cardinality(0 .. x) = IF 0 > x THEN 0 ELSE x - 0 + 1
      BY <2>2, <3>1, FS_Interval
    <3>3. /\ IsFiniteSet(1 .. y) /\ Cardinality(1 .. y) = IF 1 > y THEN 0 ELSE y - 1 + 1
      BY <2>2, <3>1, FS_Interval
    <3>. QED  BY <2>1, <2>2, <3>2, <3>3
  <2>. QED  BY <2>3 DEF x, y
<1>5. t.ids \in [0 .. c-1 -> 1 .. m-1]
  BY <1>1, <1>3
<1>6. PICK i, j \in 0 .. c-1 : i # j /\ t.ids[i] = t.ids[j]
  BY <1>4, <1>5, FS_PigeonHole, ZenonT(30)
<1>. QED  BY <1>3, <1>6 DEF Sound, Spelled

\* f gives the n nodes of a trie their strings.
Names(n, f) ==
  /\ n \in Nat /\ f \in [0 .. n-1 -> Seq(Symbols)]
  /\ n > 0 => f[RootId] = <<>>
  /\ \A i, j \in DOMAIN f : f[i] = f[j] => i = j

\* A slot holds the key of a child exactly if its node has the child's string.
LEMMA KeyIsString ==
  ASSUME NEW t, NEW f, NEW m, Sound(t, f), Names(m, f), m <= t.capa,
         NEW n \in DOMAIN f, NEW s \in Symbols, NEW i \in Taken(t)
  PROVE  /\ MakeKey(n, s) \in KeySpace(t.capa)
         /\ StoredKey(t, i) = MakeKey(n, s) <=> f[t.ids[i]] = Append(f[n], s)
<1>. DEFINE key == StoredKey(t, i)
            p == key \div SymbSize
            x == key % SymbSize
<1>1. t.capa \in Capas /\ key \in KeySpace(t.capa)
  BY FormedFacts, StoredKeyFacts DEF Sound
<1>2. f[t.ids[i]] = Append(f[p], x) /\ p \in DOMAIN f
  BY DEF Sound, Spelled
<1>3. x \in Symbols /\ MakeKey(p, x) = key
  BY <1>1, KeyParts
<1>. HIDE DEF key, p, x
<1>4. n \in 0 .. t.capa-1
  <2>1. n \in 0 .. m-1 /\ m \in Nat /\ t.capa \in Nat
    BY <1>1, CapaFacts DEF Names
  <2>. QED  BY <2>1
<1>5. MakeKey(n, s) \in KeySpace(t.capa) /\ MakeKey(n, s) \div SymbSize = n /\ MakeKey(n, s) % SymbSize = s
  BY <1>1, <1>4, ChildKey
<1>6. key = MakeKey(n, s) => p = n /\ x = s
  BY <1>5 DEF p, x
<1>7. Append(f[p], x) = Append(f[n], s) => p = n /\ x = s
  <2>1. f[p] \in Seq(Symbols) /\ f[n] \in Seq(Symbols)
    BY <1>2 DEF Names
  <2>2. Append(f[p], x) = Append(f[n], s) => f[p] = f[n] /\ x = s
    BY <1>3, <2>1, AppendProperties
  <2>. QED  BY <1>2, <2>2 DEF Names
<1>. QED  BY <1>2, <1>3, <1>5, <1>6, <1>7 DEF key

\* No two slots hold the same key.
LEMMA KeysDiffer ==
  ASSUME NEW t, NEW f, NEW m, Sound(t, f), Names(m, f),
         NEW i \in Taken(t), NEW j \in Taken(t), StoredKey(t, i) = StoredKey(t, j)
  PROVE  i = j
<1>1. /\ t.ids[i] \in DOMAIN f /\ t.ids[j] \in DOMAIN f /\ f[t.ids[i]] = f[t.ids[j]]
      /\ t.ids[i] = t.ids[j] => i = j
  BY DEF Sound, Spelled
<1>. QED  BY <1>1 DEF Names

----------------------------------------------------------------------------
\* A table that holds the nodes of f, all but the root.
Whole(t, f) ==
  /\ Names(t.size, f) /\ t.size <= MaxSizeOf(t.capa)
  /\ Sound(t, f)
  /\ IdsBelow(t, t.capa) = 1 .. t.size-1

LEMMA WholeFacts ==
  ASSUME NEW t, NEW f, Whole(t, f)
  PROVE  /\ t.capa \in Capas /\ t.size \in Nat /\ t.size < t.capa
         /\ \A i \in Taken(t) : t.ids[i] \in 1 .. t.size-1
         /\ \A n \in 1 .. t.size-1 : \E i \in Taken(t) : t.ids[i] = n
         /\ Vacant(t) # {}
         /\ Formed(t) /\ Taken(t) \cap Vacant(t) = {}
<1>1. /\ t.capa \in Capas /\ t.capa \in Nat /\ Slots(t) = 0 .. t.capa-1
      /\ Taken(t) \cup Vacant(t) = Slots(t) /\ Taken(t) \cap Vacant(t) = {} /\ Formed(t)
  BY FormedFacts DEF Whole, Sound
<1>2. {j \in Taken(t) : j < t.capa} = Taken(t)
  BY <1>1
<1>3. /\ \A i \in Taken(t) : t.ids[i] \in 1 .. t.size-1
      /\ \A n \in 1 .. t.size-1 : \E i \in Taken(t) : t.ids[i] = n
  BY <1>2 DEF Whole, IdsBelow
<1>4. t.size \in Nat /\ t.size <= MaxSizeOf(t.capa) /\ Sound(t, f)
  BY DEF Whole, Names
<1>5. t.size < t.capa
  BY <1>1, <1>4, CapaFacts
<1>6. Vacant(t) # {}
  BY <1>3, <1>4, SpareSlot
<1>. QED  BY <1>1, <1>3, <1>4, <1>5, <1>6

LEMMA CallsEnd ==
  ASSUME NEW t, NEW f, Whole(t, f), NEW n \in DOMAIN f, NEW s \in Symbols
  PROVE  Terminates(t, n, s)
<1>1. t.capa \in Capas /\ Formed(t) /\ Vacant(t) # {} /\ n \in 0 .. t.capa-1
  <2>1. t.capa \in Capas /\ t.capa \in Nat /\ t.size \in Nat /\ t.size < t.capa
        /\ Formed(t) /\ Vacant(t) # {}
    BY WholeFacts, CapaFacts
  <2>2. n \in 0 .. t.size-1
    BY DEF Whole, Names
  <2>. QED  BY <2>1, <2>2
<1>2. MakeKey(n, s) \in KeySpace(t.capa)
  BY <1>1, ChildKey
<1>3. Vacant(t) \subseteq Stops(t, n, s)
  BY DEF Stops
<1>. QED  BY <1>1, <1>2, <1>3, ProbesReturn DEF Terminates

\* find_child and add_child stop at the slot of the child ...
LEMMA StopsAtChild ==
  ASSUME NEW t, NEW f, Whole(t, f), NEW n \in DOMAIN f, NEW s \in Symbols,
         NEW j \in DOMAIN f, f[j] = Append(f[n], s)
  PROVE  Slot(t, n, s) \in Taken(t) /\ t.ids[Slot(t, n, s)] = j
<1>. DEFINE key == MakeKey(n, s)
<1>1. /\ Names(t.size, f) /\ Sound(t, f) /\ t.size <= t.capa
      /\ t.size \in Nat /\ f \in [0 .. t.size-1 -> Seq(Symbols)]
  <2>1. t.capa \in Nat /\ t.size \in Nat /\ t.size < t.capa
    BY WholeFacts, CapaFacts
  <2>. QED  BY <2>1 DEF Whole, Names
<1>2. j # RootId
  <2>1. f[n] \in Seq(Symbols)
    BY <1>1
  <2>2. Append(f[n], s) # <<>>
    BY <2>1, AppendProperties
  <2>3. t.size > 0 => f[RootId] = <<>>
    BY <1>1 DEF Names
  <2>4. t.size > 0
    BY <1>1
  <2>. QED  BY <2>2, <2>3, <2>4
<1>3. j \in 1 .. t.size-1
  BY <1>1, <1>2 DEF RootId
<1>4. PICK i \in Taken(t) : t.ids[i] = j
  BY <1>3, WholeFacts
<1>5. StoredKey(t, i) = key
  BY <1>1, <1>4, KeyIsString
<1>6. \A k \in Taken(t) : StoredKey(t, k) = key => k = i
  BY <1>1, <1>5, KeysDiffer
<1>. HIDE DEF key
<1>7. ProbeEnd(t.capa, ModOf(t, key), Vacant(t) \cup Matches(t, QuoOf(t, key), ModOf(t, key))) = i
  BY <1>1, <1>5, <1>6, FindsStored
<1>8. Slot(t, n, s) = i
  BY <1>7 DEF Slot, Stops, key
<1>. QED  BY <1>4, <1>8

\* ... or, when there is none, at the first free one.
LEMMA StopsAtVacant ==
  ASSUME NEW t, NEW f, Whole(t, f), NEW n \in DOMAIN f, NEW s \in Symbols,
         \A j \in DOMAIN f : f[j] # Append(f[n], s)
  PROVE  MakeKey(n, s) \in KeySpace(t.capa) /\ FirstVacant(t, MakeKey(n, s), Slot(t, n, s))
<1>. DEFINE key == MakeKey(n, s)
            M == Matches(t, QuoOf(t, key), ModOf(t, key))
<1>1. /\ Names(t.size, f) /\ Sound(t, f) /\ t.size <= t.capa /\ t.capa \in Capas
      /\ Formed(t) /\ Vacant(t) # {} /\ Taken(t) \cap Vacant(t) = {}
      /\ n \in 0 .. t.capa-1
  <2>1. t.capa \in Nat /\ t.size \in Nat /\ t.size < t.capa /\ t.capa \in Capas
        /\ Formed(t) /\ Vacant(t) # {} /\ Taken(t) \cap Vacant(t) = {}
    BY WholeFacts, CapaFacts
  <2>2. n \in 0 .. t.size-1 /\ Names(t.size, f) /\ Sound(t, f)
    BY DEF Whole, Names
  <2>. QED  BY <2>1, <2>2
<1>2. key \in KeySpace(t.capa)
  BY <1>1, ChildKey
<1>3. \A i \in Taken(t) : i \notin M
  <2>1. SUFFICES ASSUME NEW i \in Taken(t), i \in M PROVE FALSE
    OBVIOUS
  <2>2. StoredKey(t, i) = key
    BY <1>1, <1>2, <2>1, MatchesAreEqual
  <2>3. f[t.ids[i]] = Append(f[n], s)
    BY <1>1, <2>2, KeyIsString
  <2>. QED  BY <1>1, <2>3 DEF Sound, Spelled
<1>. HIDE DEF key, M
<1>4. FirstVacant(t, key, ProbeEnd(t.capa, ModOf(t, key), Vacant(t) \cup M))
  <2>. DEFINE S == Vacant(t) \cup M
  <2>1. Vacant(t) \subseteq S /\ S \cap Taken(t) = {}
    BY <1>1, <1>3
  <2>. HIDE DEF S
  <2>2. FirstVacant(t, key, ProbeEnd(t.capa, ModOf(t, key), S))
    BY <1>1, <1>2, <2>1, FindsVacant
  <2>. QED  BY <2>2 DEF S
<1>. QED  BY <1>2, <1>4 DEF Slot, Stops, key, M

LEMMA AddChildFinds ==
  ASSUME NEW t, NEW f, Whole(t, f), NEW n \in DOMAIN f, NEW s \in Symbols,
         NEW j \in DOMAIN f, f[j] = Append(f[n], s)
  PROVE  AddChildHere(t, n, s) = [trie |-> t, node |-> j, added |-> FALSE]
<1>1. Slot(t, n, s) \in Taken(t) /\ t.ids[Slot(t, n, s)] = j
  BY StopsAtChild
<1>2. Slot(t, n, s) \notin Vacant(t)
  BY <1>1, WholeFacts
<1>. QED  BY <1>1, <1>2 DEF AddChildHere

\* What add_child returns for a new child.
Grown(t, f, n, s, r) ==
  /\ r.added /\ r.node = t.size
  /\ r.trie.size = t.size + 1 /\ r.trie.capa = t.capa
  /\ Whole(r.trie, Extended(f, t.size, Append(f[n], s)))

LEMMA AddChildAdds ==
  ASSUME NEW t, NEW f, Whole(t, f), t.size < MaxSizeOf(t.capa),
         NEW n \in DOMAIN f, NEW s \in Symbols,
         \A j \in DOMAIN f : f[j] # Append(f[n], s)
  PROVE  Grown(t, f, n, s, AddChildHere(t, n, s))
<1>. DEFINE key == MakeKey(n, s)
            i == Slot(t, n, s)
            id == t.size
            u == PutId(t, i, QuoOf(t, key), ModOf(t, key), id)
            g == Extended(f, id, Append(f[n], s))
            r == AddChildHere(t, n, s)
<1>1. key \in KeySpace(t.capa) /\ FirstVacant(t, key, i)
  BY StopsAtVacant
<1>2. i \in Vacant(t)
  BY <1>1 DEF FirstVacant
<1>3. /\ t.capa \in Capas /\ t.capa \in Nat \ {0} /\ t.size \in Nat /\ t.size < t.capa
      /\ Slots(t) = 0 .. t.capa-1 /\ Formed(t) /\ Sound(t, f) /\ Taken(t) \cap Vacant(t) = {}
      /\ \A j \in Taken(t) : t.ids[j] \in 1 .. t.size-1
      /\ MaxSizeOf(t.capa) \in Nat /\ MaxSizeOf(t.capa) < t.capa
      /\ f \in [0 .. t.size-1 -> Seq(Symbols)]
      /\ \A j, k \in DOMAIN f : f[j] = f[k] => j = k
      /\ t.size > 0 => f[RootId] = <<>>
  BY WholeFacts, CapaFacts, FormedFacts DEF Whole, Names
<1>4. r = [trie |-> [u EXCEPT !.size = t.size + 1], node |-> id, added |-> TRUE]
  <2>1. r = [trie |-> [u EXCEPT !.size = @ + 1], node |-> id, added |-> TRUE]
    BY <1>2 DEF AddChildHere
  <2>2. u.size = t.size
    BY <1>3 DEF PutId, UpdateSlot, Formed
  <2>. HIDE DEF r, u
  <2>. QED  BY <2>1, <2>2
<1>. HIDE DEF r, u, g, i, key
<1>5. t.size # FreeId(t) /\ id \in Slots(t) /\ \A j \in Taken(t) : t.ids[j] # id
  BY <1>3 DEF FreeId
<1>6. u = PutId(t, i, QuoOf(t, key), ModOf(t, key), id)
  BY DEF u
<1>. HIDE DEF id
<1>7. PutIn(t, key, i, id, u)
  <2>1. id # FreeId(t)
    BY <1>5 DEF id
  <2>. QED  BY <1>1, <1>2, <1>3, <1>5, <1>6, <2>1, PutIdStores
<1>8. /\ DOMAIN g = 0 .. t.size /\ g[id] = Append(f[n], s) /\ \A j \in DOMAIN f : g[j] = f[j]
      /\ id \in DOMAIN g \ {RootId} /\ n \in DOMAIN g /\ t.size > 0
  BY <1>3 DEF g, Extended, id, RootId
<1>9. key \div SymbSize = n /\ key % SymbSize = s
  <2>1. n \in 0 .. t.capa-1
    BY <1>3
  <2>. QED  BY <1>3, <2>1, ChildKey DEF key
<1>10. Sound(u, g)
  <2>1. key \div SymbSize \in DOMAIN g /\ g[id] = Append(g[key \div SymbSize], key % SymbSize)
    BY <1>8, <1>9
  <2>2. DOMAIN f \subseteq DOMAIN g
    BY <1>3, <1>8
  <2>3. id # FreeId(t)
    BY <1>5 DEF id
  <2>. QED  BY <1>1, <1>3, <1>5, <1>7, <1>8, <2>1, <2>2, <2>3, PutIdSound
<1>11. Names(t.size + 1, g)
  <2>1. f[n] \in Seq(Symbols) /\ Append(f[n], s) \in Seq(Symbols)
    BY <1>3, AppendProperties
  <2>2. g \in [0 .. t.size -> Seq(Symbols)]
    <3>1. g = [j \in DOMAIN g |-> g[j]]
      BY DEF g, Extended
    <3>2. ASSUME NEW j \in 0 .. t.size PROVE g[j] \in Seq(Symbols)
      <4>1. CASE j = id
        BY <1>8, <2>1, <4>1
      <4>2. CASE j # id
        <5>1. j \in DOMAIN f
          BY <1>3, <4>2 DEF id
        <5>. QED  BY <1>3, <1>8, <5>1
      <4>. QED  BY <4>1, <4>2
    <3>. QED  BY <1>8, <3>1, <3>2
  <2>3. \A j, k \in DOMAIN g : g[j] = g[k] => j = k
    <3>1. DOMAIN g = DOMAIN f \cup {id}
      BY DEF g, Extended
    <3>. QED  BY <1>3, <1>8, <3>1
  <2>4. g[RootId] = <<>> /\ (t.size + 1) - 1 = t.size /\ t.size + 1 \in Nat
    <3>1. RootId \in DOMAIN f /\ f[RootId] = <<>>
      BY <1>3, <1>8 DEF RootId
    <3>2. g[RootId] = <<>>
      BY <1>8, <3>1
    <3>3. t.size \in Nat
      BY <1>3
    <3>. QED  BY <3>2, <3>3
  <2>. QED  BY <2>2, <2>3, <2>4 DEF Names
<1>. DEFINE w == [u EXCEPT !.size = t.size + 1]
<1>12. /\ Sound(w, g) /\ w.capa = t.capa /\ w.size = t.size + 1
       /\ Taken(w) = Taken(t) \cup {i} /\ \A j \in Taken(t) : w.ids[j] = t.ids[j]
       /\ w.ids[i] = id
  <2>. DEFINE m == t.size + 1
  <2>1. w = [u EXCEPT !.size = m]
    OBVIOUS
  <2>. HIDE DEF w, m
  <2>2. Sound(w, g) /\ w.size = m /\ SameSlots(u, w)
    BY <1>10, <2>1, Resized
  <2>. QED  BY <1>7, <2>2 DEF PutIn, SameSlots, m
<1>. HIDE DEF w
<1>13. IdsBelow(w, w.capa) = 1 .. w.size-1
  <2>1. i \in Slots(t)
    BY <1>2 DEF Vacant
  <2>2. Taken(t) \subseteq Slots(t)
    BY DEF Taken
  <2>3. {j \in Taken(t) : j < t.capa} = Taken(t) /\ {j \in Taken(w) : j < t.capa} = Taken(t) \cup {i}
    BY <1>3, <1>12, <2>1, <2>2
  <2>4. {t.ids[j] : j \in Taken(t)} = 1 .. t.size-1
    BY <2>3 DEF Whole, IdsBelow
  <2>5. {w.ids[j] : j \in Taken(t) \cup {i}} = {t.ids[j] : j \in Taken(t)} \cup {id}
    BY <1>12
  <2>6. (1 .. t.size-1) \cup {id} = 1 .. t.size /\ w.size - 1 = t.size
    BY <1>3, <1>8, <1>12 DEF id
  <2>. QED  BY <1>12, <2>3, <2>4, <2>5, <2>6 DEF IdsBelow
<1>14. w.size <= MaxSizeOf(w.capa)
  BY <1>3, <1>12
<1>15. Whole(w, g)
  BY <1>11, <1>12, <1>13, <1>14 DEF Whole
<1>16. r.added /\ r.node = t.size /\ r.trie = w
  BY <1>4 DEF id, w
<1>. QED  BY <1>12, <1>15, <1>16 DEF Grown, r, g, id

\* find_child returns the id of the child, or nil.
LEMMA FindChildFinds ==
  ASSUME NEW t, NEW f, Whole(t, f), NEW n \in DOMAIN f, NEW s \in Symbols
  PROVE  /\ \A j \in DOMAIN f : f[j] = Append(f[n], s) => FindChild(t, n, s) = j
         /\ (\A j \in DOMAIN f : f[j] # Append(f[n], s)) => FindChild(t, n, s) = NilId
<1>1. t.size # 0
  BY DEF Whole, Names
<1>2. ASSUME NEW j \in DOMAIN f, f[j] = Append(f[n], s) PROVE FindChild(t, n, s) = j
  <2>1. Slot(t, n, s) \in Taken(t) /\ t.ids[Slot(t, n, s)] = j
    BY <1>2, StopsAtChild
  <2>. QED  BY <1>1, <2>1, WholeFacts DEF FindChild
<1>3. ASSUME \A j \in DOMAIN f : f[j] # Append(f[n], s) PROVE FindChild(t, n, s) = NilId
  <2>1. FirstVacant(t, MakeKey(n, s), Slot(t, n, s))
    BY <1>3, StopsAtVacant
  <2>. QED  BY <1>1, <2>1 DEF FindChild, FirstVacant
<1>. QED  BY <1>2, <1>3

\* An empty table.
LEMMA NewTrieSound ==
  ASSUME NEW c \in Capas, NEW f
  PROVE  /\ Sound(NewTrie(c), f) /\ NewTrie(c).capa = c /\ NewTrie(c).size = 0
         /\ Taken(NewTrie(c)) = {}
<1>. DEFINE t == NewTrie(c)
<1>1. c \in Nat \ {0} /\ c >= MinCapa /\ MinCapa \in Nat
  BY CapaFacts, DisplacementAssumption
<1>2. t = [table |-> [i \in 0 .. c-1 |-> 0], ids |-> [i \in 0 .. c-1 |-> c - 1],
           cht |-> NoDsps, map |-> NoDsps, size |-> 0, capa |-> c]
  BY <1>1 DEF NewTrie
<1>. HIDE DEF t
<1>3. /\ DOMAIN t = {"table", "ids", "cht", "map", "size", "capa"}
      /\ t.table = [i \in 0 .. c-1 |-> 0] /\ t.ids = [i \in 0 .. c-1 |-> c - 1]
      /\ t.cht = NoDsps /\ t.map = NoDsps /\ t.size = 0 /\ t.capa = c
  BY <1>2
<1>4. Slots(t) = 0 .. c-1 /\ Taken(t) = {}
  BY <1>3 DEF Slots, Taken, Vacant, FreeId
<1>5. IsTable(t)
  <2>1. SymbSize * Dsp1Size \in Nat \ {0}
    BY DisplacementAssumption DEF Dsp1Size
  <2>. QED  BY <1>1, <1>3, <1>4, <2>1 DEF IsTable
<1>6. AuxComplete(t, Taken(t))
  BY <1>3, <1>4 DEF AuxComplete, NoDsps
<1>. QED  BY <1>3, <1>4, <1>5, <1>6 DEF Sound, Formed, Chained, Spelled, t

LEMMA FirstTrie ==
  /\ NewTrie(0) = NewTrie(MinCapa) /\ MinCapa \in Capas
  /\ \A f : Sound(NewTrie(0), f) /\ NewTrie(0).capa = MinCapa
  /\ NewTrie(0).size = 0 /\ Taken(NewTrie(0)) = {}
<1>1. MinCapa \in Capas /\ MinCapa \in Nat \ {0}
  BY CapaFacts, DisplacementAssumption
<1>2. NewTrie(0) = NewTrie(MinCapa)
  BY <1>1 DEF NewTrie
<1>. QED  BY <1>1, <1>2, NewTrieSound

----------------------------------------------------------------------------
LEMMA AtRest == IndInv => Whole(ht, str)
BY DEF IndInv, Strings, Whole, Names

LEMMA NodesAreNamed == ASSUME IndInv, ht.size > 0 PROVE Nodes(ht) = DOMAIN str
<1>1. Whole(ht, str)
  BY AtRest
<1>2. /\ ht.size \in Nat /\ DOMAIN str = 0 .. ht.size-1
      /\ \A i \in Taken(ht) : ht.ids[i] \in 1 .. ht.size-1
      /\ \A n \in 1 .. ht.size-1 : \E i \in Taken(ht) : ht.ids[i] = n
  BY <1>1, WholeFacts DEF Whole, Names
<1>. QED  BY <1>2 DEF Nodes, RootId

LEMMA StoreWhole ==
  ASSUME NEW t, Whole(t, str), t.size < MaxSizeOf(t.capa),
         NEW n \in DOMAIN str, NEW s \in Symbols, Store(t, n, s)
  PROVE  Whole(ht', str')
<1>. DEFINE r == AddChildHere(t, n, s)
<1>1. ht' = r.trie /\ str' = IF r.added THEN Extended(str, r.node, Append(str[n], s)) ELSE str
  BY DEF Store
<1>2. CASE \E j \in DOMAIN str : str[j] = Append(str[n], s)
  <2>1. PICK j \in DOMAIN str : str[j] = Append(str[n], s)
    BY <1>2
  <2>2. r = [trie |-> t, node |-> j, added |-> FALSE]
    BY <2>1, AddChildFinds
  <2>. HIDE DEF r
  <2>. QED  BY <1>1, <2>2
<1>3. CASE \A j \in DOMAIN str : str[j] # Append(str[n], s)
  <2>1. Grown(t, str, n, s, r)
    BY <1>3, AddChildAdds
  <2>. HIDE DEF r
  <2>. QED  BY <1>1, <2>1 DEF Grown
<1>. QED  BY <1>2, <1>3

\* The new table has room for the ids of the nodes copied so far.
LEMMA RoomWhileCopying ==
  ASSUME IndInv, phase = "copy"
  PROVE  /\ Whole(ht, str) /\ Sound(new_ht, str) /\ ht.size > 0 /\ pos \in 0 .. ht.capa
         /\ ht.capa \in Capas /\ new_ht.capa \in Capas /\ new_ht.capa = 2 * ht.capa
         /\ ht.size < MaxSizeOf(new_ht.capa)
         /\ {new_ht.ids[i] : i \in Taken(new_ht)} = IdsBelow(ht, pos)
         /\ IdsBelow(ht, pos) \subseteq 1 .. ht.size-1
         /\ Vacant(new_ht) # {}
<1>1. /\ Whole(ht, str) /\ Sound(new_ht, str) /\ ht.size > 0 /\ pos \in 0 .. ht.capa
      /\ new_ht.capa = 2 * ht.capa
      /\ IdsBelow(new_ht, new_ht.capa) = IdsBelow(ht, pos)
  BY AtRest DEF IndInv
<1>2. /\ ht.capa \in Capas /\ new_ht.capa \in Capas
      /\ ht.size \in Nat /\ ht.size <= MaxSizeOf(ht.capa)
  BY <1>1, WholeFacts, FormedFacts DEF Sound, Whole
<1>3. ht.size < MaxSizeOf(new_ht.capa) /\ MaxSizeOf(new_ht.capa) \in Nat
  BY <1>1, <1>2, CapaFacts
<1>4. {new_ht.ids[i] : i \in Taken(new_ht)} = IdsBelow(ht, pos)
  <2>1. Taken(new_ht) \subseteq 0 .. new_ht.capa-1 /\ new_ht.capa \in Nat
    BY <1>1, FormedFacts DEF Sound
  <2>2. {j \in Taken(new_ht) : j < new_ht.capa} = Taken(new_ht)
    BY <2>1
  <2>. QED  BY <1>1, <2>2 DEF IdsBelow
<1>5. IdsBelow(ht, pos) \subseteq 1 .. ht.size-1
  BY <1>1, WholeFacts DEF IdsBelow
<1>6. Vacant(new_ht) # {}
  <2>1. \A i \in Taken(new_ht) : new_ht.ids[i] \in 1 .. ht.size-1
    BY <1>4, <1>5
  <2>. QED  BY <1>1, <1>2, <1>3, <2>1, SpareSlot
<1>. QED  BY <1>1, <1>2, <1>3, <1>4, <1>5, <1>6

\* Twice as many slots, twice as many keys.
LEMMA DoubledProduct ==
  ASSUME NEW a \in Nat, NEW b \in Nat, NEW c \in Nat, b = 2 * a
  PROVE  a * c \in Nat /\ b * c \in Nat /\ a * c <= b * c
<1>1. a * c \in Nat
  OBVIOUS
<1>2. b * c = a * c + a * c
  OBVIOUS
<1>. QED  BY <1>1, <1>2

\* The slot at pos is copied to the first free slot for its key.
LEMMA SlotCopied ==
  ASSUME IndInv, phase = "copy", pos \in Taken(ht)
  PROVE  /\ HasRoomFor(new_ht, StoredKey(ht, pos))
         /\ Sound(CopySlot(ht, new_ht, pos), str)
         /\ CopySlot(ht, new_ht, pos).capa = new_ht.capa
         /\ IdsBelow(CopySlot(ht, new_ht, pos), new_ht.capa) = IdsBelow(ht, pos) \cup {ht.ids[pos]}
<1>. DEFINE key == StoredKey(ht, pos)
            i == FreeSlotFor(new_ht, key)
            id == ht.ids[pos]
            u == CopySlot(ht, new_ht, pos)
<1>1. /\ Whole(ht, str) /\ Sound(ht, str) /\ Sound(new_ht, str) /\ ht.size > 0 /\ pos \in 0 .. ht.capa
      /\ ht.capa \in Capas /\ new_ht.capa \in Capas /\ new_ht.capa = 2 * ht.capa
      /\ ht.size < MaxSizeOf(new_ht.capa)
      /\ {new_ht.ids[j] : j \in Taken(new_ht)} = IdsBelow(ht, pos)
      /\ Vacant(new_ht) # {} /\ Formed(ht) /\ Formed(new_ht)
  BY RoomWhileCopying DEF Whole, Sound
<1>2. /\ ht.capa \in Nat \ {0} /\ new_ht.capa \in Nat \ {0} /\ ht.size \in Nat
      /\ Taken(ht) \cap Vacant(ht) = {}
      /\ MaxSizeOf(new_ht.capa) \in Nat /\ MaxSizeOf(new_ht.capa) < new_ht.capa
      /\ Slots(new_ht) = 0 .. new_ht.capa-1 /\ id \in 1 .. ht.size-1
  BY <1>1, CapaFacts, WholeFacts, FormedFacts
<1>3. key \in KeySpace(new_ht.capa)
  <2>1. key \in 0 .. ht.capa * SymbSize - 1
    BY <1>1, StoredKeyFacts DEF KeySpace
  <2>2. ht.capa * SymbSize <= new_ht.capa * SymbSize /\ ht.capa * SymbSize \in Nat /\ new_ht.capa * SymbSize \in Nat
    <3>1. SymbSize \in Nat
      BY DisplacementAssumption
    <3>. QED  BY <1>1, <1>2, <3>1, DoubledProduct
  <2>. HIDE DEF key
  <2>. QED  BY <2>1, <2>2 DEF KeySpace
<1>4. HasRoomFor(new_ht, key) /\ FirstVacant(new_ht, key, i)
  <2>. HIDE DEF key
  <2>1. Vacant(new_ht) \cap Taken(new_ht) = {}
    BY DEF Taken
  <2>2. ProbeEnds(new_ht.capa, ModOf(new_ht, key), Vacant(new_ht))
    BY <1>1, <1>3, ProbesReturn
  <2>3. FirstVacant(new_ht, key, ProbeEnd(new_ht.capa, ModOf(new_ht, key), Vacant(new_ht)))
    BY <1>1, <1>3, <2>1, FindsVacant
  <2>. QED  BY <2>2, <2>3 DEF HasRoomFor, FreeSlotFor
<1>5. u = PutId(new_ht, i, QuoOf(new_ht, key), ModOf(new_ht, key), id)
  BY <1>2 DEF CopySlot
<1>6. /\ key \div SymbSize \in DOMAIN str /\ id \in DOMAIN str \ {RootId}
      /\ str[id] = Append(str[key \div SymbSize], key % SymbSize)
  BY <1>1 DEF Sound, Spelled
<1>7. \A j \in Taken(new_ht) : new_ht.ids[j] # id
  <2>1. \A k \in Taken(ht) : k < pos => ht.ids[k] # id
    BY <1>1, <1>2 DEF Sound, Spelled
  <2>. QED  BY <1>1, <2>1 DEF IdsBelow
<1>. HIDE DEF key, i, u
<1>8. id \in Slots(new_ht) /\ id # FreeId(new_ht)
  BY <1>1, <1>2, SMTT(30) DEF FreeId
<1>. HIDE DEF id
<1>9. PutIn(new_ht, key, i, id, u)
  <2>1. i \in Vacant(new_ht)
    BY <1>4 DEF FirstVacant
  <2>. QED  BY <1>1, <1>3, <1>5, <1>8, <2>1, PutIdStores
<1>10. Sound(u, str)
  BY <1>1, <1>3, <1>4, <1>6, <1>7, <1>8, <1>9, PutIdSound
<1>11. u.capa = new_ht.capa /\ IdsBelow(u, new_ht.capa) = IdsBelow(ht, pos) \cup {id}
  <2>1. /\ u.capa = new_ht.capa /\ Taken(u) = Taken(new_ht) \cup {i} /\ u.ids[i] = id
        /\ \A j \in Taken(new_ht) : u.ids[j] = new_ht.ids[j]
    BY <1>9 DEF PutIn
  <2>2. Taken(u) \subseteq 0 .. new_ht.capa-1
    BY <2>1, <1>2, <1>10, FormedFacts DEF Sound
  <2>3. {j \in Taken(u) : j < new_ht.capa} = Taken(new_ht) \cup {i}
    BY <1>2, <2>1, <2>2
  <2>4. {u.ids[j] : j \in Taken(new_ht) \cup {i}} = {new_ht.ids[j] : j \in Taken(new_ht)} \cup {id}
    BY <2>1
  <2>. QED  BY <1>1, <2>1, <2>3, <2>4 DEF IdsBelow
<1>. QED  BY <1>4, <1>10, <1>11 DEF key, u, id

LEMMA InitInv == Init => IndInv
<1>1. SUFFICES ASSUME Init PROVE IndInv
  OBVIOUS
<1>2. /\ ht = NewTrie(0) /\ str = [i \in {} |-> <<>>]
      /\ phase = "ready" /\ pos = 0 /\ new_ht = NewTrie(0)
  BY <1>1 DEF Init
<1>3. Sound(ht, str) /\ ht.capa = MinCapa /\ ht.size = 0 /\ Taken(ht) = {} /\ MinCapa \in Capas
  BY <1>2, FirstTrie
<1>4. IdsBelow(ht, ht.capa) = {} /\ 1 .. ht.size-1 = {} /\ 0 .. ht.size-1 = {}
  BY <1>3 DEF IdsBelow
<1>5. Strings
  <2>1. str \in [{} -> Seq(Symbols)] /\ DOMAIN str = {}
    BY <1>2
  <2>2. MaxSizeOf(ht.capa) \in Nat
    BY <1>3, CapaFacts
  <2>. QED  BY <1>3, <1>4, <2>1, <2>2 DEF Strings
<1>. QED  BY <1>2, <1>3, <1>4, <1>5 DEF IndInv

LEMMA InsertRootInv == IndInv /\ InsertRoot => IndInv'
<1>1. SUFFICES ASSUME IndInv, InsertRoot PROVE IndInv'
  OBVIOUS
<1>2. /\ phase = "ready" /\ ht.size = 0 /\ ht' = [ht EXCEPT !.size = 1]
      /\ str' = [i \in {RootId} |-> <<>>]
      /\ UNCHANGED <<phase, pos, arg, new_ht>>
  BY <1>1 DEF InsertRoot, AddRoot
<1>3. Whole(ht, str)
  BY <1>1, AtRest
<1>4. Taken(ht) = {}
  BY <1>2, <1>3, WholeFacts
<1>5. Sound(ht, str')
  BY <1>3, <1>4 DEF Whole, Sound, Spelled
<1>6. Sound(ht', str') /\ ht'.size = 1 /\ SameSlots(ht, ht')
  BY <1>2, <1>5, Resized, ZenonT(30)
<1>7. Taken(ht') = {} /\ ht'.capa = ht.capa /\ ht.capa \in Capas
  BY <1>3, <1>4, <1>6, WholeFacts DEF SameSlots
<1>8. Strings'
  <2>1. MaxSizeOf(ht'.capa) \in Nat /\ MaxSizeOf(ht'.capa) >= 2
    BY <1>7, CapaFacts
  <2>2. 0 .. ht'.size-1 = {RootId}
    BY <1>6 DEF RootId
  <2>3. <<>> \in Seq(Symbols)
    OBVIOUS
  <2>. QED  BY <1>2, <1>6, <2>1, <2>2, <2>3 DEF Strings
<1>9. IdsBelow(ht', ht'.capa) = 1 .. ht'.size-1
  BY <1>6, <1>7 DEF IdsBelow
<1>10. phase' = "ready" /\ pos' = 0 /\ new_ht' = NewTrie(0)
  BY <1>1, <1>2 DEF IndInv
<1>. QED  BY <1>6, <1>8, <1>9, <1>10 DEF IndInv

LEMMA RestInv ==
  ASSUME Whole(ht', str'), phase' = "ready", pos' = 0, new_ht' = NewTrie(0)
  PROVE  IndInv'
BY DEF Whole, Names, IndInv, Strings

LEMMA InsertChildInv ==
  ASSUME IndInv, NEW n \in Nodes(ht), NEW s \in Symbols, InsertChild(n, s)
  PROVE  IndInv'
<1>1. /\ phase = "ready" /\ ht.size > 0 /\ ~Full(ht) /\ Store(ht, n, s)
      /\ UNCHANGED <<phase, pos, arg, new_ht>>
  BY DEF InsertChild
<1>2. Whole(ht, str) /\ n \in DOMAIN str
  BY <1>1, AtRest, NodesAreNamed
<1>3. ht.size < MaxSizeOf(ht.capa)
  <2>1. ht.size \in Nat /\ MaxSizeOf(ht.capa) \in Nat
    BY <1>2, WholeFacts, CapaFacts
  <2>. QED  BY <1>1, <2>1 DEF Full
<1>4. Whole(ht', str')
  BY <1>1, <1>2, <1>3, StoreWhole
<1>5. phase' = "ready" /\ pos' = 0 /\ new_ht' = NewTrie(0)
  BY <1>1 DEF IndInv
<1>. QED  BY <1>4, <1>5, RestInv

LEMMA BeginExpandInv ==
  ASSUME IndInv, NEW n \in Nodes(ht), NEW s \in Symbols, BeginExpand(n, s)
  PROVE  IndInv'
<1>1. /\ phase = "ready" /\ ht.size > 0 /\ 2 * ht.capa \in Capas
      /\ phase' = "copy" /\ pos' = 0 /\ arg' = [node |-> n, symb |-> s]
      /\ new_ht' = NewTrie(2 * ht.capa) /\ UNCHANGED <<ht, str>>
  BY DEF BeginExpand
<1>2. Whole(ht, str) /\ n \in DOMAIN str
  BY <1>1, AtRest, NodesAreNamed
<1>3. /\ Sound(new_ht', str) /\ new_ht'.capa = 2 * ht.capa /\ Taken(new_ht') = {}
  BY <1>1, NewTrieSound
<1>4. ht.capa \in Nat /\ Taken(ht) \subseteq 0 .. ht.capa-1
  BY <1>2, FormedFacts, WholeFacts
<1>5. IdsBelow(ht, 0) = {} /\ IdsBelow(new_ht', new_ht'.capa) = {}
  BY <1>3, <1>4 DEF IdsBelow
<1>6. arg' \in [node : DOMAIN str, symb : Symbols] /\ pos' \in 0 .. ht.capa
  BY <1>1, <1>2, <1>4
<1>7. Strings' /\ Sound(ht', str') /\ IdsBelow(ht', ht'.capa) = 1 .. ht'.size-1
  BY <1>1 DEF IndInv, Strings
<1>8. IdsBelow(new_ht', new_ht'.capa) = IdsBelow(ht', pos')
  BY <1>1, <1>5
<1>. QED  BY <1>1, <1>3, <1>6, <1>7, <1>8 DEF IndInv

LEMMA CopyInv == IndInv /\ Copy => IndInv'
<1>1. SUFFICES ASSUME IndInv, Copy PROVE IndInv'
  OBVIOUS
<1>2. /\ phase = "copy" /\ pos < ht.capa /\ pos' = pos + 1
      /\ new_ht' = CopySlot(ht, new_ht, pos)
      /\ UNCHANGED <<ht, phase, arg, str>>
  BY <1>1 DEF Copy
<1>3. /\ Whole(ht, str) /\ Sound(new_ht, str) /\ ht.size > 0 /\ pos \in 0 .. ht.capa
      /\ new_ht.capa = 2 * ht.capa
      /\ IdsBelow(new_ht, new_ht.capa) = IdsBelow(ht, pos)
      /\ arg \in [node : DOMAIN str, symb : Symbols]
  BY <1>1, <1>2, RoomWhileCopying DEF IndInv
<1>4. /\ ht.capa \in Nat /\ Taken(ht) \cup Vacant(ht) = 0 .. ht.capa-1
      /\ Taken(ht) \cap Vacant(ht) = {}
  BY <1>3, WholeFacts, FormedFacts
<1>5. pos \in 0 .. ht.capa-1 /\ pos' \in 0 .. ht.capa
  BY <1>2, <1>3, <1>4
<1>6. Sound(new_ht', str) /\ new_ht'.capa = new_ht.capa
      /\ IdsBelow(new_ht', new_ht.capa) = IdsBelow(ht, pos')
  <2>1. CASE pos \in Vacant(ht)
    <3>1. new_ht' = new_ht
      BY <1>2, <2>1 DEF CopySlot
    <3>2. {j \in Taken(ht) : j < pos'} = {j \in Taken(ht) : j < pos}
      BY <1>2, <1>4, <1>5, <2>1
    <3>. QED  BY <1>3, <3>1, <3>2 DEF IdsBelow
  <2>2. CASE pos \in Taken(ht)
    <3>1. /\ Sound(new_ht', str) /\ new_ht'.capa = new_ht.capa
          /\ IdsBelow(new_ht', new_ht.capa) = IdsBelow(ht, pos) \cup {ht.ids[pos]}
      BY <1>1, <1>2, <2>2, SlotCopied
    <3>2. {j \in Taken(ht) : j < pos'} = {j \in Taken(ht) : j < pos} \cup {pos}
      BY <1>2, <1>4, <1>5, <2>2
    <3>3. IdsBelow(ht, pos') = IdsBelow(ht, pos) \cup {ht.ids[pos]}
      BY <3>2 DEF IdsBelow
    <3>. QED  BY <3>1, <3>3
  <2>. QED  BY <1>4, <1>5, <2>1, <2>2
<1>7. Strings' /\ Sound(ht', str') /\ IdsBelow(ht', ht'.capa) = 1 .. ht'.size-1
  BY <1>1, <1>2 DEF IndInv, Strings
<1>8. IdsBelow(new_ht', new_ht'.capa) = IdsBelow(ht', pos')
  BY <1>2, <1>6
<1>. QED  BY <1>2, <1>3, <1>5, <1>6, <1>7, <1>8 DEF IndInv

\* The table expand_ leaves is whole again, and below its load limit.
LEMMA Swapped ==
  ASSUME IndInv, phase = "copy", pos = ht.capa
  PROVE  /\ Whole([new_ht EXCEPT !.size = ht.size], str)
         /\ [new_ht EXCEPT !.size = ht.size].size = ht.size
         /\ ht.size < MaxSizeOf([new_ht EXCEPT !.size = ht.size].capa)
<1>. DEFINE m == ht.size
            t == [new_ht EXCEPT !.size = m]
<1>1. t = [new_ht EXCEPT !.size = m] /\ m = ht.size
  OBVIOUS
<1>. HIDE DEF t, m
<1>2. /\ Whole(ht, str) /\ Sound(new_ht, str) /\ ht.size < MaxSizeOf(new_ht.capa)
      /\ ht.size \in Nat /\ new_ht.capa \in Capas
      /\ IdsBelow(ht, ht.capa) = 1 .. ht.size-1
      /\ IdsBelow(new_ht, new_ht.capa) = IdsBelow(ht, ht.capa)
  BY RoomWhileCopying, WholeFacts DEF IndInv
<1>3. Sound(t, str) /\ t.size = m /\ SameSlots(new_ht, t)
  BY <1>1, <1>2, Resized
<1>4. t.capa = new_ht.capa /\ IdsBelow(t, t.capa) = IdsBelow(new_ht, new_ht.capa)
  BY <1>3 DEF SameSlots
<1>5. Whole(t, str)
  <2>1. MaxSizeOf(new_ht.capa) \in Nat
    BY <1>2, CapaFacts
  <2>. QED  BY <1>1, <1>2, <1>3, <1>4, <2>1 DEF Whole
<1>. QED  BY <1>1, <1>2, <1>3, <1>4, <1>5

LEMMA EndExpandInv == IndInv /\ EndExpand => IndInv'
<1>1. SUFFICES ASSUME IndInv, EndExpand PROVE IndInv'
  OBVIOUS
<1>. DEFINE t == [new_ht EXCEPT !.size = ht.size]
<1>2. /\ phase = "copy" /\ pos = ht.capa
      /\ phase' = "ready" /\ pos' = 0 /\ new_ht' = NewTrie(0)
      /\ Store(t, arg.node, arg.symb)
  BY <1>1 DEF EndExpand
<1>3. Whole(t, str) /\ t.size < MaxSizeOf(t.capa)
  BY <1>1, <1>2, Swapped
<1>4. arg.node \in DOMAIN str /\ arg.symb \in Symbols
  BY <1>1, <1>2 DEF IndInv
<1>. HIDE DEF t
<1>5. Whole(ht', str')
  BY <1>2, <1>3, <1>4, StoreWhole
<1>. QED  BY <1>2, <1>5, RestInv

\* The table is sound in every state: every node but the root has one slot,
\* with the key it was added under, where its probe comes to before it comes to
\* a free one.
THEOREM Invariance == Spec => []IndInv
<1>1. Init => IndInv
  BY InitInv
<1>2. IndInv /\ [Next]_vars => IndInv'
  <2>1. SUFFICES ASSUME IndInv, [Next]_vars PROVE IndInv'
    OBVIOUS
  <2>2. CASE InsertRoot
    BY <2>1, <2>2, InsertRootInv
  <2>3. CASE \E n \in Nodes(ht), s \in Symbols : InsertChild(n, s) \/ BeginExpand(n, s)
    BY <2>1, <2>3, InsertChildInv, BeginExpandInv
  <2>4. CASE Copy
    BY <2>1, <2>4, CopyInv
  <2>5. CASE EndExpand
    BY <2>1, <2>5, EndExpandInv
  <2>6. CASE UNCHANGED vars
    BY <2>1, <2>6 DEF IndInv, Strings, vars
  <2>. QED  BY <2>1, <2>2, <2>3, <2>4, <2>5, <2>6 DEF Next, Expanding
<1>. QED  BY <1>1, <1>2, PTL DEF Spec

\* TypeOK: in particular no id is the number that marks a free slot.
THEOREM TypesCorrect == Spec => []TypeOK
<1>1. IndInv => TypeOK
  <2>1. SUFFICES ASSUME IndInv PROVE TypeOK
    OBVIOUS
  <2>2. Whole(ht, str) /\ ht.size \in Nat /\ ht.capa \in Nat /\ ht.size < ht.capa
    BY <2>1, AtRest, WholeFacts, CapaFacts
  <2>3. IsTable(ht) /\ DOMAIN str = 0 .. ht.size-1 /\ ht.size <= FreeId(ht)
    BY <2>2 DEF Whole, Names, Sound, Formed, FreeId
  <2>4. IsTable(new_ht)
    <3>1. Sound(NewTrie(0), str)
      BY FirstTrie
    <3>. QED  BY <2>1, <3>1 DEF IndInv, Sound, Formed
  <2>5. /\ phase \in {"ready", "copy"} /\ pos \in 0 .. ht.capa
        /\ phase = "copy" => arg.node \in DOMAIN str /\ arg.symb \in Symbols
    BY <2>1, <2>2 DEF IndInv
  <2>. QED  BY <2>3, <2>4, <2>5 DEF TypeOK
<1>. QED  BY <1>1, Invariance, PTL

\* Findable: find_child finds every child that was added and no other.
THEOREM ChildrenFound == Spec => []Findable
<1>1. IndInv => Findable
  <2>1. SUFFICES ASSUME IndInv, NEW n \in DOMAIN str, NEW s \in Symbols
                 PROVE  LET w == Append(str[n], s)
                            c == FindChild(ht, n, s)
                        IN IF \E j \in DOMAIN str : str[j] = w
                           THEN c \in DOMAIN str /\ str[c] = w
                           ELSE c = NilId
    BY DEF Findable
  <2>2. Whole(ht, str)
    BY <2>1, AtRest
  <2>3. CASE \E j \in DOMAIN str : str[j] = Append(str[n], s)
    <3>1. PICK j \in DOMAIN str : str[j] = Append(str[n], s)
      BY <2>3
    <3>2. FindChild(ht, n, s) = j
      BY <2>2, <3>1, FindChildFinds
    <3>. QED  BY <3>1, <3>2
  <2>4. CASE \A j \in DOMAIN str : str[j] # Append(str[n], s)
    <3>1. FindChild(ht, n, s) = NilId
      BY <2>2, <2>4, FindChildFinds
    <3>. QED  BY <2>4, <3>1
  <2>. QED  BY <2>3, <2>4
<1>. QED  BY <1>1, Invariance, PTL

\* CallsTerminate: no find_child, add_child or copied slot probes for ever.
THEOREM ProbesTerminate == Spec => []CallsTerminate
<1>1. IndInv => CallsTerminate
  <2>1. SUFFICES ASSUME IndInv PROVE CallsTerminate
    OBVIOUS
  <2>2. \A n \in DOMAIN str, s \in Symbols : Terminates(ht, n, s)
    BY <2>1, AtRest, CallsEnd
  <2>3. phase = "copy" /\ pos \in Taken(ht) => HasRoomFor(new_ht, StoredKey(ht, pos))
    BY <2>1, SlotCopied
  <2>. QED  BY <2>2, <2>3 DEF CallsTerminate
<1>. QED  BY <1>1, Invariance, PTL

\* A table has as many taken slots as ids.
LEMMA OneSlotPerId ==
  ASSUME NEW t, NEW f, Sound(t, f)
  PROVE  Cardinality(Taken(t)) = Cardinality(IdsBelow(t, t.capa))
<1>. DEFINE T == Taken(t)
            I == IdsBelow(t, t.capa)
            g == [i \in T |-> t.ids[i]]
<1>1. T \subseteq 0 .. t.capa-1 /\ t.capa \in Nat \ {0}
  BY FormedFacts DEF Sound
<1>2. I = {t.ids[i] : i \in T}
  <2>1. {j \in T : j < t.capa} = T
    BY <1>1
  <2>. QED  BY <2>1 DEF IdsBelow
<1>3. IsFiniteSet(T)
  <2>. DEFINE x == t.capa - 1
  <2>1. 0 \in Int /\ x \in Int
    BY <1>1
  <2>2. T \subseteq 0 .. x
    BY <1>1
  <2>. HIDE DEF x, T
  <2>3. IsFiniteSet(0 .. x)
    BY <2>1, FS_Interval
  <2>. QED  BY <2>2, <2>3, FS_Subset
<1>4. \A i, j \in T : t.ids[i] = t.ids[j] => i = j
  BY DEF Sound, Spelled
<1>. HIDE DEF T, I
<1>5. ExistsBijection(T, I)
  <2>1. g \in [T -> I] /\ \A i, j \in T : g[i] = g[j] => i = j
    BY <1>2, <1>4
  <2>2. \A y \in I : \E i \in T : g[i] = y
    BY <1>2
  <2>. HIDE DEF g
  <2>. QED  BY <2>1, <2>2 DEF ExistsBijection, Bijection, Injection, Surjection, IsInjective
<1>. QED  BY <1>3, <1>5, FS_Bijection DEF T, I

\* IdsKept and KeysRecovered: the ids in the table are those add_child gave
\* out, each once and under its key, and the loop of expand_ moves them all.
THEOREM IdsCorrect == Spec => []IdsKept
<1>1. IndInv => IdsKept
  <2>1. SUFFICES ASSUME IndInv PROVE IdsKept
    OBVIOUS
  <2>2. Sound(ht, str) /\ IdsBelow(ht, ht.capa) = 1 .. ht.size-1
    BY <2>1 DEF IndInv
  <2>3. \A i, j \in Taken(ht) : ht.ids[i] = ht.ids[j] => i = j
    BY <2>2 DEF Sound, Spelled
  <2>4. ASSUME phase = "copy"
        PROVE  /\ IdsBelow(new_ht, new_ht.capa) = IdsBelow(ht, pos)
               /\ Cardinality(Taken(new_ht)) = Cardinality(IdsBelow(ht, pos))
    <3>1. Sound(new_ht, str) /\ IdsBelow(new_ht, new_ht.capa) = IdsBelow(ht, pos)
      BY <2>1, <2>4 DEF IndInv
    <3>. QED  BY <3>1, OneSlotPerId
  <2>5. KeysRecovered
    <3>1. Sound(new_ht, str)
      BY <2>1, FirstTrie DEF IndInv
    <3>. QED  BY <2>2, <3>1 DEF KeysRecovered, Sound, Spelled
  <2>. QED  BY <2>2, <2>3, <2>4, <2>5 DEF IdsKept, IdsBelow
<1>. QED  BY <1>1, Invariance, PTL

\* The string of a node leads back to its id.
IdsOf(f) ==
  [w \in {f[i] : i \in DOMAIN f} |->
     CHOOSE i \in DOMAIN f : f[i] = w /\ \A j \in DOMAIN f : f[j] = w => j <= i]

LEMMA IdsInvert ==
  ASSUME NEW m, NEW f, Names(m, f)
  PROVE  /\ DOMAIN IdsOf(f) = {f[i] : i \in DOMAIN f}
         /\ \A i \in DOMAIN f : IdsOf(f)[f[i]] = i
         /\ Abstract!Unambiguous(IdsOf(f))
<1>1. DOMAIN IdsOf(f) = {f[i] : i \in DOMAIN f}
  BY DEF IdsOf
<1>2. ASSUME NEW i \in DOMAIN f PROVE IdsOf(f)[f[i]] = i
  <2>1. \A j \in DOMAIN f : f[j] = f[i] => j = i
    BY DEF Names
  <2>2. i \in Nat
    BY DEF Names
  <2>3. \A j \in DOMAIN f : f[j] = f[i] => j <= i
    BY <2>1, <2>2
  <2>. QED  BY <2>1, <2>3 DEF IdsOf
<1>3. \A v, w \in DOMAIN IdsOf(f) : IdsOf(f)[v] = IdsOf(f)[w] => v = w
  BY <1>1, <1>2
<1>. QED  BY <1>1, <1>2, <1>3 DEF Abstract!Unambiguous

\* A child added to a whole table is a node added to the abstract trie, under
\* the next id.
LEMMA StoreRefines ==
  ASSUME NEW t, Whole(t, str), t.size < MaxSizeOf(t.capa),
         NEW n \in DOMAIN str, NEW s \in Symbols, Store(t, n, s)
  PROVE  Abstract!StableNext \/ str' = str
<1>. DEFINE r == AddChildHere(t, n, s)
            w == Append(str[n], s)
<1>1. str' = IF r.added THEN Extended(str, r.node, w) ELSE str
  BY DEF Store
<1>2. CASE \E j \in DOMAIN str : str[j] = w
  <2>1. PICK j \in DOMAIN str : str[j] = w
    BY <1>2
  <2>2. r = [trie |-> t, node |-> j, added |-> FALSE]
    BY <2>1, AddChildFinds
  <2>. HIDE DEF r
  <2>. QED  BY <1>1, <2>2
<1>3. CASE \A j \in DOMAIN str : str[j] # w
  <2>1. Grown(t, str, n, s, r)
    BY <1>3, AddChildAdds
  <2>. HIDE DEF r, w
  <2>2. str' = Extended(str, t.size, w) /\ Names(t.size, str) /\ t.size \in Nat
    BY <1>1, <2>1 DEF Grown, Whole, Names, w
  <2>3. Names(t.size + 1, str')
    BY <2>1, <2>2 DEF Grown, Whole, w
  <2>4. /\ DOMAIN str' = DOMAIN str \cup {t.size} /\ str'[t.size] = w
        /\ \A j \in DOMAIN str : str'[j] = str[j]
    <3>1. t.size \notin DOMAIN str
      BY <2>2 DEF Names
    <3>. QED  BY <2>2, <3>1 DEF Extended
  <2>5. /\ DOMAIN Ids = {str[i] : i \in DOMAIN str}
        /\ \A i \in DOMAIN str : Ids[str[i]] = i
    BY <2>2, IdsInvert DEF Ids, IdsOf
  <2>6. /\ DOMAIN Ids' = {str'[i] : i \in DOMAIN str'}
        /\ \A i \in DOMAIN str' : Ids'[str'[i]] = i
        /\ Abstract!Unambiguous(Ids')
    <3>1. Ids' = IdsOf(str')
      BY DEF Ids, IdsOf
    <3>. QED  BY <2>3, <3>1, IdsInvert
  <2>7. DOMAIN Ids' = DOMAIN Ids \cup {w}
    <3>1. {str'[i] : i \in DOMAIN str'} = {str[i] : i \in DOMAIN str} \cup {str'[t.size]}
      BY <2>4
    <3>. QED  BY <2>4, <2>5, <2>6, <3>1
  <2>8. \A v \in DOMAIN Ids : Ids'[v] = Ids[v]
    BY <2>4, <2>5, <2>6
  <2>9. str[n] \in DOMAIN Ids /\ w \notin DOMAIN Ids
    BY <1>3, <2>5
  <2>10. Abstract!AddChild(str[n], s)
    BY <2>6, <2>7, <2>8, <2>9 DEF Abstract!AddChild, Abstract!Strings, w
  <2>. QED  BY <2>9, <2>10 DEF Abstract!StableNext, Abstract!Strings
<1>. QED  BY <1>2, <1>3

\* ImplementsStableTrie: seen through the strings of its nodes the table is a
\* trie whose nodes keep their ids, also when it grows.
THEOREM Refinement == Spec => ImplementsStableTrie
<1>1. Init => Abstract!Init
  <2>1. SUFFICES ASSUME Init PROVE Ids = [w \in {} |-> 0]
    BY DEF Abstract!Init
  <2>2. DOMAIN str = {}
    BY <2>1 DEF Init
  <2>. QED  BY <2>2 DEF Ids
<1>2. IndInv /\ [Next]_vars => [Abstract!StableNext]_Ids
  <2>1. SUFFICES ASSUME IndInv, [Next]_vars PROVE Abstract!StableNext \/ Ids' = Ids
    OBVIOUS
  <2>2. str' = str => Ids' = Ids
    BY DEF Ids
  <2>3. ASSUME InsertRoot PROVE Abstract!AddRoot
    <3>1. ht.size = 0 /\ DOMAIN str = 0 .. ht.size-1 /\ str' = [i \in {RootId} |-> <<>>]
      BY <2>1, <2>3 DEF IndInv, Strings, InsertRoot
    <3>2. DOMAIN str = {} /\ DOMAIN str' = {RootId} /\ str'[RootId] = <<>>
      BY <3>1
    <3>3. DOMAIN Ids = {} /\ DOMAIN Ids' = {<<>>}
      BY <3>2 DEF Ids
    <3>. QED  BY <3>3 DEF Abstract!AddRoot, Abstract!Strings
  <2>4. ASSUME NEW n \in Nodes(ht), NEW s \in Symbols, InsertChild(n, s)
        PROVE  Abstract!StableNext \/ str' = str
    <3>1. ht.size > 0 /\ ~Full(ht) /\ Store(ht, n, s)
      BY <2>4 DEF InsertChild
    <3>2. Whole(ht, str) /\ n \in DOMAIN str
      BY <2>1, <3>1, AtRest, NodesAreNamed
    <3>3. ht.size < MaxSizeOf(ht.capa)
      <4>1. ht.size \in Nat /\ MaxSizeOf(ht.capa) \in Nat
        BY <3>2, WholeFacts, CapaFacts
      <4>. QED  BY <3>1, <4>1 DEF Full
    <3>. QED  BY <3>1, <3>2, <3>3, StoreRefines
  <2>5. ASSUME EndExpand PROVE Abstract!StableNext \/ str' = str
    <3>. DEFINE t == [new_ht EXCEPT !.size = ht.size]
    <3>1. phase = "copy" /\ pos = ht.capa /\ Store(t, arg.node, arg.symb)
      BY <2>5 DEF EndExpand
    <3>2. Whole(t, str) /\ t.size < MaxSizeOf(t.capa)
      BY <2>1, <3>1, Swapped
    <3>3. arg.node \in DOMAIN str /\ arg.symb \in Symbols
      BY <2>1, <3>1 DEF IndInv
    <3>. HIDE DEF t
    <3>. QED  BY <3>1, <3>2, <3>3, StoreRefines
  <2>6. CASE (\E n \in Nodes(ht), s \in Symbols : BeginExpand(n, s)) \/ Copy \/ UNCHANGED vars
    BY <2>2, <2>6 DEF BeginExpand, Copy, vars
  <2>. QED
    BY <2>1, <2>2, <2>3, <2>4, <2>5, <2>6 DEF Next, Expanding, Abstract!StableNext
<1>. QED  BY <1>1, <1>2, Invariance, PTL DEF Spec, Abstract!StableSpec, ImplementsStableTrie
=============================================================================
