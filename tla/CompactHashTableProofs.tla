----------------------- MODULE CompactHashTableProofs -----------------------
(***************************************************************************)
(* compact_hash_table, for every universe, capacity, load factor, hash and *)
(* sequence of calls.  Neither bit of a slot says on its own where an item *)
(* belongs.  The proofs say it with a function h, not kept by the code:    *)
(* h[s] is how far to the right of slot s the mod of its item is, and -1   *)
(* where no item is.  Placed says how the two bits follow from h, for the  *)
(* whole table; a table is Sound if some h fits it and no two of its items *)
(* have one key.  Then get finds an item where h says, and an item that    *)
(* set puts in, with the items that move to the left for it, gives a table *)
(* that fits another h.  The invariant says that both tables are sound and *)
(* that the copy holds the items that clone has walked past.               *)
(***************************************************************************)
EXTENDS CompactHashTable, FiniteSetTheorems, WellFoundedInduction, TLAPS

----------------------------------------------------------------------------
(* Going round the table.  From a slot e, the slot p steps to the right is *)
(* Right(t, e, p), and a slot x is Offset(t, e, x) steps away.             *)

Offset(t, e, x) == (x + t.capa - e) % t.capa

HasSlots(t) == t.capa \in Nat /\ t.capa >= 2

\* right_ stays in the table and wraps once ...
LEMMA RightWraps ==
  ASSUME NEW t, HasSlots(t), NEW x \in Slots(t), NEW d \in 0 .. t.capa
  PROVE  /\ Right(t, x, d) = IF x + d < t.capa THEN x + d ELSE x + d - t.capa
         /\ Right(t, x, d) \in Slots(t)
<1>. DEFINE c == t.capa
<1>1. c \in Nat /\ c >= 2 /\ x \in 0 .. c-1 /\ d \in 0 .. c
  BY DEF HasSlots, Slots
<1>2. Right(t, x, d) = (x + d) % c /\ Slots(t) = 0 .. c-1
  BY DEF Right, Slots
<1>. HIDE DEF c
<1>3. (x + d) % c = IF x + d < c THEN x + d ELSE x + d - c
  BY <1>1
<1>4. Right(t, x, d) = (IF x + d < c THEN x + d ELSE x + d - c) /\ Right(t, x, d) \in 0 .. c-1
  BY <1>1, <1>2, <1>3
<1>. QED  BY <1>2, <1>4 DEF c

\* ... and so does left_ ...
LEMMA LeftWraps ==
  ASSUME NEW t, HasSlots(t), NEW x \in Slots(t), NEW d \in 0 .. t.capa
  PROVE  /\ Left(t, x, d) = IF d <= x THEN x - d ELSE x + t.capa - d
         /\ Left(t, x, d) \in Slots(t)
<1>. DEFINE c == t.capa
<1>1. c \in Nat /\ c >= 2 /\ x \in 0 .. c-1 /\ d \in 0 .. c
  BY DEF HasSlots, Slots
<1>2. Left(t, x, d) = (x + c - d) % c /\ Slots(t) = 0 .. c-1
  BY DEF Left, Slots
<1>. HIDE DEF c
<1>3. (x + c - d) % c = IF d <= x THEN x - d ELSE x + c - d
  BY <1>1
<1>4. Left(t, x, d) = (IF d <= x THEN x - d ELSE x + c - d) /\ Left(t, x, d) \in 0 .. c-1
  BY <1>1, <1>2, <1>3
<1>. QED  BY <1>2, <1>4 DEF c

\* ... and the distance between two slots.
LEMMA OffsetWraps ==
  ASSUME NEW t, HasSlots(t), NEW e \in Slots(t), NEW x \in Slots(t)
  PROVE  /\ Offset(t, e, x) = IF e <= x THEN x - e ELSE x + t.capa - e
         /\ Offset(t, e, x) \in 0 .. t.capa-1
<1>. DEFINE c == t.capa
<1>1. c \in Nat /\ c >= 2 /\ x \in 0 .. c-1 /\ e \in 0 .. c-1
  BY DEF HasSlots, Slots
<1>2. Offset(t, e, x) = (x + c - e) % c
  BY DEF Offset
<1>. HIDE DEF c
<1>3. (x + c - e) % c = IF e <= x THEN x - e ELSE x + c - e
  BY <1>1
<1>4. Offset(t, e, x) = (IF e <= x THEN x - e ELSE x + c - e) /\ Offset(t, e, x) \in 0 .. c-1
  BY <1>1, <1>2, <1>3
<1>. QED  BY <1>4 DEF c

\* Every slot is at one offset.
LEMMA AtOffset ==
  ASSUME NEW t, HasSlots(t), NEW e \in Slots(t)
  PROVE  /\ \A x \in Slots(t) : Offset(t, e, x) \in 0 .. t.capa-1 /\ Right(t, e, Offset(t, e, x)) = x
         /\ \A p \in 0 .. t.capa-1 : Offset(t, e, Right(t, e, p)) = p
         /\ Right(t, e, 0) = e /\ Right(t, e, t.capa) = e
         /\ \A p \in 0 .. t.capa : Right(t, e, p) \in Slots(t)
<1>. DEFINE c == t.capa
<1>1. c \in Nat /\ c >= 2 /\ e \in 0 .. c-1 /\ Slots(t) = 0 .. c-1
  BY DEF HasSlots, Slots
<1>2. \A p \in 0 .. c : /\ Right(t, e, p) = IF e + p < c THEN e + p ELSE e + p - c
                        /\ Right(t, e, p) \in Slots(t)
  BY RightWraps
<1>3. \A x \in Slots(t) : /\ Offset(t, e, x) = IF e <= x THEN x - e ELSE x + c - e
                          /\ Offset(t, e, x) \in 0 .. c-1
  BY OffsetWraps
<1>. HIDE DEF c
<1>4. ASSUME NEW x \in 0 .. c-1 PROVE Right(t, e, Offset(t, e, x)) = x
  <2>1. /\ Offset(t, e, x) = IF e <= x THEN x - e ELSE x + c - e
        /\ Offset(t, e, x) \in 0 .. c
    BY <1>1, <1>3
  <2>2. Right(t, e, Offset(t, e, x)) =
          IF e + Offset(t, e, x) < c THEN e + Offset(t, e, x) ELSE e + Offset(t, e, x) - c
    BY <1>2, <2>1
  <2>. QED  BY <1>1, <2>1, <2>2
<1>5. ASSUME NEW p \in 0 .. c-1 PROVE Offset(t, e, Right(t, e, p)) = p
  <2>1. Right(t, e, p) = (IF e + p < c THEN e + p ELSE e + p - c) /\ Right(t, e, p) \in Slots(t)
    BY <1>1, <1>2
  <2>2. Offset(t, e, Right(t, e, p)) =
          IF e <= Right(t, e, p) THEN Right(t, e, p) - e ELSE Right(t, e, p) + c - e
    BY <1>3, <2>1
  <2>. QED  BY <1>1, <2>1, <2>2
<1>6. Right(t, e, 0) = e /\ Right(t, e, c) = e
  BY <1>1, <1>2
<1>. QED  BY <1>1, <1>2, <1>3, <1>4, <1>5, <1>6 DEF c

\* Steps to the right add up.
LEMMA RightRight ==
  ASSUME NEW t, HasSlots(t), NEW e \in Slots(t), NEW p \in Nat, NEW d \in Nat, p + d <= t.capa
  PROVE  Right(t, Right(t, e, p), d) = Right(t, e, p + d)
<1>. DEFINE c == t.capa
<1>1. c \in Nat /\ c >= 2 /\ e \in 0 .. c-1 /\ Slots(t) = 0 .. c-1
  BY DEF HasSlots, Slots
<1>2. p \in 0 .. c /\ d \in 0 .. c /\ p + d \in 0 .. c
  BY <1>1
<1>3. /\ Right(t, e, p) = IF e + p < c THEN e + p ELSE e + p - c
      /\ Right(t, e, p) \in Slots(t)
  BY <1>2, RightWraps
<1>4. Right(t, e, p + d) = IF e + (p + d) < c THEN e + (p + d) ELSE e + (p + d) - c
  BY <1>2, RightWraps
<1>5. Right(t, Right(t, e, p), d) = IF Right(t, e, p) + d < c THEN Right(t, e, p) + d ELSE Right(t, e, p) + d - c
  BY <1>2, <1>3, RightWraps
<1>. HIDE DEF c
<1>. QED  BY <1>1, <1>2, <1>3, <1>4, <1>5

\* Steps to the left are steps to the right from where they lead.
LEMMA LeftRight ==
  ASSUME NEW t, HasSlots(t), NEW x \in Slots(t), NEW g \in 0 .. t.capa
  PROVE  /\ Left(t, x, g) \in Slots(t) /\ Right(t, Left(t, x, g), g) = x
         /\ \A d \in 0 .. g : Left(t, x, d) = Right(t, Left(t, x, g), g - d)
<1>. DEFINE c == t.capa
<1>1. c \in Nat /\ c >= 2 /\ x \in 0 .. c-1 /\ g \in 0 .. c /\ Slots(t) = 0 .. c-1
  BY DEF HasSlots, Slots
<1>2. ASSUME NEW d \in 0 .. g
      PROVE  Left(t, x, d) = IF d <= x THEN x - d ELSE x + c - d
  <2>1. d \in 0 .. t.capa
    BY <1>1
  <2>. QED  BY <2>1, LeftWraps
<1>3. Left(t, x, g) = (IF g <= x THEN x - g ELSE x + c - g) /\ Left(t, x, g) \in Slots(t)
  BY LeftWraps
<1>4. ASSUME NEW d \in 0 .. g
      PROVE  Right(t, Left(t, x, g), d) =
               IF Left(t, x, g) + d < c THEN Left(t, x, g) + d ELSE Left(t, x, g) + d - c
  <2>1. d \in 0 .. t.capa
    BY <1>1
  <2>. QED  BY <1>3, <2>1, RightWraps
<1>. HIDE DEF c
<1>5. g \in 0 .. g /\ \A d \in 0 .. g : g - d \in 0 .. g
  BY <1>1
<1>. QED  BY <1>1, <1>2, <1>3, <1>4, <1>5

----------------------------------------------------------------------------
(* Counting along a line.  L is a rising function on 1 .. n: the home of   *)
(* the item at each position of a cluster.                                 *)

\* The least of a set of numbers.
LEMMA LeastExists ==
  ASSUME NEW S, S \subseteq Nat, S # {}
  PROVE  \E d \in S : \A e \in S : d <= e
<1>1. PICK d \in S : \A e \in S : <<e, d>> \notin OpToRel(<, Nat)
  BY NatLessThanWellFounded, WFMin
<1>2. \A e \in S : ~(e < d)
  BY <1>1 DEF OpToRel
<1>. QED  BY <1>2

\* The homes along a cluster of n slots, where the first item of each is, and
\* the homes as a set.
Rises(n, L) == L \in [1 .. n -> Nat] /\ \A p \in 1 .. n-1 : L[p] <= L[p + 1]

Homes(n, L) == {L[p] : p \in 1 .. n}
Starts(n, L) == {q \in 1 .. n : q = 1 \/ L[q - 1] < L[q]}

\* A rising sequence rises from any position to any later one.
LEMMA RisesFar ==
  ASSUME NEW n \in Nat, NEW L, Rises(n, L), NEW p \in 1 .. n, NEW q \in 1 .. n, p <= q
  PROVE  L[p] <= L[q]
<1>. DEFINE S == {r \in p .. n : ~(L[p] <= L[r])}
<1>1. SUFFICES ASSUME S # {} PROVE FALSE
  OBVIOUS
<1>2. PICK r \in S : \A e \in S : r <= e
  <2>1. S \subseteq Nat
    OBVIOUS
  <2>. HIDE DEF S
  <2>. QED  BY <1>1, <2>1, LeastExists
<1>3. r \in p .. n /\ r # p /\ ~(L[p] <= L[r])
  BY <1>2 DEF Rises
<1>4. r - 1 \in p .. n /\ r - 1 \notin S
  BY <1>2, <1>3
<1>5. L[r - 1] <= L[r]
  <2>1. r - 1 \in 1 .. n-1 /\ (r - 1) + 1 = r
    BY <1>3
  <2>. QED  BY <2>1 DEF Rises
<1>. QED  BY <1>3, <1>4, <1>5 DEF Rises

\* Each home has a first position.
LEMMA StartExists ==
  ASSUME NEW n \in Nat, NEW L, Rises(n, L), NEW p \in 1 .. n
  PROVE  \E q \in Starts(n, L) : q <= p /\ L[q] = L[p]
<1>. DEFINE S == {r \in 1 .. n : L[r] = L[p]}
<1>1. PICK q \in S : \A e \in S : q <= e
  <2>1. S \subseteq Nat /\ S # {}
    OBVIOUS
  <2>. HIDE DEF S
  <2>. QED  BY <2>1, LeastExists
<1>2. q \in 1 .. n /\ L[q] = L[p] /\ q <= p
  BY <1>1
<1>3. q # 1 => L[q - 1] < L[q]
  <2>1. SUFFICES ASSUME q # 1 PROVE L[q - 1] < L[q]
    OBVIOUS
  <2>2. q - 1 \in 1 .. n-1 /\ (q - 1) + 1 = q /\ q - 1 \in 1 .. n
    BY <1>2, <2>1
  <2>3. L[q - 1] <= L[q] /\ L[q - 1] # L[q]
    BY <1>1, <1>2, <2>2 DEF Rises
  <2>. QED  BY <1>2, <2>2, <2>3 DEF Rises
<1>. QED  BY <1>2, <1>3 DEF Starts

\* Before the first position of a home there are lower homes only.
LEMMA BeforeStart ==
  ASSUME NEW n \in Nat, NEW L, Rises(n, L), NEW q \in Starts(n, L), NEW p \in 1 .. n, p < q
  PROVE  L[p] < L[q]
<1>1. q \in 1 .. n /\ q # 1 /\ L[q - 1] < L[q] /\ q - 1 \in 1 .. n /\ p <= q - 1
  BY DEF Starts
<1>2. L[p] <= L[q - 1]
  BY <1>1, RisesFar
<1>. QED  BY <1>1, <1>2 DEF Rises

\* Up to a first position there are as many first positions as homes: the
\* k-th home is that of the k-th group.
LEMMA CountAtStart ==
  ASSUME NEW n \in Nat, NEW L, Rises(n, L), NEW s \in Starts(n, L)
  PROVE  Cardinality({q \in Starts(n, L) : q <= s}) = Cardinality({v \in Homes(n, L) : v <= L[s]})
<1>. DEFINE Q == {q \in Starts(n, L) : q <= s}
            V == {v \in Homes(n, L) : v <= L[s]}
            f == [q \in Q |-> L[q]]
<1>0. Q \subseteq 1 .. n /\ s \in 1 .. n /\ \A r \in 1 .. n : L[r] \in Nat
  BY DEF Starts, Rises
<1>1. f \in [Q -> V]
  <2>1. SUFFICES ASSUME NEW q \in Q PROVE L[q] \in V
    OBVIOUS
  <2>2. L[q] <= L[s]
    BY <1>0, RisesFar
  <2>. QED  BY <1>0, <2>2 DEF Homes
<1>2. ASSUME NEW p \in Q, NEW q \in Q, f[p] = f[q] PROVE p = q
  <2>1. p < q => L[p] < L[q]
    BY <1>0, BeforeStart
  <2>2. q < p => L[q] < L[p]
    BY <1>0, BeforeStart
  <2>. QED  BY <1>0, <1>2, <2>1, <2>2
<1>3. ASSUME NEW v \in V PROVE \E q \in Q : f[q] = v
  <2>1. PICK p \in 1 .. n : v = L[p]
    BY DEF Homes
  <2>2. PICK q \in Starts(n, L) : q <= p /\ L[q] = L[p]
    BY <2>1, StartExists
  <2>3. q <= s
    <3>1. q \in 1 .. n
      BY <2>2 DEF Starts
    <3>2. s < q => L[s] < L[q]
      BY <1>0, <2>2, BeforeStart
    <3>. QED  BY <1>0, <2>1, <2>2, <3>1, <3>2
  <2>. QED  BY <2>1, <2>2, <2>3
<1>4. f \in Bijection(Q, V)
  BY <1>1, <1>2, <1>3 DEF Bijection, Injection, Surjection, IsInjective
<1>5. IsFiniteSet(Q)
  <2>1. IsFiniteSet(1 .. n)
    BY <1>0, FS_Interval
  <2>2. Q \subseteq 1 .. n
    BY <1>0
  <2>. HIDE DEF f, Q, V
  <2>. QED  BY <2>1, <2>2, FS_Subset
<1>. HIDE DEF f, Q, V
<1>6. ExistsBijection(Q, V)
  BY <1>4 DEF ExistsBijection
<1>7. Cardinality(Q) = Cardinality(V)
  BY <1>5, <1>6, FS_Bijection
<1>. QED  BY <1>7 DEF Q, V

\* No item is right of its home: up to each position there are at least as
\* many groups as homes.
LEMMA CountBelow ==
  ASSUME NEW n \in Nat, NEW L, Rises(n, L), \A p \in 1 .. n : p <= L[p], NEW d \in Nat
  PROVE  Cardinality({v \in Homes(n, L) : v <= d}) <= Cardinality({q \in Starts(n, L) : q <= d})
<1>. DEFINE Q == {q \in Starts(n, L) : q <= d}
            V == {v \in Homes(n, L) : v <= d}
            first(v) == CHOOSE q \in Starts(n, L) : L[q] = v
            f == [v \in V |-> first(v)]
<1>0. Q \subseteq 1 .. n /\ Starts(n, L) \subseteq 1 .. n /\ \A r \in 1 .. n : L[r] \in Nat
  BY DEF Starts, Rises
<1>1. ASSUME NEW v \in V PROVE first(v) \in Q /\ L[first(v)] = v
  <2>1. PICK p \in 1 .. n : v = L[p]
    BY DEF Homes
  <2>2. \E q \in Starts(n, L) : L[q] = v
    BY <2>1, StartExists
  <2>3. first(v) \in Starts(n, L) /\ L[first(v)] = v
    BY <2>2
  <2>. HIDE DEF first
  <2>4. first(v) \in 1 .. n /\ v \in Nat /\ v <= d
    BY <1>0, <2>3
  <2>5. first(v) <= L[first(v)]
    BY <2>4
  <2>. QED  BY <2>3, <2>4, <2>5
<1>2. f \in Injection(V, Q)
  <2>. HIDE DEF first, V, Q
  <2>1. f \in [V -> Q]
    BY <1>1
  <2>2. \A v, w \in V : f[v] = f[w] => v = w
    BY <1>1
  <2>. QED  BY <2>1, <2>2 DEF Injection, IsInjective
<1>3. IsFiniteSet(Q)
  <2>1. IsFiniteSet(1 .. n)
    BY <1>0, FS_Interval
  <2>2. Q \subseteq 1 .. n
    BY <1>0
  <2>. HIDE DEF f, Q, V
  <2>. QED  BY <2>1, <2>2, FS_Subset
<1>. HIDE DEF f, Q, V
<1>4. Cardinality(V) <= Cardinality(Q)
  BY <1>2, <1>3, FS_Injection
<1>. QED  BY <1>4 DEF Q, V

----------------------------------------------------------------------------
(* What the two bits mean.  h says of every slot how far right of it the   *)
(* mod of its item is, and -1 if the slot is free.  Neighbours restrict    *)
(* one another, and the bits follow.                                       *)

Home(t, h, s) == Right(t, s, h[s])
KeyIn(t, h, s) == KeyAt(t, s, Home(t, h, s))

Placed(t, h) ==
  /\ h \in [Slots(t) -> Int]
  /\ \A s \in Slots(t) : h[s] >= -1 /\ (h[s] = -1 <=> IsVacant(t, s))
  /\ \A s \in Slots(t) : h[s] <= h[Right(t, s, 1)] + 1
  /\ \A s \in Slots(t) :
       t.table[Right(t, s, 1)].cbit <=> h[s] <= h[Right(t, s, 1)] \/ h[Right(t, s, 1)] = -1
  /\ \A m \in Slots(t) : t.table[m].vbit <=> \E s \in Slots(t) : h[s] >= 0 /\ Home(t, h, s) = m

\* Neighbours along the line that begins at slot e.
LEMMA Neighbours ==
  ASSUME NEW t, HasSlots(t), NEW h, Placed(t, h), NEW e \in Slots(t), NEW p \in 0 .. t.capa-1
  PROVE  /\ Right(t, e, p) \in Slots(t) /\ Right(t, e, p + 1) \in Slots(t)
         /\ h[Right(t, e, p)] \in Int /\ h[Right(t, e, p + 1)] \in Int
         /\ h[Right(t, e, p)] >= -1 /\ h[Right(t, e, p + 1)] >= -1
         /\ h[Right(t, e, p)] = -1 <=> IsVacant(t, Right(t, e, p))
         /\ h[Right(t, e, p)] <= h[Right(t, e, p + 1)] + 1
         /\ t.table[Right(t, e, p + 1)].cbit
              <=> h[Right(t, e, p)] <= h[Right(t, e, p + 1)] \/ h[Right(t, e, p + 1)] = -1
<1>1. p \in Nat /\ p \in 0 .. t.capa /\ p + 1 \in 0 .. t.capa /\ 1 \in Nat /\ p + 1 <= t.capa
  BY DEF HasSlots
<1>2. Right(t, e, p) \in Slots(t) /\ Right(t, e, p + 1) \in Slots(t)
  BY <1>1, RightWraps
<1>3. Right(t, e, p + 1) = Right(t, Right(t, e, p), 1)
  BY <1>1, RightRight
<1>. DEFINE a == Right(t, e, p)
            b == Right(t, e, p + 1)
<1>4. a \in Slots(t) /\ b \in Slots(t) /\ b = Right(t, a, 1)
  BY <1>2, <1>3
<1>. HIDE DEF a, b
<1>5. /\ h[a] \in Int /\ h[b] \in Int /\ h[a] >= -1 /\ h[b] >= -1
      /\ h[a] = -1 <=> IsVacant(t, a)
      /\ h[a] <= h[b] + 1
      /\ t.table[b].cbit <=> h[a] <= h[b] \/ h[b] = -1
  BY <1>4 DEF Placed
<1>. QED  BY <1>2, <1>5 DEF a, b

\* The slots from an item to its mod are taken, and their items belong no
\* further left.  Positions are counted from a free slot.
LEMMA Reach ==
  ASSUME NEW t, HasSlots(t), NEW h, Placed(t, h), NEW e \in Slots(t), IsVacant(t, e),
         NEW p \in 1 .. t.capa-1, h[Right(t, e, p)] >= 0
  PROVE  /\ p + h[Right(t, e, p)] \in p .. t.capa-1
         /\ \A q \in p .. t.capa : h[Right(t, e, q)] >= p + h[Right(t, e, p)] - q
         /\ \A q \in p .. p + h[Right(t, e, p)] : h[Right(t, e, q)] >= 0
<1>. DEFINE x == p + h[Right(t, e, p)]
            S == {q \in p .. t.capa : ~(h[Right(t, e, q)] >= x - q)}
<1>0. t.capa \in Nat /\ p \in 1 .. t.capa-1 /\ p \in 0 .. t.capa-1
  BY DEF HasSlots
<1>1. h[Right(t, e, p)] \in Nat /\ x \in Nat /\ p <= x
  BY <1>0, Neighbours
<1>2. S = {}
  <2>1. SUFFICES ASSUME S # {} PROVE FALSE
    OBVIOUS
  <2>2. PICK q \in S : \A r \in S : q <= r
    <3>1. S \subseteq Nat
      BY <1>0
    <3>. HIDE DEF S
    <3>. QED  BY <2>1, <3>1, LeastExists
  <2>. HIDE DEF x
  <2>3. q \in p .. t.capa /\ ~(h[Right(t, e, q)] >= x - q)
    BY <2>2
  <2>4. q # p
    BY <1>1, <2>3 DEF x
  <2>5. q - 1 \in p .. t.capa /\ q - 1 \in 0 .. t.capa-1 /\ (q - 1) + 1 = q /\ q - 1 \notin S
    BY <1>0, <2>2, <2>3, <2>4
  <2>6. h[Right(t, e, q - 1)] >= x - (q - 1)
    BY <2>5
  <2>7. h[Right(t, e, q - 1)] <= h[Right(t, e, q)] + 1 /\ h[Right(t, e, q - 1)] \in Int /\ h[Right(t, e, q)] \in Int
    BY <2>5, Neighbours
  <2>. QED  BY <1>0, <1>1, <2>3, <2>6, <2>7
<1>3. \A q \in p .. t.capa : h[Right(t, e, q)] >= x - q
  BY <1>2
<1>. HIDE DEF S
<1>4. x <= t.capa - 1
  <2>1. h[Right(t, e, t.capa)] = -1
    BY AtOffset DEF Placed
  <2>2. t.capa \in p .. t.capa /\ -1 >= x - t.capa
    BY <1>0, <1>3, <2>1
  <2>. HIDE DEF x
  <2>. QED  BY <1>0, <1>1, <2>2
<1>5. ASSUME NEW q \in p .. x PROVE h[Right(t, e, q)] >= 0
  <2>. HIDE DEF x
  <2>1. q \in p .. t.capa /\ q \in 0 .. t.capa-1
    BY <1>0, <1>1, <1>4
  <2>2. h[Right(t, e, q)] >= x - q /\ h[Right(t, e, q)] \in Int
    BY <1>3, <2>1, Neighbours
  <2>. QED  BY <1>1, <2>1, <2>2
<1>. QED  BY <1>0, <1>1, <1>3, <1>4, <1>5

\* The homes of the items at the positions 1 .. n behind slot e.
Run(t, h, e, n) == [p \in 1 .. n |-> p + h[Right(t, e, p)]]

\* In a cluster homes rise, groups start at the collision bits, and the
\* virgin bits are the homes.
LEMMA RunFacts ==
  ASSUME NEW t, HasSlots(t), NEW h, Placed(t, h), NEW e \in Slots(t), IsVacant(t, e),
         NEW n \in 0 .. t.capa-1, \A p \in 1 .. n : ~IsVacant(t, Right(t, e, p))
  PROVE  /\ Rises(n, Run(t, h, e, n))
         /\ \A p \in 1 .. n : p <= Run(t, h, e, n)[p] /\ Run(t, h, e, n)[p] <= t.capa-1
         /\ Starts(n, Run(t, h, e, n)) = {p \in 1 .. n : t.table[Right(t, e, p)].cbit}
         /\ {v \in Homes(n, Run(t, h, e, n)) : v <= n} = {v \in 1 .. n : t.table[Right(t, e, v)].vbit}
<1>. DEFINE L == Run(t, h, e, n)
<1>0. t.capa \in Nat /\ n \in 0 .. t.capa-1 /\ n \in Nat /\ t.capa >= 2
  BY DEF HasSlots
<1>1. ASSUME NEW p \in 1 .. n
      PROVE  /\ p \in 1 .. t.capa-1 /\ p \in 0 .. t.capa-1
             /\ h[Right(t, e, p)] \in Int /\ h[Right(t, e, p)] >= 0
             /\ L[p] = p + h[Right(t, e, p)] /\ L[p] \in p .. t.capa-1
             /\ Right(t, e, p) \in Slots(t)
  <2>1. p \in 1 .. t.capa-1 /\ p \in 0 .. t.capa-1
    BY <1>0
  <2>2. ~IsVacant(t, Right(t, e, p))
    OBVIOUS
  <2>3. /\ h[Right(t, e, p)] \in Int /\ h[Right(t, e, p)] >= 0
        /\ Right(t, e, p) \in Slots(t)
    BY <2>1, <2>2, Neighbours
  <2>4. L[p] = p + h[Right(t, e, p)]
    BY DEF Run
  <2>. QED  BY <2>1, <2>3, <2>4, Reach
<1>2. ASSUME NEW p \in 1 .. n-1
      PROVE  L[p] <= L[p + 1] /\ (t.table[Right(t, e, p + 1)].cbit <=> L[p] < L[p + 1])
  <2>1. p \in 1 .. n /\ p + 1 \in 1 .. n
    BY <1>0
  <2>2. /\ h[Right(t, e, p)] <= h[Right(t, e, p + 1)] + 1
        /\ t.table[Right(t, e, p + 1)].cbit
              <=> h[Right(t, e, p)] <= h[Right(t, e, p + 1)] \/ h[Right(t, e, p + 1)] = -1
    BY <1>1, <2>1, Neighbours
  <2>. HIDE DEF L
  <2>3. /\ L[p] = p + h[Right(t, e, p)] /\ L[p + 1] = p + 1 + h[Right(t, e, p + 1)]
        /\ h[Right(t, e, p)] \in Int /\ h[Right(t, e, p + 1)] \in Int /\ h[Right(t, e, p + 1)] >= 0
    BY <1>1, <2>1
  <2>. QED  BY <1>0, <2>2, <2>3
<1>3. n >= 1 => t.table[Right(t, e, 1)].cbit
  <2>1. SUFFICES ASSUME n >= 1 PROVE t.table[Right(t, e, 1)].cbit
    OBVIOUS
  <2>2. 0 \in 0 .. t.capa-1 /\ 0 + 1 = 1 /\ 1 \in 1 .. n
    BY <1>0, <2>1
  <2>3. h[Right(t, e, 0)] = -1
    BY AtOffset DEF Placed
  <2>4. t.table[Right(t, e, 0 + 1)].cbit
          <=> h[Right(t, e, 0)] <= h[Right(t, e, 0 + 1)] \/ h[Right(t, e, 0 + 1)] = -1
    BY <2>2, Neighbours
  <2>5. h[Right(t, e, 1)] \in Int /\ h[Right(t, e, 1)] >= 0
    BY <1>1, <2>2
  <2>. QED  BY <2>2, <2>3, <2>4, <2>5
<1>4. Rises(n, L)
  <2>1. L \in [1 .. n -> Nat]
    <3>1. \A p \in 1 .. n : L[p] \in Nat
      <4>. HIDE DEF L
      <4>. QED  BY <1>0, <1>1
    <3>. QED  BY <3>1 DEF Run
  <2>. QED  BY <1>2, <2>1 DEF Rises
<1>5. Starts(n, L) = {p \in 1 .. n : t.table[Right(t, e, p)].cbit}
  <2>1. ASSUME NEW p \in 1 .. n
        PROVE  t.table[Right(t, e, p)].cbit <=> p = 1 \/ L[p - 1] < L[p]
    <3>1. CASE p = 1
      BY <1>0, <1>3, <3>1
    <3>2. CASE p # 1
      <4>1. p - 1 \in 1 .. n-1 /\ (p - 1) + 1 = p
        BY <1>0, <3>2
      <4>. HIDE DEF L
      <4>2. t.table[Right(t, e, p)].cbit <=> L[p - 1] < L[p]
        BY <1>2, <4>1
      <4>. QED  BY <3>2, <4>2
    <3>. QED  BY <3>1, <3>2
  <2>. HIDE DEF L
  <2>. QED  BY <2>1 DEF Starts
<1>6. ASSUME NEW v \in 1 .. n
      PROVE  t.table[Right(t, e, v)].vbit <=> v \in Homes(n, L)
  <2>0. Right(t, e, v) \in Slots(t) /\ v \in 0 .. t.capa-1
    BY <1>1
  <2>1. t.table[Right(t, e, v)].vbit <=> \E s \in Slots(t) : h[s] >= 0 /\ Home(t, h, s) = Right(t, e, v)
    BY <2>0 DEF Placed
  <2>2. ASSUME NEW p \in 1 .. n, L[p] = v PROVE t.table[Right(t, e, v)].vbit
    <3>1. /\ p \in Nat /\ h[Right(t, e, p)] \in Nat /\ p + h[Right(t, e, p)] = v /\ v <= t.capa
          /\ Right(t, e, p) \in Slots(t)
      <4>. HIDE DEF L
      <4>1. /\ h[Right(t, e, p)] \in Int /\ h[Right(t, e, p)] >= 0
            /\ L[p] = p + h[Right(t, e, p)] /\ Right(t, e, p) \in Slots(t)
        BY <1>1
      <4>2. p \in Nat /\ v <= t.capa
        BY <1>0
      <4>. QED  BY <2>2, <4>1, <4>2
    <3>2. Right(t, Right(t, e, p), h[Right(t, e, p)]) = Right(t, e, v)
      BY <3>1, RightRight
    <3>. QED  BY <2>1, <3>1, <3>2 DEF Home
  <2>3. ASSUME NEW s \in Slots(t), h[s] >= 0, Home(t, h, s) = Right(t, e, v)
        PROVE  v \in Homes(n, L)
    <3>. DEFINE p == Offset(t, e, s)
    <3>1. p \in 0 .. t.capa-1 /\ Right(t, e, p) = s
      BY AtOffset
    <3>. HIDE DEF p
    <3>2. p # 0
      BY <2>3, <3>1, AtOffset DEF Placed
    <3>3. p \in 1 .. t.capa-1
      BY <1>0, <3>1, <3>2
    <3>4. p + h[s] \in p .. t.capa-1 /\ h[s] \in Int
      BY <2>3, <3>1, <3>3, Reach DEF Placed
    <3>5. p \in Nat /\ h[s] \in Nat /\ p + h[s] <= t.capa /\ p + h[s] \in 0 .. t.capa-1
      BY <1>0, <2>3, <3>3, <3>4
    <3>6. Right(t, e, p + h[s]) = Right(t, e, v)
      BY <2>3, <3>1, <3>5, RightRight DEF Home
    <3>7. p + h[s] = v
      BY <2>0, <3>5, <3>6, AtOffset
    <3>8. p \in 1 .. n
      BY <1>0, <3>3, <3>5, <3>7
    <3>9. L[p] = v
      <4>. HIDE DEF L
      <4>. QED  BY <1>1, <3>1, <3>7, <3>8
    <3>. QED  BY <3>8, <3>9 DEF Homes
  <2>. HIDE DEF L
  <2>4. v \in Homes(n, L) <=> \E p \in 1 .. n : L[p] = v
    BY DEF Homes
  <2>. QED  BY <2>1, <2>2, <2>3, <2>4
<1>7. \A v \in Homes(n, L) : v \in Nat /\ v >= 1
  <2>. HIDE DEF L
  <2>. QED  BY <1>0, <1>1 DEF Homes
<1>8. {v \in Homes(n, L) : v <= n} = {v \in 1 .. n : t.table[Right(t, e, v)].vbit}
  <2>. HIDE DEF L
  <2>. QED  BY <1>0, <1>6, <1>7
<1>9. \A p \in 1 .. n : p <= L[p] /\ L[p] <= t.capa-1
  <2>. HIDE DEF L
  <2>. QED  BY <1>0, <1>1
<1>. QED  BY <1>4, <1>5, <1>8, <1>9

----------------------------------------------------------------------------
(* Finding a group. *)

LEMMA RightLeft ==
  ASSUME NEW t, HasSlots(t), NEW e \in Slots(t), NEW p \in 0 .. t.capa
  PROVE  Left(t, Right(t, e, p), p) = e
<1>. DEFINE c == t.capa
            x == Right(t, e, p)
<1>1. c \in Nat /\ c >= 2 /\ e \in 0 .. c-1 /\ p \in 0 .. c
  BY DEF HasSlots, Slots
<1>2. x = (IF e + p < c THEN e + p ELSE e + p - c) /\ x \in Slots(t)
  BY RightWraps
<1>. HIDE DEF x
<1>3. Left(t, x, p) = IF p <= x THEN x - p ELSE x + c - p
  BY <1>2, LeftWraps
<1>. HIDE DEF c
<1>4. Left(t, x, p) = e
  BY <1>1, <1>2, <1>3
<1>. QED  BY <1>4 DEF x

\* Left of a taken slot there is a nearest free one.
LEMMA GapFacts ==
  ASSUME NEW t, HasSlots(t), Vacant(t) # {}, NEW x \in Slots(t), ~IsVacant(t, x)
  PROVE  /\ Gap(t, x) \in 1 .. t.capa-1
         /\ Left(t, x, Gap(t, x)) \in Slots(t) /\ IsVacant(t, Left(t, x, Gap(t, x)))
         /\ Right(t, Left(t, x, Gap(t, x)), Gap(t, x)) = x
         /\ \A p \in 1 .. Gap(t, x) : ~IsVacant(t, Right(t, Left(t, x, Gap(t, x)), p))
<1>. DEFINE D == {d \in 1 .. t.capa-1 : IsVacant(t, Left(t, x, d))}
            g == Gap(t, x)
<1>0. t.capa \in Nat /\ t.capa >= 2
  BY DEF HasSlots
<1>1. D # {} /\ D \subseteq Nat
  <2>1. PICK y \in Slots(t) : IsVacant(t, y)
    BY DEF Vacant
  <2>. DEFINE d == Offset(t, y, x)
  <2>2. d \in 0 .. t.capa-1 /\ Right(t, y, d) = x
    BY AtOffset
  <2>. HIDE DEF d
  <2>3. d # 0
    BY <2>1, <2>2, AtOffset
  <2>4. d \in 1 .. t.capa-1 /\ d \in 0 .. t.capa
    BY <1>0, <2>2, <2>3
  <2>5. Left(t, x, d) = y
    BY <2>2, <2>4, RightLeft
  <2>6. d \in D
    BY <2>1, <2>4, <2>5
  <2>. QED  BY <1>0, <2>6
<1>2. PICK d \in D : \A f \in D : d <= f
  <2>. HIDE DEF D
  <2>. QED  BY <1>1, LeastExists
<1>3. \A f \in 1 .. d-1 : ~IsVacant(t, Left(t, x, f))
  BY <1>0, <1>2
<1>4. g \in 1 .. t.capa /\ IsVacant(t, Left(t, x, g)) /\ \A f \in 1 .. g-1 : ~IsVacant(t, Left(t, x, f))
  <2>1. d \in 1 .. t.capa /\ IsVacant(t, Left(t, x, d))
    BY <1>0, <1>2
  <2>. HIDE DEF D
  <2>. QED  BY <1>3, <2>1 DEF Gap
<1>. HIDE DEF g
<1>5. g \in 1 .. t.capa-1
  <2>1. d \in 1 .. t.capa-1 /\ IsVacant(t, Left(t, x, d))
    BY <1>2
  <2>2. ~(d < g)
    BY <1>0, <1>4, <2>1
  <2>. QED  BY <1>0, <1>4, <2>1, <2>2
<1>6. g \in 0 .. t.capa
  BY <1>0, <1>5
<1>7. /\ Left(t, x, g) \in Slots(t) /\ Right(t, Left(t, x, g), g) = x
      /\ \A f \in 0 .. g : Left(t, x, f) = Right(t, Left(t, x, g), g - f)
  BY <1>6, LeftRight
<1>8. ASSUME NEW p \in 1 .. g PROVE ~IsVacant(t, Right(t, Left(t, x, g), p))
  <2>1. CASE p = g
    BY <1>7, <2>1
  <2>2. CASE p # g
    <3>1. g - p \in 1 .. g-1 /\ g - p \in 0 .. g /\ g - (g - p) = p
      BY <1>5, <2>2
    <3>. QED  BY <1>4, <1>7, <3>1
  <2>. QED  BY <2>1, <2>2
<1>. QED  BY <1>4, <1>5, <1>7, <1>8 DEF g

\* A count of collision bits grows where there is one.
LEMMA CountGrows ==
  ASSUME NEW t, NEW e, NEW a \in Nat, NEW b \in Nat, a < b, t.table[Right(t, e, b)].cbit
  PROVE  Cardinality({f \in 1 .. a : t.table[Right(t, e, f)].cbit})
           < Cardinality({f \in 1 .. b : t.table[Right(t, e, f)].cbit})
<1>. DEFINE A == {f \in 1 .. a : t.table[Right(t, e, f)].cbit}
            B == {f \in 1 .. b : t.table[Right(t, e, f)].cbit}
<1>1. A \subseteq B /\ b \in B /\ b \notin A
  OBVIOUS
<1>2. IsFiniteSet(B)
  <2>1. IsFiniteSet(1 .. b)
    BY FS_Interval
  <2>2. B \in SUBSET (1 .. b)
    OBVIOUS
  <2>. HIDE DEF B
  <2>. QED  BY <2>1, <2>2, FS_Subset
<1>. HIDE DEF A, B
<1>3. IsFiniteSet(A) /\ Cardinality(A) <= Cardinality(B) /\ Cardinality(A) # Cardinality(B)
  BY <1>1, <1>2, FS_Subset
<1>4. Cardinality(A) < Cardinality(B)
  BY <1>2, <1>3, FS_CardinalityType
<1>. QED  BY <1>4 DEF A, B

\* What find_ass_cbit_ returns, with positions counted from the free slot: the
\* start of the group of the last virgin bit up to slot x.
AssIs(t, h, x, n) ==
  LET ass == FindAssCbit(t, x)
      L == Run(t, h, ass.empty, n)
  IN /\ n \in 1 .. t.capa-1
     /\ ass.empty \in Slots(t) /\ IsVacant(t, ass.empty)
     /\ Right(t, ass.empty, n) = x
     /\ \A p \in 1 .. n : ~IsVacant(t, Right(t, ass.empty, p))
     /\ \/ /\ ass.group = Nil
           /\ \A v \in 1 .. n : ~t.table[Right(t, ass.empty, v)].vbit
        \/ \E s \in 1 .. n :
             /\ ass.group = Right(t, ass.empty, s) /\ s \in Starts(n, L)
             /\ L[s] \in 1 .. n /\ t.table[Right(t, ass.empty, L[s])].vbit
             /\ \A v \in 1 .. n : t.table[Right(t, ass.empty, v)].vbit => v <= L[s]

\* find_ass_cbit_ from a taken slot.
LEMMA AssFacts ==
  ASSUME NEW t, HasSlots(t), NEW h, Placed(t, h), Vacant(t) # {}, NEW x \in Slots(t), ~IsVacant(t, x)
  PROVE  \E n \in 1 .. t.capa-1 : AssIs(t, h, x, n)
<1>. DEFINE n == Gap(t, x)
            e == Left(t, x, n)
            L == Run(t, h, e, n)
            ass == FindAssCbit(t, x)
            V == {v \in 1 .. n : t.table[Right(t, e, v)].vbit}
            W == {d \in 0 .. n-1 : t.table[Left(t, x, d)].vbit}
            cbits(b) == Cardinality({f \in 1 .. b : t.table[Right(t, e, f)].cbit})
            isStart(b) == b \in 1 .. t.capa /\ t.table[Right(t, e, b)].cbit /\ cbits(b) = Cardinality(W)
<1>1. /\ n \in 1 .. t.capa-1 /\ e \in Slots(t) /\ IsVacant(t, e) /\ Right(t, e, n) = x
      /\ \A p \in 1 .. n : ~IsVacant(t, Right(t, e, p))
  BY GapFacts
<1>2. /\ ass.empty = e
      /\ ass.group = IF Cardinality(W) = 0 THEN Nil ELSE Right(t, e, CHOOSE b \in 1 .. t.capa :
                                       t.table[Right(t, e, b)].cbit /\ cbits(b) = Cardinality(W))
  BY DEF FindAssCbit
<1>3. (CHOOSE b \in 1 .. t.capa : t.table[Right(t, e, b)].cbit /\ cbits(b) = Cardinality(W))
        = CHOOSE b : isStart(b)
  OBVIOUS
<1>. HIDE DEF n, e, ass
<1>4. t.capa \in Nat /\ t.capa >= 2 /\ n \in 0 .. t.capa-1 /\ n \in Nat /\ n \in 0 .. t.capa
  BY <1>1 DEF HasSlots
<1>5. /\ Rises(n, L)
      /\ Starts(n, L) = {p \in 1 .. n : t.table[Right(t, e, p)].cbit}
      /\ {v \in Homes(n, L) : v <= n} = V
  BY <1>1, <1>4, RunFacts
<1>6. IsFiniteSet(V) /\ Cardinality(W) = Cardinality(V)
  <2>. DEFINE f == [v \in V |-> n - v]
  <2>1. \A d \in 0 .. n-1 : Left(t, x, d) = Right(t, e, n - d)
    <3>1. \A d \in 0 .. n : Left(t, x, d) = Right(t, e, n - d)
      BY <1>4, LeftRight DEF e
    <3>. QED  BY <1>4, <3>1
  <2>2. f \in [V -> W]
    <3>1. SUFFICES ASSUME NEW v \in V PROVE n - v \in W
      OBVIOUS
    <3>2. n - v \in 0 .. n-1 /\ n - (n - v) = v
      BY <1>4
    <3>. QED  BY <2>1, <3>2
  <2>3. \A v, w \in V : f[v] = f[w] => v = w
    BY <1>4
  <2>4. ASSUME NEW d \in W PROVE \E v \in V : f[v] = d
    <3>1. n - d \in 1 .. n /\ n - (n - d) = d
      BY <1>4
    <3>2. n - d \in V
      BY <2>1, <3>1
    <3>. QED  BY <3>1, <3>2
  <2>5. f \in Bijection(V, W)
    <3>. HIDE DEF V, W
    <3>. QED  BY <2>2, <2>3, <2>4 DEF Bijection, Injection, Surjection, IsInjective
  <2>6. IsFiniteSet(V)
    <3>1. IsFiniteSet(1 .. n) /\ V \in SUBSET (1 .. n)
      BY <1>4, FS_Interval
    <3>. HIDE DEF V
    <3>. QED  BY <3>1, FS_Subset
  <2>. HIDE DEF f, V, W
  <2>. QED  BY <2>5, <2>6, FS_Bijection DEF ExistsBijection
<1>7. CASE V = {}
  <2>1. Cardinality(W) = 0
    <3>. HIDE DEF V, W
    <3>. QED  BY <1>6, <1>7, FS_EmptySet
  <2>2. ass.group = Nil
    BY <1>2, <2>1
  <2>3. \A v \in 1 .. n : ~t.table[Right(t, e, v)].vbit
    BY <1>7
  <2>4. AssIs(t, h, x, n)
    BY <1>1, <1>2, <2>2, <2>3 DEF AssIs, ass
  <2>. QED  BY <1>1, <2>4
<1>8. CASE V # {}
  <2>1. PICK m \in V : \A v \in V : v <= m
    <3>. DEFINE S == {n - v : v \in V}
    <3>1. S # {} /\ S \subseteq Nat
      BY <1>4, <1>8
    <3>2. PICK d \in S : \A f \in S : d <= f
      <4>. HIDE DEF S
      <4>. QED  BY <3>1, LeastExists
    <3>3. PICK m \in V : d = n - m
      BY <3>2
    <3>4. ASSUME NEW v \in V PROVE v <= m
      <4>1. n - m <= n - v
        BY <3>2, <3>3
      <4>. QED  BY <1>4, <4>1
    <3>. QED  BY <3>4
  <2>2. m \in 1 .. n /\ m \in Homes(n, L) /\ t.table[Right(t, e, m)].vbit
    BY <1>5, <2>1
  <2>. HIDE DEF L
  <2>3. PICK s \in Starts(n, L) : L[s] = m
    <3>1. PICK p \in 1 .. n : L[p] = m
      BY <2>2 DEF Homes
    <3>. QED  BY <1>4, <1>5, <3>1, StartExists
  <2>4. s \in 1 .. n /\ t.table[Right(t, e, s)].cbit
    BY <1>5, <2>3
  <2>5. {v \in Homes(n, L) : v <= L[s]} = V
    <3>1. \A v \in V : v <= L[s] /\ v \in Homes(n, L)
      BY <1>5, <2>1, <2>3
    <3>2. \A v \in Homes(n, L) : v <= L[s] => v \in V
      <4>1. L[s] <= n /\ L[s] \in Nat /\ \A p \in 1 .. n : L[p] \in Nat
        BY <1>4, <1>5, <2>2, <2>3 DEF Rises
      <4>. HIDE DEF V
      <4>2. \A v \in Homes(n, L) : v \in Nat
        BY <4>1 DEF Homes
      <4>3. \A v \in Homes(n, L) : v <= L[s] => v <= n
        BY <1>4, <4>1, <4>2
      <4>. QED  BY <1>5, <4>3
    <3>. HIDE DEF V
    <3>. QED  BY <3>1, <3>2
  <2>6. {q \in Starts(n, L) : q <= s} = {f \in 1 .. s : t.table[Right(t, e, f)].cbit}
    BY <1>4, <1>5, <2>4
  <2>7. cbits(s) = Cardinality(W)
    <3>. HIDE DEF V, W
    <3>1. Cardinality({q \in Starts(n, L) : q <= s}) = Cardinality(V)
      BY <1>4, <1>5, <2>3, <2>5, CountAtStart
    <3>. QED  BY <1>6, <2>6, <3>1
  <2>. HIDE DEF V, W
  <2>8. isStart(s)
    BY <1>4, <2>4, <2>7
  <2>9. ASSUME NEW b, isStart(b) PROVE b = s
    <3>1. b \in Nat /\ s \in Nat /\ t.table[Right(t, e, b)].cbit /\ cbits(b) = cbits(s)
      BY <1>4, <2>4, <2>7, <2>9
    <3>2. cbits(b) \in Nat
      <4>. DEFINE B == {f \in 1 .. b : t.table[Right(t, e, f)].cbit}
      <4>1. IsFiniteSet(1 .. b) /\ B \in SUBSET (1 .. b)
        BY <3>1, FS_Interval
      <4>2. IsFiniteSet(B)
        <5>. HIDE DEF B
        <5>. QED  BY <4>1, FS_Subset
      <4>. QED  BY <4>2, FS_CardinalityType
    <3>3. b < s => cbits(b) < cbits(s)
      BY <2>4, <3>1, CountGrows
    <3>4. s < b => cbits(s) < cbits(b)
      BY <3>1, CountGrows
    <3>. HIDE DEF cbits
    <3>. QED  BY <3>1, <3>2, <3>3, <3>4
  <2>10. (CHOOSE b : isStart(b)) = s
    <3>. HIDE DEF isStart
    <3>. QED  BY <2>8, <2>9
  <2>11. ass.group = Right(t, e, s)
    <3>1. Cardinality(W) # 0
      BY <1>6, <1>8, FS_EmptySet
    <3>. HIDE DEF isStart
    <3>. QED  BY <1>2, <1>3, <2>10, <3>1
  <2>12. \A v \in 1 .. n : t.table[Right(t, e, v)].vbit => v <= L[s]
    BY <2>1, <2>3 DEF V
  <2>13. AssIs(t, h, x, n)
    BY <1>1, <1>2, <2>2, <2>3, <2>4, <2>11, <2>12 DEF AssIs, ass, L
  <2>. QED  BY <1>1, <2>13
<1>. QED  BY <1>7, <1>8

\* The group that starts at position s behind the free slot e: its slots, and
\* that no other item belongs to its mod.
GroupIs(t, h, e, s, len) ==
  LET home == s + h[Right(t, e, s)]
  IN /\ len \in Nat /\ len >= 1 /\ home \in Nat /\ s + len - 1 <= home /\ home <= t.capa-1
     /\ Group(t, Right(t, e, s)) = 0 .. len-1
     /\ GroupEnd(t, Right(t, e, s)) = Right(t, e, s + len - 1)
     /\ t.table[Right(t, e, s + len)].cbit
     /\ \A p \in 1 .. t.capa-1 : h[Right(t, e, p)] >= 0 =>
          /\ p < s => p + h[Right(t, e, p)] < home
          /\ p \in s .. s+len-1 => p + h[Right(t, e, p)] = home
          /\ p > s+len-1 => p + h[Right(t, e, p)] > home

\* A group begins at a collision bit, and has all items of its mod.
LEMMA GroupFacts ==
  ASSUME NEW t, HasSlots(t), NEW h, Placed(t, h), NEW e \in Slots(t), IsVacant(t, e),
         NEW n \in 0 .. t.capa-1, \A p \in 1 .. n : ~IsVacant(t, Right(t, e, p)),
         NEW s \in 1 .. n, t.table[Right(t, e, s)].cbit
  PROVE  \E len \in Nat : GroupIs(t, h, e, s, len)
<1>. DEFINE c == t.capa
            g == Right(t, e, s)
            home == s + h[g]
            L == Run(t, h, e, home)
            D == {d \in 1 .. c-s : t.table[Right(t, e, s + d)].cbit}
<1>0. /\ c \in Nat /\ c >= 2 /\ s \in 1 .. c-1 /\ s \in 0 .. c-1 /\ s \in Nat /\ n \in 0 .. c-1
      /\ s \in 0 .. c
  BY DEF HasSlots
<1>1. h[g] \in Nat /\ g \in Slots(t)
  <2>1. ~IsVacant(t, g)
    OBVIOUS
  <2>2. h[g] \in Int /\ h[g] >= -1 /\ (h[g] = -1 <=> IsVacant(t, g)) /\ g \in Slots(t)
    BY <1>0, Neighbours
  <2>. HIDE DEF g
  <2>. QED  BY <2>1, <2>2
<1>2. home \in s .. c-1 /\ \A q \in s .. home : h[Right(t, e, q)] >= 0
  <2>1. h[Right(t, e, s)] >= 0
    BY <1>1
  <2>. QED  BY <1>0, <2>1, Reach
<1>3. home \in 0 .. c-1 /\ home \in Nat /\ \A q \in 1 .. home : ~IsVacant(t, Right(t, e, q))
  <2>. HIDE DEF home
  <2>1. home \in 0 .. c-1 /\ home \in Nat
    BY <1>0, <1>2
  <2>2. ASSUME NEW q \in 1 .. home PROVE ~IsVacant(t, Right(t, e, q))
    <3>1. CASE q <= s
      <4>1. q \in 1 .. n
        BY <1>0, <2>1, <3>1
      <4>. QED  BY <4>1
    <3>2. CASE ~(q <= s)
      <4>1. q \in s .. home /\ q \in 0 .. c-1
        BY <1>0, <2>1, <3>2
      <4>2. h[Right(t, e, q)] >= 0
        BY <1>2, <4>1
      <4>. QED  BY <4>1, <4>2, Neighbours
    <3>. QED  BY <3>1, <3>2
  <2>. QED  BY <2>1, <2>2
<1>4. /\ Rises(home, L)
      /\ Starts(home, L) = {p \in 1 .. home : t.table[Right(t, e, p)].cbit}
      /\ \A p \in 1 .. home : L[p] = p + h[Right(t, e, p)]
  <2>1. \A p \in 1 .. home : L[p] = p + h[Right(t, e, p)]
    BY DEF Run
  <2>. HIDE DEF home
  <2>. QED  BY <1>3, <2>1, RunFacts
<1>. HIDE DEF L
<1>5. s \in Starts(home, L) /\ L[s] = home /\ s \in 1 .. home
  <2>1. s \in 1 .. home
    BY <1>0, <1>2
  <2>2. L[s] = home
    BY <1>4, <2>1
  <2>. HIDE DEF home
  <2>. QED  BY <1>4, <2>1, <2>2
<1>6. c - s \in D
  <2>1. c-1 \in 0 .. t.capa-1 /\ (c-1) + 1 = c
    BY <1>0
  <2>2. t.table[Right(t, e, (c-1) + 1)].cbit
          <=> h[Right(t, e, c-1)] <= h[Right(t, e, (c-1) + 1)] \/ h[Right(t, e, (c-1) + 1)] = -1
    BY <2>1, Neighbours, SMTT(30)
  <2>3. Right(t, e, c) = e /\ h[e] = -1
    BY AtOffset DEF Placed
  <2>4. t.table[Right(t, e, c)].cbit
    BY <2>1, <2>2, <2>3
  <2>. HIDE DEF c
  <2>5. s + (c - s) = c /\ c - s \in 1 .. c-s
    BY <1>0
  <2>. QED  BY <2>4, <2>5
<1>7. PICK len \in D : \A f \in D : len <= f
  <2>1. D # {} /\ D \subseteq Nat
    BY <1>0, <1>6
  <2>. HIDE DEF D
  <2>. QED  BY <2>1, LeastExists
<1>8. /\ len \in 1 .. c-s /\ t.table[Right(t, e, s + len)].cbit
      /\ \A f \in 1 .. len-1 : ~t.table[Right(t, e, s + f)].cbit
  <2>1. len \in 1 .. c-s /\ t.table[Right(t, e, s + len)].cbit
    BY <1>7
  <2>2. ASSUME NEW f \in 1 .. len-1, t.table[Right(t, e, s + f)].cbit PROVE FALSE
    <3>1. f \in 1 .. c-s
      BY <1>0, <2>1
    <3>2. f \in D
      BY <2>2, <3>1
    <3>3. len <= f
      BY <1>7, <3>2
    <3>. QED  BY <1>0, <2>1, <3>3
  <2>. QED  BY <2>1, <2>2
<1>. HIDE DEF D
<1>9. \A d \in 0 .. len-1 : h[Right(t, e, s + d)] >= 0 /\ s + d + h[Right(t, e, s + d)] = home
  <2>. DEFINE S == {d \in 0 .. len-1 : ~(h[Right(t, e, s + d)] >= 0 /\ s + d + h[Right(t, e, s + d)] = home)}
  <2>1. SUFFICES ASSUME S # {} PROVE FALSE
    OBVIOUS
  <2>2. PICK d \in S : \A f \in S : d <= f
    <3>1. S \subseteq Nat
      OBVIOUS
    <3>. HIDE DEF S
    <3>. QED  BY <2>1, <3>1, LeastExists
  <2>3. d # 0
    <3>1. s + 0 = s
      BY <1>0
    <3>2. h[Right(t, e, s + 0)] >= 0 /\ s + 0 + h[Right(t, e, s + 0)] = home
      BY <1>0, <1>1, <3>1
    <3>. QED  BY <2>2, <3>2
  <2>4. /\ d \in 1 .. len-1 /\ d - 1 \in 0 .. len-1 /\ d - 1 \notin S
        /\ (s + (d-1)) + 1 = s + d /\ s + (d-1) \in 0 .. c-1 /\ s + (d-1) + 1 = s + d
    <3>1. d \in 1 .. len-1 /\ d - 1 \in 0 .. len-1
      BY <1>0, <1>8, <2>2, <2>3
    <3>2. d - 1 \notin S
      BY <2>2, <3>1
    <3>. QED  BY <1>0, <1>8, <3>1, <3>2
  <2>5. h[Right(t, e, s + (d-1))] >= 0 /\ s + (d-1) + h[Right(t, e, s + (d-1))] = home
    BY <2>4
  <2>6. ~(h[Right(t, e, s + d)] >= 0 /\ s + d + h[Right(t, e, s + d)] = home)
    BY <2>2
  <2>7. ~t.table[Right(t, e, s + d)].cbit
    BY <1>8, <2>4
  <2>. DEFINE a == h[Right(t, e, s + (d-1))]
              b == h[Right(t, e, s + d)]
  <2>8. /\ a \in Int /\ b \in Int /\ a >= -1 /\ b >= -1 /\ a <= b + 1
        /\ ~(a <= b \/ b = -1)
    <3>1. /\ h[Right(t, e, s + (d-1))] \in Int /\ h[Right(t, e, (s + (d-1)) + 1)] \in Int
          /\ h[Right(t, e, s + (d-1))] >= -1 /\ h[Right(t, e, (s + (d-1)) + 1)] >= -1
          /\ h[Right(t, e, s + (d-1))] <= h[Right(t, e, (s + (d-1)) + 1)] + 1
          /\ t.table[Right(t, e, (s + (d-1)) + 1)].cbit
               <=> h[Right(t, e, s + (d-1))] <= h[Right(t, e, (s + (d-1)) + 1)] \/ h[Right(t, e, (s + (d-1)) + 1)] = -1
      BY <2>4, Neighbours
    <3>. QED  BY <2>4, <2>7, <3>1
  <2>9. a >= 0 /\ s + (d-1) + a = home /\ ~(b >= 0 /\ s + d + b = home)
    BY <2>5, <2>6
  <2>. HIDE DEF a, b, home
  <2>. QED  BY <1>0, <2>4, <2>8, <2>9
<1>10. s + len - 1 <= home
  <2>1. len - 1 \in 0 .. len-1
    BY <1>0, <1>8
  <2>2. h[Right(t, e, s + (len-1))] >= 0 /\ s + (len-1) + h[Right(t, e, s + (len-1))] = home
    BY <1>9, <2>1
  <2>3. h[Right(t, e, s + (len-1))] \in Int
    <3>1. s + (len-1) \in 0 .. c-1
      BY <1>0, <1>8
    <3>. QED  BY <3>1, Neighbours
  <2>. HIDE DEF home
  <2>. QED  BY <1>0, <1>3, <1>8, <2>2, <2>3
<1>11. Group(t, g) = 0 .. len-1
  <2>1. ASSUME NEW d \in 0 .. c-1, NEW f \in 1 .. d, f <= len
        PROVE  Right(t, g, f) = Right(t, e, s + f)
    <3>1. f \in Nat /\ s + f <= t.capa
      BY <1>0, <1>8, <2>1
    <3>. QED  BY <1>0, <3>1, RightRight
  <2>. HIDE DEF g
  <2>2. ASSUME NEW d \in 0 .. c-1
        PROVE  d \in 0 .. len-1 <=> \A f \in 1 .. d : ~t.table[Right(t, g, f)].cbit
    <3>1. CASE d \in 0 .. len-1
      <4>1. \A f \in 1 .. d : f \in 1 .. len-1 /\ f <= len
        BY <1>0, <1>8, <3>1
      <4>2. \A f \in 1 .. d : ~t.table[Right(t, g, f)].cbit
        BY <1>8, <2>1, <4>1
      <4>. QED  BY <3>1, <4>2
    <3>2. CASE d \notin 0 .. len-1
      <4>1. len \in 1 .. d /\ len <= len
        BY <1>0, <1>8, <3>2
      <4>2. t.table[Right(t, g, len)].cbit
        BY <1>8, <2>1, <4>1
      <4>. QED  BY <3>2, <4>1, <4>2
    <3>. QED  BY <3>1, <3>2
  <2>3. Group(t, g) = {d \in 0 .. c-1 : \A f \in 1 .. d : ~t.table[Right(t, g, f)].cbit}
    BY DEF Group
  <2>4. 0 .. len-1 \subseteq 0 .. c-1
    BY <1>0, <1>8
  <2>. QED  BY <2>2, <2>3, <2>4
<1>12. GroupEnd(t, g) = Right(t, e, s + len - 1)
  <2>1. Cardinality(0 .. len-1) = len
    <3>1. 0 \in Int /\ len-1 \in Int /\ ~(0 > len-1) /\ (len-1) - 0 + 1 = len
      BY <1>0, <1>8
    <3>. QED  BY <3>1, FS_Interval
  <2>2. GroupEnd(t, g) = Right(t, g, len - 1)
    BY <1>11, <2>1 DEF GroupEnd
  <2>3. len - 1 \in Nat /\ s + (len - 1) <= t.capa /\ s + (len - 1) = s + len - 1
    BY <1>0, <1>8
  <2>4. Right(t, g, len - 1) = Right(t, e, s + (len - 1))
    BY <1>0, <2>3, RightRight
  <2>. QED  BY <2>2, <2>3, <2>4
<1>13. ASSUME NEW p \in 1 .. c-1, h[Right(t, e, p)] >= 0
       PROVE  /\ p < s => p + h[Right(t, e, p)] < home
              /\ p \in s .. s+len-1 => p + h[Right(t, e, p)] = home
              /\ p > s+len-1 => p + h[Right(t, e, p)] > home
  <2>. DEFINE x == h[Right(t, e, p)]
  <2>0. x \in Nat /\ p \in Nat
    <3>1. p \in 0 .. c-1
      OBVIOUS
    <3>2. x \in Int
      BY <3>1, Neighbours
    <3>. QED  BY <1>13, <3>2
  <2>1. CASE p < s
    <3>1. p \in 1 .. home
      BY <1>0, <1>2, <2>1
    <3>2. L[p] < L[s]
      BY <1>3, <1>4, <1>5, <2>1, <3>1, BeforeStart
    <3>. QED  BY <1>0, <1>4, <1>5, <1>8, <2>1, <3>1, <3>2
  <2>2. CASE p \in s .. s+len-1
    <3>1. p - s \in 0 .. len-1 /\ s + (p - s) = p
      BY <1>0, <1>8, <2>2
    <3>2. s + (p - s) + h[Right(t, e, s + (p - s))] = home
      BY <1>9, <3>1
    <3>3. p + x = home
      BY <3>1, <3>2
    <3>. HIDE DEF home, x
    <3>. QED  BY <1>0, <1>8, <2>2, <3>3 DEF x
  <2>3. CASE p > s+len-1
    <3>1. p + x > home
      <4>1. CASE p > home
        <5>. HIDE DEF home, x
        <5>. QED  BY <1>3, <2>0, <4>1
      <4>2. CASE ~(p > home)
        <5>. HIDE DEF home
        <5>1. /\ s + len \in 1 .. home /\ p \in 1 .. home /\ s + len <= p
              /\ s + (len-1) \in 1 .. home /\ s + (len-1) < s + len
          BY <1>0, <1>3, <1>8, <1>10, <2>0, <2>3, <4>2
        <5>2. s + len \in Starts(home, L)
          BY <1>4, <1>8, <5>1
        <5>3. L[s + (len-1)] < L[s + len]
          BY <1>3, <1>4, <5>1, <5>2, BeforeStart
        <5>4. L[s + len] <= L[p]
          BY <1>3, <1>4, <5>1, RisesFar
        <5>5. L[s + (len-1)] = home
          <6>1. len - 1 \in 0 .. len-1
            BY <1>0, <1>8
          <6>. QED  BY <1>4, <1>9, <5>1, <6>1
        <5>6. L[p] = p + x
          BY <1>4, <5>1
        <5>7. L[s + len] \in Nat /\ L[p] \in Nat
          BY <1>4, <5>1 DEF Rises
        <5>. HIDE DEF x
        <5>. QED  BY <1>3, <5>3, <5>4, <5>5, <5>6, <5>7
      <4>. QED  BY <4>1, <4>2
    <3>. HIDE DEF home, x
    <3>. QED  BY <1>0, <1>8, <2>0, <2>3, <3>1 DEF x
  <2>. QED  BY <1>0, <1>8, <2>0, <2>1, <2>2, <2>3
<1>14. len \in Nat /\ len >= 1 /\ home \in Nat /\ home <= t.capa-1
  <2>. HIDE DEF home
  <2>. QED  BY <1>0, <1>3, <1>8
<1>15. GroupIs(t, h, e, s, len)
  BY <1>8, <1>10, <1>11, <1>12, <1>13, <1>14 DEF GroupIs
<1>. QED  BY <1>14, <1>15

----------------------------------------------------------------------------
(* Tables. *)

Taken(t) == Slots(t) \ Vacant(t)
QuoSize(t) == Univ \div t.capa

\* A table that is not above its load limit.
WellFormed(t) ==
  /\ DOMAIN t = {"table", "size", "capa"}
  /\ t.capa \in 1 .. Univ /\ t.capa >= MinCapa /\ Univ % t.capa = 0
  /\ t.table \in [Slots(t) -> [quo : 0 .. QuoSize(t) - 1, val : 0 .. ValMask,
                               vbit : BOOLEAN, cbit : BOOLEAN]]
  /\ t.size = Cardinality(Taken(t)) /\ t.size <= MaxSizeOf(t.capa)

\* A table whose items can be found, no two of which have one key.
Sound(t, h) ==
  /\ WellFormed(t) /\ Placed(t, h)
  /\ \A s, r \in Taken(t) : KeyIn(t, h, s) = KeyIn(t, h, r) => s = r

HeldKeys(t, h) == {KeyIn(t, h, s) : s \in Taken(t)}

\* The load limit leaves a slot free, and doubling the table raises it.
LEMMA CapaBounds ==
  ASSUME NEW c \in Nat, c >= MinCapa
  PROVE  /\ c >= 2
         /\ MaxSizeOf(c) \in Nat /\ MaxSizeOf(c) < c
         /\ MaxSizeOf(c) < MaxSizeOf(2 * c)
<1>0. MinCapa \in Nat /\ MaxFactor \in 1 .. 99 /\ MinCapa * MaxFactor >= 100
  BY CompactAssumption
<1>1. c >= 2
  BY <1>0
<1>. DEFINE p == c * MaxFactor
<1>2. p \in Nat /\ p >= 100 /\ p <= 99 * c /\ (2 * c) * MaxFactor = 2 * p
  BY <1>0
<1>3. p \div 100 \in Nat /\ p \div 100 < c /\ p \div 100 < (2 * p) \div 100
  <2>. HIDE DEF p
  <2>. QED  BY <1>1, <1>2
<1>. QED  BY <1>1, <1>2, <1>3 DEF MaxSizeOf

\* What a table is made of; it has a free slot.
LEMMA TableFacts ==
  ASSUME NEW t, WellFormed(t)
  PROVE  /\ HasSlots(t) /\ t.capa \in Nat \ {0} /\ Slots(t) = 0 .. t.capa-1
         /\ t.capa \in 1 .. Univ /\ t.capa >= MinCapa
         /\ Vacant(t) # {} /\ Vacant(t) \subseteq Slots(t) /\ Taken(t) \subseteq Slots(t)
         /\ \A s \in Slots(t) : s \in Taken(t) <=> ~IsVacant(t, s)
         /\ IsFiniteSet(Taken(t)) /\ t.size \in Nat /\ t.size = Cardinality(Taken(t))
         /\ t.size < t.capa
         /\ \A s \in Taken(t) : t.table[s].val \in 0 .. ValMask-1
         /\ \A s \in Slots(t) : /\ t.table[s].quo \in 0 .. QuoSize(t)-1
                                /\ t.table[s].vbit \in BOOLEAN /\ t.table[s].cbit \in BOOLEAN
<1>1. Univ \in Nat /\ t.capa \in Nat \ {0} /\ t.capa \in 1 .. Univ /\ t.capa >= MinCapa
  BY CompactAssumption DEF WellFormed
<1>2. t.capa >= 2 /\ MaxSizeOf(t.capa) \in Nat /\ MaxSizeOf(t.capa) < t.capa
  BY <1>1, CapaBounds
<1>3. Slots(t) = 0 .. t.capa-1 /\ IsFiniteSet(Slots(t)) /\ Cardinality(Slots(t)) = t.capa
  <2>1. 0 \in Int /\ t.capa - 1 \in Int /\ ~(0 > t.capa - 1) /\ (t.capa - 1) - 0 + 1 = t.capa
    BY <1>1
  <2>2. IsFiniteSet(0 .. t.capa-1) /\ Cardinality(0 .. t.capa-1) = t.capa
    BY <2>1, FS_Interval
  <2>. QED  BY <2>2 DEF Slots
<1>4. Vacant(t) \subseteq Slots(t) /\ Taken(t) \subseteq Slots(t)
      /\ \A s \in Slots(t) : s \in Taken(t) <=> ~IsVacant(t, s)
  BY DEF Vacant, Taken
<1>5. IsFiniteSet(Taken(t)) /\ t.size \in Nat /\ t.size = Cardinality(Taken(t)) /\ t.size < t.capa
  <2>1. IsFiniteSet(Taken(t)) /\ Cardinality(Taken(t)) \in Nat
    BY <1>3, <1>4, FS_Subset, FS_CardinalityType
  <2>2. t.size = Cardinality(Taken(t)) /\ t.size <= MaxSizeOf(t.capa)
    BY DEF WellFormed
  <2>. QED  BY <1>1, <1>2, <2>1, <2>2
<1>6. Vacant(t) # {}
  <2>1. SUFFICES ASSUME Vacant(t) = {} PROVE FALSE
    OBVIOUS
  <2>2. Taken(t) = Slots(t)
    BY <2>1 DEF Taken
  <2>. QED  BY <1>1, <1>3, <1>5, <2>2
<1>7. \A s \in Slots(t) : /\ t.table[s].quo \in 0 .. QuoSize(t)-1 /\ t.table[s].val \in 0 .. ValMask
                          /\ t.table[s].vbit \in BOOLEAN /\ t.table[s].cbit \in BOOLEAN
  BY DEF WellFormed
<1>8. \A s \in Taken(t) : t.table[s].val \in 0 .. ValMask-1
  <2>1. SUFFICES ASSUME NEW s \in Taken(t) PROVE t.table[s].val \in 0 .. ValMask-1
    OBVIOUS
  <2>2. s \in Slots(t) /\ t.table[s].val # ValMask /\ t.table[s].val \in 0 .. ValMask
    BY <1>4, <1>7 DEF IsVacant
  <2>. QED  BY <2>2, CompactAssumption
<1>. QED  BY <1>1, <1>2, <1>3, <1>4, <1>5, <1>6, <1>7, <1>8 DEF HasSlots

----------------------------------------------------------------------------
(* Keys, quotients and mods. *)

\* Quotients and remainders.
LEMMA DivMod ==
  ASSUME NEW c \in Nat \ {0}, NEW q \in Nat, NEW r \in 0 .. c-1
  PROVE  (q * c + r) \div c = q /\ (q * c + r) % c = r
OBVIOUS

LEMMA DivModBounds ==
  ASSUME NEW c \in Nat \ {0}, NEW m \in Nat, NEW x \in 0 .. c * m - 1
  PROVE  /\ x \div c \in 0 .. m-1 /\ x % c \in 0 .. c-1
         /\ (x \div c) * c + (x % c) = x
<1>. DEFINE q == x \div c
            r == x % c
<1>1. q \in Nat /\ r \in 0 .. c-1 /\ x = q * c + r
  OBVIOUS
<1>2. q < m
  <2>1. SUFFICES ASSUME q >= m PROVE FALSE
    BY <1>1
  <2>. HIDE DEF q, r
  <2>2. q * c >= m * c
    BY <1>1, <2>1
  <2>. QED  BY <1>1, <2>2
<1>. HIDE DEF q, r
<1>3. q \in 0 .. m-1 /\ q * c + r = x
  BY <1>1, <1>2
<1>. QED  BY <1>1, <1>3 DEF q, r

LEMMA MulBound ==
  ASSUME NEW c \in Nat \ {0}, NEW m \in Nat, NEW q \in 0 .. m-1, NEW r \in 0 .. c-1
  PROVE  q * c + r \in 0 .. c * m - 1
<1>1. q + 1 <= m
  OBVIOUS
<1>2. (q + 1) * c <= m * c
  BY <1>1
<1>. QED  BY <1>2

\* A table whose capacity divides the universe splits it evenly.
LEMMA UniverseSplits ==
  ASSUME NEW t, WellFormed(t)
  PROVE  QuoSize(t) \in Nat /\ Univ = t.capa * QuoSize(t)
<1>. DEFINE c == t.capa
            m == Univ \div c
<1>1. c \in Nat \ {0} /\ Univ \in Nat /\ Univ % c = 0
  BY CompactAssumption, TableFacts DEF WellFormed
<1>. HIDE DEF c
<1>2. m \in Nat /\ Univ = c * m
  BY <1>1
<1>. QED  BY <1>2 DEF QuoSize, c

\* The hash of a key splits into a quotient and a mod, which give it back.
LEMMA KeySplits ==
  ASSUME NEW t, WellFormed(t), NEW key \in Keys
  PROVE  /\ Quo(t, key) \in 0 .. QuoSize(t)-1 /\ Mod(t, key) \in Slots(t)
         /\ HashInv[Quo(t, key) * t.capa + Mod(t, key)] = key
<1>. DEFINE c == t.capa
            m == QuoSize(t)
            x == Hash[key]
<1>1. c \in Nat \ {0} /\ m \in Nat /\ Univ = c * m /\ Slots(t) = 0 .. c-1
  BY TableFacts, UniverseSplits
<1>2. x \in 0 .. Univ-1 /\ HashInv[x] = key
  BY CompactAssumption DEF Keys
<1>3. Quo(t, key) = x \div c /\ Mod(t, key) = x % c
  BY DEF Quo, Mod
<1>. HIDE DEF c, m, x
<1>4. x \div c \in 0 .. m-1 /\ x % c \in 0 .. c-1 /\ (x \div c) * c + (x % c) = x
  BY <1>1, <1>2, DivModBounds
<1>5. /\ Quo(t, key) \in 0 .. m-1 /\ Mod(t, key) \in Slots(t)
      /\ HashInv[Quo(t, key) * c + Mod(t, key)] = key
  BY <1>1, <1>2, <1>3, <1>4
<1>. QED  BY <1>5 DEF c, m

\* A quotient and a mod are those of one key.
LEMMA KeyJoins ==
  ASSUME NEW t, WellFormed(t), NEW quo \in 0 .. QuoSize(t)-1, NEW mod \in Slots(t)
  PROVE  /\ HashInv[quo * t.capa + mod] \in Keys
         /\ Quo(t, HashInv[quo * t.capa + mod]) = quo
         /\ Mod(t, HashInv[quo * t.capa + mod]) = mod
<1>. DEFINE c == t.capa
            m == QuoSize(t)
            x == quo * c + mod
            key == HashInv[x]
<1>1. c \in Nat \ {0} /\ m \in Nat /\ Univ = c * m /\ mod \in 0 .. c-1 /\ quo \in 0 .. m-1 /\ quo \in Nat
  BY TableFacts, UniverseSplits
<1>2. x \in 0 .. Univ-1 /\ x \div c = quo /\ x % c = mod
  <2>. HIDE DEF c, m
  <2>. QED  BY <1>1, MulBound, DivMod
<1>. HIDE DEF x
<1>3. key \in Keys /\ Hash[key] = x
  BY <1>2, CompactAssumption DEF Keys
<1>4. Quo(t, key) = x \div c /\ Mod(t, key) = x % c
  BY <1>3 DEF Quo, Mod
<1>. QED  BY <1>2, <1>3, <1>4 DEF x

\* The key of an item has the quotient of the item and the mod of its group,
\* and is the only such key.
LEMMA ItemKey ==
  ASSUME NEW t, NEW h, WellFormed(t), NEW s \in Slots(t), Home(t, h, s) \in Slots(t)
  PROVE  /\ KeyIn(t, h, s) \in Keys
         /\ Quo(t, KeyIn(t, h, s)) = t.table[s].quo /\ Mod(t, KeyIn(t, h, s)) = Home(t, h, s)
         /\ \A key \in Keys : key = KeyIn(t, h, s)
                                <=> Quo(t, key) = t.table[s].quo /\ Mod(t, key) = Home(t, h, s)
<1>. DEFINE q == t.table[s].quo
            m == Home(t, h, s)
<1>1. KeyIn(t, h, s) = HashInv[q * t.capa + m]
  BY DEF KeyIn, KeyAt
<1>2. q \in 0 .. QuoSize(t)-1 /\ m \in Slots(t)
  BY TableFacts
<1>. HIDE DEF q, m
<1>3. /\ KeyIn(t, h, s) \in Keys /\ Quo(t, KeyIn(t, h, s)) = q
      /\ Mod(t, KeyIn(t, h, s)) = m
  <2>1. /\ HashInv[q * t.capa + m] \in Keys /\ Quo(t, HashInv[q * t.capa + m]) = q
        /\ Mod(t, HashInv[q * t.capa + m]) = m
    BY <1>2, KeyJoins
  <2>. QED  BY <1>1, <2>1
<1>4. \A key \in Keys : Quo(t, key) = q /\ Mod(t, key) = m => key = KeyIn(t, h, s)
  BY <1>1, KeySplits
<1>. QED  BY <1>3, <1>4 DEF q, m

----------------------------------------------------------------------------
(* Where items are. *)

\* Seen from a free slot, an item and its mod are ahead, in this order.
LEMMA Position ==
  ASSUME NEW t, HasSlots(t), NEW h, Placed(t, h), NEW e \in Slots(t), IsVacant(t, e),
         NEW s \in Slots(t), h[s] >= 0
  PROVE  \E p \in 1 .. t.capa-1 :
           /\ Right(t, e, p) = s
           /\ h[s] \in Nat /\ p + h[s] \in p .. t.capa-1
           /\ Home(t, h, s) = Right(t, e, p + h[s]) /\ Home(t, h, s) \in Slots(t)
           /\ Offset(t, e, Home(t, h, s)) = p + h[s]
<1>. DEFINE p == Offset(t, e, s)
<1>0. t.capa \in Nat /\ t.capa >= 2
  BY DEF HasSlots
<1>1. p \in 0 .. t.capa-1 /\ Right(t, e, p) = s
  BY AtOffset
<1>. HIDE DEF p
<1>2. p # 0
  BY <1>1, AtOffset DEF Placed
<1>3. p \in 1 .. t.capa-1
  BY <1>0, <1>1, <1>2
<1>4. p + h[s] \in p .. t.capa-1 /\ h[s] \in Int
  BY <1>1, <1>3, Reach DEF Placed
<1>5. h[s] \in Nat /\ p \in Nat /\ p + h[s] \in 0 .. t.capa-1 /\ p + h[s] <= t.capa /\ p + h[s] \in 0 .. t.capa
  BY <1>0, <1>3, <1>4
<1>6. Home(t, h, s) = Right(t, e, p + h[s])
  BY <1>1, <1>5, RightRight DEF Home
<1>7. Home(t, h, s) \in Slots(t) /\ Offset(t, e, Home(t, h, s)) = p + h[s]
  BY <1>5, <1>6, AtOffset
<1>. QED  BY <1>1, <1>3, <1>4, <1>5, <1>6, <1>7

\* The slots from an item to its mod are taken.
LEMMA WayHome ==
  ASSUME NEW t, HasSlots(t), Vacant(t) # {}, NEW h, Placed(t, h), NEW s \in Slots(t), h[s] >= 0
  PROVE  /\ h[s] \in 0 .. t.capa-1 /\ Home(t, h, s) \in Slots(t) /\ ~IsVacant(t, Home(t, h, s))
         /\ \A d \in 0 .. h[s] : /\ Right(t, s, d) \in Slots(t) /\ h[Right(t, s, d)] >= 0
                                 /\ ~IsVacant(t, Right(t, s, d))
<1>0. t.capa \in Nat /\ t.capa >= 2
  BY DEF HasSlots
<1>1. PICK e \in Slots(t) : IsVacant(t, e)
  BY DEF Vacant
<1>2. PICK p \in 1 .. t.capa-1 :
        /\ Right(t, e, p) = s
        /\ h[s] \in Nat /\ p + h[s] \in p .. t.capa-1
        /\ Home(t, h, s) = Right(t, e, p + h[s]) /\ Home(t, h, s) \in Slots(t)
  BY <1>1, Position
<1>3. h[s] \in 0 .. t.capa-1
  BY <1>0, <1>2
<1>4. ASSUME NEW d \in 0 .. h[s]
      PROVE  /\ Right(t, s, d) \in Slots(t) /\ h[Right(t, s, d)] >= 0
             /\ ~IsVacant(t, Right(t, s, d))
  <2>1. /\ p \in Nat /\ d \in Nat /\ p + d <= t.capa /\ p + d \in p .. p + h[s]
        /\ d \in 0 .. t.capa
    BY <1>0, <1>2, <1>3
  <2>2. Right(t, s, d) = Right(t, e, p + d)
    BY <1>2, <2>1, RightRight
  <2>3. h[Right(t, e, p)] >= 0 /\ \A q \in p .. p + h[Right(t, e, p)] : h[Right(t, e, q)] >= 0
    BY <1>1, <1>2, Reach
  <2>4. h[Right(t, s, d)] >= 0 /\ Right(t, s, d) \in Slots(t)
    BY <1>2, <2>1, <2>2, <2>3, RightWraps
  <2>. QED  BY <2>4 DEF Placed
<1>5. ~IsVacant(t, Home(t, h, s))
  <2>1. h[s] \in 0 .. h[s]
    BY <1>2
  <2>. QED  BY <1>4, <2>1 DEF Home
<1>. QED  BY <1>2, <1>3, <1>4, <1>5

\* find_item_ finds the item with the key, if there is one.
LEMMA FindsKey ==
  ASSUME NEW t, NEW h, Sound(t, h), NEW key \in Keys, t.table[Mod(t, key)].vbit
  PROVE  /\ ~IsVacant(t, Mod(t, key))
         /\ FindItem(t, FindAssCbit(t, Mod(t, key)).group, Quo(t, key))
              = {s \in Taken(t) : KeyIn(t, h, s) = key}
<1>. DEFINE mod == Mod(t, key)
            quo == Quo(t, key)
            ass == FindAssCbit(t, mod)
            e == ass.empty
<1>0. /\ HasSlots(t) /\ Placed(t, h) /\ Vacant(t) # {} /\ WellFormed(t) /\ Slots(t) = 0 .. t.capa-1
      /\ t.capa \in Nat /\ t.capa >= 2 /\ Taken(t) \subseteq Slots(t)
      /\ \A s \in Slots(t) : s \in Taken(t) <=> ~IsVacant(t, s)
  BY TableFacts DEF Sound, HasSlots
<1>1. mod \in Slots(t)
  BY <1>0, KeySplits
<1>2. ~IsVacant(t, mod)
  <2>1. PICK s \in Slots(t) : h[s] >= 0 /\ Home(t, h, s) = mod
    BY <1>0, <1>1 DEF Placed
  <2>. QED  BY <1>0, <2>1, WayHome
<1>3. PICK n \in 1 .. t.capa-1 : AssIs(t, h, mod, n)
  BY <1>0, <1>1, <1>2, AssFacts
<1>. DEFINE L == Run(t, h, e, n)
<1>4. /\ e \in Slots(t) /\ IsVacant(t, e) /\ Right(t, e, n) = mod
      /\ \A p \in 1 .. n : ~IsVacant(t, Right(t, e, p))
  BY <1>3 DEF AssIs
<1>5. PICK s \in 1 .. n : ass.group = Right(t, e, s) /\ s \in Starts(n, L) /\ L[s] = n
  <2>1. n \in 1 .. n
    BY <1>0
  <2>2. ~(\A v \in 1 .. n : ~t.table[Right(t, e, v)].vbit)
    BY <1>4, <2>1
  <2>3. PICK s \in 1 .. n :
             /\ ass.group = Right(t, e, s) /\ s \in Starts(n, L)
             /\ L[s] \in 1 .. n
             /\ \A v \in 1 .. n : t.table[Right(t, e, v)].vbit => v <= L[s]
    BY <1>3, <2>2 DEF AssIs
  <2>. HIDE DEF L
  <2>4. n <= L[s]
    BY <1>4, <2>1, <2>3
  <2>. QED  BY <1>0, <2>3, <2>4
<1>. HIDE DEF e, ass
<1>6. n \in 0 .. t.capa-1
  BY <1>0
<1>7. t.table[Right(t, e, s)].cbit
  BY <1>0, <1>4, <1>5, <1>6, RunFacts
<1>8. PICK len \in Nat : GroupIs(t, h, e, s, len)
  BY <1>0, <1>4, <1>6, <1>7, GroupFacts
<1>9. s + h[Right(t, e, s)] = n
  BY <1>5 DEF Run
<1>10. /\ len >= 1 /\ s + len - 1 <= n /\ Group(t, Right(t, e, s)) = 0 .. len-1
       /\ \A p \in 1 .. t.capa-1 : h[Right(t, e, p)] >= 0 =>
            (p + h[Right(t, e, p)] = n <=> p \in s .. s+len-1)
  <2>1. \A p \in 1 .. t.capa-1 : h[Right(t, e, p)] >= 0 =>
          /\ p < s => p + h[Right(t, e, p)] < n
          /\ p \in s .. s+len-1 => p + h[Right(t, e, p)] = n
          /\ p > s+len-1 => p + h[Right(t, e, p)] > n
    BY <1>8, <1>9 DEF GroupIs
  <2>2. len >= 1 /\ s + len - 1 <= n /\ Group(t, Right(t, e, s)) = 0 .. len-1
    BY <1>8, <1>9 DEF GroupIs
  <2>3. ASSUME NEW p \in 1 .. t.capa-1, h[Right(t, e, p)] >= 0
        PROVE  p + h[Right(t, e, p)] = n <=> p \in s .. s+len-1
    <3>1. h[Right(t, e, p)] \in Int
      <4>1. p \in 0 .. t.capa-1
        BY <1>0
      <4>. QED  BY <1>0, <1>4, <4>1, Neighbours
    <3>2. p < s \/ p \in s .. s+len-1 \/ p > s+len-1
      BY <1>0
    <3>. QED  BY <1>0, <2>1, <2>3, <3>1, <3>2
  <2>. QED  BY <2>2, <2>3
<1>11. FindItem(t, ass.group, quo) = {Right(t, ass.group, d) : d \in {d \in 0 .. len-1 : t.table[Right(t, ass.group, d)].quo = quo}}
  BY <1>5, <1>10 DEF FindItem
<1>12. ASSUME NEW d \in 0 .. len-1
       PROVE  /\ Right(t, ass.group, d) = Right(t, e, s + d) /\ s + d \in s .. s+len-1
              /\ s + d \in 1 .. n /\ s + d \in 1 .. t.capa-1
  <2>1. s \in Nat /\ d \in Nat /\ s + d <= t.capa /\ s + d \in s .. s+len-1 /\ s + d \in 1 .. n
        /\ s + d \in 1 .. t.capa-1
    BY <1>0, <1>6, <1>10
  <2>2. Right(t, Right(t, e, s), d) = Right(t, e, s + d)
    <3>1. s \in Nat /\ d \in Nat /\ s + d <= t.capa
      BY <2>1
    <3>. QED  BY <1>0, <1>4, <3>1, RightRight, ZenonT(60)
  <2>. QED  BY <1>5, <2>1, <2>2
<1>13. ASSUME NEW d \in 0 .. len-1, t.table[Right(t, ass.group, d)].quo = quo
       PROVE  Right(t, ass.group, d) \in Taken(t) /\ KeyIn(t, h, Right(t, ass.group, d)) = key
  <2>. DEFINE r == Right(t, e, s + d)
  <2>1. r = Right(t, ass.group, d) /\ s + d \in 1 .. n /\ s + d \in s .. s+len-1 /\ s + d \in 1 .. t.capa-1
    BY <1>12
  <2>2. ~IsVacant(t, r)
    BY <1>4, <2>1
  <2>3. r \in Slots(t) /\ h[r] \in Int /\ h[r] >= 0
    <3>1. s + d \in 0 .. t.capa-1
      BY <1>0, <2>1
    <3>2. r \in Slots(t) /\ h[r] \in Int /\ h[r] >= -1 /\ (h[r] = -1 <=> IsVacant(t, r))
      BY <1>0, <1>4, <3>1, Neighbours
    <3>. HIDE DEF r
    <3>. QED  BY <2>2, <3>2
  <2>4. (s + d) + h[r] = n
    BY <1>10, <2>1, <2>3
  <2>5. Home(t, h, r) = mod
    <3>1. s + d \in Nat /\ h[r] \in Nat /\ (s + d) + h[r] <= t.capa
      <4>. HIDE DEF r
      <4>. QED  BY <1>0, <2>1, <2>3, <2>4
    <3>2. Right(t, r, h[r]) = Right(t, e, (s + d) + h[r])
      BY <1>0, <1>4, <3>1, RightRight, ZenonT(60)
    <3>. QED  BY <1>4, <2>4, <3>2 DEF Home
  <2>. HIDE DEF r
  <2>6. KeyIn(t, h, r) = key
    BY <1>0, <1>1, <1>13, <2>1, <2>3, <2>5, ItemKey
  <2>. QED  BY <1>0, <2>1, <2>2, <2>3, <2>6
<1>14. ASSUME NEW r \in Taken(t), KeyIn(t, h, r) = key
       PROVE  \E d \in 0 .. len-1 : r = Right(t, ass.group, d) /\ t.table[Right(t, ass.group, d)].quo = quo
  <2>1. r \in Slots(t) /\ h[r] >= 0
    <3>1. r \in Slots(t) /\ ~IsVacant(t, r)
      BY <1>0
    <3>2. h[r] \in Int /\ h[r] >= -1 /\ (h[r] = -1 <=> IsVacant(t, r))
      BY <1>0, <3>1 DEF Placed
    <3>. QED  BY <3>1, <3>2
  <2>2. PICK p \in 1 .. t.capa-1 :
           /\ Right(t, e, p) = r
           /\ h[r] \in Nat /\ p + h[r] \in p .. t.capa-1
           /\ Home(t, h, r) = Right(t, e, p + h[r]) /\ Home(t, h, r) \in Slots(t)
           /\ Offset(t, e, Home(t, h, r)) = p + h[r]
    <3>1. HasSlots(t) /\ Placed(t, h) /\ e \in Slots(t) /\ IsVacant(t, e)
      BY <1>0, <1>4
    <3>. QED  BY <2>1, <3>1, Position
  <2>3. t.table[r].quo = quo /\ Home(t, h, r) = mod
    BY <1>0, <1>14, <2>1, <2>2, ItemKey
  <2>4. p + h[r] = n
    <3>1. Offset(t, e, Right(t, e, n)) = n
      BY <1>0, <1>4, <1>6, AtOffset
    <3>. QED  BY <1>4, <2>2, <2>3, <3>1
  <2>5. p \in s .. s+len-1
    BY <1>10, <2>1, <2>2, <2>4
  <2>6. p - s \in 0 .. len-1 /\ s + (p - s) = p
    BY <1>0, <2>5
  <2>7. r = Right(t, ass.group, p - s)
    BY <1>12, <2>2, <2>6
  <2>. QED  BY <2>3, <2>6, <2>7
<1>15. FindItem(t, ass.group, quo) = {r \in Taken(t) : KeyIn(t, h, r) = key}
  BY <1>11, <1>13, <1>14
<1>. QED  BY <1>2, <1>15 DEF ass

\* get returns the value of the item with the key.
LEMMA GetFacts ==
  ASSUME NEW t, NEW h, Sound(t, h), NEW key \in Keys
  PROVE  /\ \A s \in Taken(t) : KeyIn(t, h, s) = key => Get(t, key) = t.table[s].val
         /\ key \notin HeldKeys(t, h) => Get(t, key) = Nil
<1>. DEFINE mod == Mod(t, key)
            at == FindItem(t, FindAssCbit(t, mod).group, Quo(t, key))
<1>0. WellFormed(t) /\ Placed(t, h) /\ HasSlots(t) /\ Vacant(t) # {} /\ Taken(t) \subseteq Slots(t)
      /\ \A s \in Slots(t) : s \in Taken(t) <=> ~IsVacant(t, s)
  BY TableFacts DEF Sound
<1>1. Get(t, key) = IF ~t.table[mod].vbit THEN Nil
                    ELSE IF at = {} THEN Nil ELSE t.table[CHOOSE j \in at : TRUE].val
  BY DEF Get
<1>2. mod \in Slots(t)
  BY <1>0, KeySplits
<1>3. ASSUME NEW s \in Taken(t), KeyIn(t, h, s) = key PROVE t.table[mod].vbit
  <2>1. s \in Slots(t) /\ h[s] >= 0
    <3>1. s \in Slots(t) /\ ~IsVacant(t, s)
      BY <1>0
    <3>. QED  BY <3>1 DEF Placed, Sound
  <2>2. Home(t, h, s) \in Slots(t)
    BY <1>0, <2>1, WayHome
  <2>3. Home(t, h, s) = mod
    BY <1>0, <1>3, <2>1, <2>2, ItemKey
  <2>. QED  BY <1>0, <1>2, <2>1, <2>3 DEF Placed
<1>4. t.table[mod].vbit => at = {s \in Taken(t) : KeyIn(t, h, s) = key}
  BY FindsKey
<1>. HIDE DEF at, mod
<1>5. ASSUME NEW s \in Taken(t), KeyIn(t, h, s) = key PROVE Get(t, key) = t.table[s].val
  <2>1. at = {s}
    BY <1>3, <1>4, <1>5 DEF Sound
  <2>. QED  BY <1>1, <1>3, <1>5, <2>1
<1>6. ASSUME key \notin HeldKeys(t, h) PROVE Get(t, key) = Nil
  <2>1. {s \in Taken(t) : KeyIn(t, h, s) = key} = {}
    BY <1>6 DEF HeldKeys
  <2>. QED  BY <1>1, <1>4, <2>1
<1>. QED  BY <1>5, <1>6

\* What a table holds: the keys of its items with their values, as many as
\* size says.
LEMMA ContentsFacts ==
  ASSUME NEW t, NEW h, Sound(t, h)
  PROVE  /\ DOMAIN Contents(t) = HeldKeys(t, h) /\ HeldKeys(t, h) \subseteq Keys
         /\ Contents(t) = [k \in HeldKeys(t, h) |-> Contents(t)[k]]
         /\ \A s \in Taken(t) : Contents(t)[KeyIn(t, h, s)] = t.table[s].val
         /\ IsFiniteSet(HeldKeys(t, h)) /\ Cardinality(HeldKeys(t, h)) = t.size
<1>0. /\ WellFormed(t) /\ Placed(t, h) /\ HasSlots(t) /\ Vacant(t) # {} /\ Taken(t) \subseteq Slots(t)
      /\ IsFiniteSet(Taken(t)) /\ t.size = Cardinality(Taken(t))
      /\ \A s \in Slots(t) : s \in Taken(t) <=> ~IsVacant(t, s)
      /\ \A s \in Taken(t) : t.table[s].val \in 0 .. ValMask-1
  BY TableFacts DEF Sound
<1>1. ASSUME NEW s \in Taken(t) PROVE KeyIn(t, h, s) \in Keys
  <2>1. s \in Slots(t) /\ h[s] >= 0
    <3>1. s \in Slots(t) /\ ~IsVacant(t, s)
      BY <1>0
    <3>. QED  BY <3>1 DEF Placed, Sound
  <2>2. Home(t, h, s) \in Slots(t)
    BY <1>0, <2>1, WayHome
  <2>. QED  BY <1>0, <2>1, <2>2, ItemKey
<1>2. HeldKeys(t, h) \subseteq Keys
  BY <1>1 DEF HeldKeys
<1>3. \A k \in Keys : Get(t, k) # Nil <=> k \in HeldKeys(t, h)
  <2>1. ASSUME NEW k \in HeldKeys(t, h) PROVE Get(t, k) # Nil
    <3>1. PICK s \in Taken(t) : k = KeyIn(t, h, s)
      BY DEF HeldKeys
    <3>2. Get(t, k) = t.table[s].val /\ t.table[s].val \in 0 .. ValMask-1
      BY <1>0, <1>2, <3>1, GetFacts
    <3>. QED  BY <3>2, CompactAssumption DEF Nil
  <2>. QED  BY <2>1, GetFacts
<1>. DEFINE dom == {k \in Keys : [j \in Keys |-> Get(t, j)][k] # Nil}
<1>4. Contents(t) = [k \in dom |-> [j \in Keys |-> Get(t, j)][k]]
  BY DEF Contents
<1>5. dom = HeldKeys(t, h)
  BY <1>2, <1>3
<1>. HIDE DEF dom
<1>6. DOMAIN Contents(t) = HeldKeys(t, h) /\ \A k \in HeldKeys(t, h) : Contents(t)[k] = Get(t, k)
  BY <1>2, <1>4, <1>5
<1>7. Contents(t) = [k \in HeldKeys(t, h) |-> Contents(t)[k]]
  BY <1>4, <1>5, <1>6
<1>8. \A s \in Taken(t) : Contents(t)[KeyIn(t, h, s)] = t.table[s].val
  <2>1. SUFFICES ASSUME NEW s \in Taken(t) PROVE Contents(t)[KeyIn(t, h, s)] = t.table[s].val
    OBVIOUS
  <2>2. KeyIn(t, h, s) \in HeldKeys(t, h) /\ KeyIn(t, h, s) \in Keys
    BY <1>1 DEF HeldKeys
  <2>3. Get(t, KeyIn(t, h, s)) = t.table[s].val
    BY <2>2, GetFacts
  <2>. QED  BY <1>6, <2>2, <2>3
<1>9. IsFiniteSet(HeldKeys(t, h)) /\ Cardinality(HeldKeys(t, h)) = t.size
  <2>. DEFINE f == [s \in Taken(t) |-> KeyIn(t, h, s)]
  <2>1. f \in [Taken(t) -> HeldKeys(t, h)]
    BY DEF HeldKeys
  <2>2. \A r, s \in Taken(t) : f[r] = f[s] => r = s
    BY DEF Sound
  <2>3. \A k \in HeldKeys(t, h) : \E s \in Taken(t) : f[s] = k
    BY DEF HeldKeys
  <2>. HIDE DEF f
  <2>4. f \in Bijection(Taken(t), HeldKeys(t, h))
    BY <2>1, <2>2, <2>3 DEF Bijection, Injection, Surjection, IsInjective
  <2>. QED  BY <1>0, <2>4, FS_Bijection DEF ExistsBijection
<1>. QED  BY <1>2, <1>6, <1>7, <1>8, <1>9

\* A table holds what its items say.
LEMMA ContentsAre ==
  ASSUME NEW t, NEW h, Sound(t, h), NEW f, f = [k \in HeldKeys(t, h) |-> f[k]],
         \A s \in Taken(t) : f[KeyIn(t, h, s)] = t.table[s].val
  PROVE  Contents(t) = f
<1>1. /\ Contents(t) = [k \in HeldKeys(t, h) |-> Contents(t)[k]]
      /\ \A s \in Taken(t) : Contents(t)[KeyIn(t, h, s)] = t.table[s].val
  BY ContentsFacts
<1>2. \A k \in HeldKeys(t, h) : Contents(t)[k] = f[k]
  <2>1. SUFFICES ASSUME NEW s \in Taken(t) PROVE Contents(t)[KeyIn(t, h, s)] = f[KeyIn(t, h, s)]
    BY DEF HeldKeys
  <2>. QED  BY <1>1
<1>. QED  BY <1>1, <1>2

\* In a sound table every cluster has as many groups as mods.
LEMMA SoundMatches ==
  ASSUME NEW t, NEW h, Sound(t, h)
  PROVE  GroupsMatch(t)
<1>0. /\ WellFormed(t) /\ Placed(t, h) /\ HasSlots(t) /\ Vacant(t) # {} /\ Taken(t) \subseteq Slots(t)
      /\ Vacant(t) \subseteq Slots(t) /\ t.size = Cardinality(Taken(t)) /\ t.size < t.capa
      /\ t.capa \in Nat /\ t.capa >= 2
  BY TableFacts DEF Sound, HasSlots
<1>1. t.size = Cardinality(Slots(t) \ Vacant(t)) /\ t.size < t.capa
  BY <1>0 DEF Taken
<1>2. ASSUME NEW j \in Vacant(t) PROVE t.table[j].cbit /\ ~t.table[j].vbit
  <2>1. j \in Slots(t) /\ IsVacant(t, j) /\ h[j] = -1
    BY <1>0 DEF Vacant, Placed
  <2>2. t.table[j].cbit
    <3>1. 1 \in 0 .. t.capa /\ t.capa - 1 \in 0 .. t.capa
      BY <1>0
    <3>2. Left(t, j, 1) \in Slots(t) /\ Right(t, Left(t, j, 1), 1) = j
      BY <1>0, <2>1, <3>1, LeftRight
    <3>. QED  BY <1>0, <2>1, <3>2 DEF Placed
  <2>3. ~t.table[j].vbit
    <3>1. ASSUME NEW s \in Slots(t), h[s] >= 0, Home(t, h, s) = j PROVE FALSE
      BY <1>0, <2>1, <3>1, WayHome
    <3>. QED  BY <1>0, <2>1, <3>1 DEF Placed
  <2>. QED  BY <2>2, <2>3
<1>. DEFINE isTo(j, d) == /\ d \in 1 .. t.capa
                          /\ IsVacant(t, Right(t, j, d))
                          /\ \A f \in 1 .. d-1 : ~IsVacant(t, Right(t, j, f))
            to(j) == CHOOSE d \in 1 .. t.capa :
                       IsVacant(t, Right(t, j, d)) /\ \A e \in 1 .. d-1 : ~IsVacant(t, Right(t, j, e))
            vbits(j, d) == Cardinality({e \in 1 .. d : t.table[Right(t, j, e)].vbit})
            cbits(j, d) == Cardinality({e \in 1 .. d : t.table[Right(t, j, e)].cbit})
<1>3. ASSUME NEW j \in Vacant(t)
      PROVE  /\ vbits(j, to(j) - 1) = cbits(j, to(j) - 1)
             /\ \A d \in 1 .. to(j)-1 : vbits(j, d) <= cbits(j, d)
             /\ to(j) > 1 => t.table[Right(t, j, 1)].cbit
  <2>1. j \in Slots(t) /\ IsVacant(t, j)
    BY <1>0 DEF Vacant
  <2>2. isTo(j, to(j))
    <3>. DEFINE D == {d \in 1 .. t.capa : IsVacant(t, Right(t, j, d))}
    <3>1. t.capa \in D /\ D \subseteq Nat
      BY <1>0, <2>1, AtOffset
    <3>2. PICK d \in D : \A f \in D : d <= f
      <4>. HIDE DEF D
      <4>. QED  BY <3>1, LeastExists
    <3>3. d \in 1 .. t.capa /\ IsVacant(t, Right(t, j, d)) /\ \A f \in 1 .. d-1 : ~IsVacant(t, Right(t, j, f))
      BY <1>0, <3>2
    <3>. HIDE DEF D
    <3>. QED  BY <3>3
  <2>. DEFINE n == to(j) - 1
              L == Run(t, h, j, n)
  <2>3. n \in 0 .. t.capa-1 /\ n \in Nat /\ n + 1 = to(j) /\ to(j) \in 1 .. t.capa
        /\ IsVacant(t, Right(t, j, n + 1)) /\ \A p \in 1 .. n : ~IsVacant(t, Right(t, j, p))
    <3>1. to(j) \in 1 .. t.capa /\ IsVacant(t, Right(t, j, to(j)))
          /\ \A f \in 1 .. to(j)-1 : ~IsVacant(t, Right(t, j, f))
      BY <2>2
    <3>. HIDE DEF to
    <3>2. n \in 0 .. t.capa-1 /\ n \in Nat /\ n + 1 = to(j)
      BY <1>0, <3>1
    <3>. QED  BY <3>1, <3>2
  <2>. HIDE DEF n
  <2>4. /\ Rises(n, L)
        /\ \A p \in 1 .. n : p <= L[p] /\ L[p] <= t.capa-1
        /\ Starts(n, L) = {p \in 1 .. n : t.table[Right(t, j, p)].cbit}
        /\ {v \in Homes(n, L) : v <= n} = {v \in 1 .. n : t.table[Right(t, j, v)].vbit}
    BY <1>0, <2>1, <2>3, RunFacts
  <2>5. \A p \in 1 .. n : L[p] <= n
    <3>1. SUFFICES ASSUME NEW p \in 1 .. n, ~(L[p] <= n) PROVE FALSE
      OBVIOUS
    <3>2. L[p] = p + h[Right(t, j, p)] /\ p <= L[p]
      BY <2>4 DEF Run
    <3>3. p \in 1 .. t.capa-1 /\ p \in 0 .. t.capa-1
      BY <1>0, <2>3
    <3>4. h[Right(t, j, p)] >= 0 /\ h[Right(t, j, p)] \in Int
      <4>1. ~IsVacant(t, Right(t, j, p))
        BY <2>3
      <4>. QED  BY <1>0, <2>1, <3>3, <4>1, Neighbours
    <3>5. \A q \in p .. p + h[Right(t, j, p)] : h[Right(t, j, q)] >= 0
      BY <1>0, <2>1, <3>3, <3>4, Reach
    <3>6. n + 1 \in p .. p + h[Right(t, j, p)] /\ n + 1 \in 0 .. t.capa
      <4>. HIDE DEF L
      <4>. QED  BY <1>0, <2>3, <3>1, <3>2, <3>3, <3>4
    <3>7. h[Right(t, j, n + 1)] = -1
      <4>1. Right(t, j, n + 1) \in Slots(t)
        BY <1>0, <2>1, <3>6, RightWraps
      <4>. QED  BY <1>0, <2>3, <4>1 DEF Placed
    <3>. QED  BY <3>5, <3>6, <3>7
  <2>. HIDE DEF L
  <2>6. \A p \in 1 .. n : L[p] \in Nat
    BY <2>4 DEF Rises
  <2>7. \A d \in 1 .. n : vbits(j, d) <= cbits(j, d)
    <3>1. SUFFICES ASSUME NEW d \in 1 .. n PROVE vbits(j, d) <= cbits(j, d)
      OBVIOUS
    <3>2. d \in Nat
      OBVIOUS
    <3>3. Cardinality({v \in Homes(n, L) : v <= d}) <= Cardinality({q \in Starts(n, L) : q <= d})
      BY <2>3, <2>4, <3>2, CountBelow
    <3>4. {q \in Starts(n, L) : q <= d} = {f \in 1 .. d : t.table[Right(t, j, f)].cbit}
      BY <2>3, <2>4
    <3>5. {v \in Homes(n, L) : v <= d} = {f \in 1 .. d : t.table[Right(t, j, f)].vbit}
      <4>1. \A v \in Homes(n, L) : v \in Nat
        BY <2>6 DEF Homes
      <4>2. \A v \in Homes(n, L) : v <= d => v <= n
        BY <2>3, <4>1
      <4>3. \A v : v \in Homes(n, L) /\ v <= d <=> v \in {x \in Homes(n, L) : x <= n} /\ v <= d
        BY <4>2
      <4>4. \A v : v \in Homes(n, L) /\ v <= d <=> v \in 1 .. n /\ t.table[Right(t, j, v)].vbit /\ v <= d
        BY <2>4, <4>3
      <4>5. \A v : v \in 1 .. n /\ v <= d <=> v \in 1 .. d
        BY <2>3
      <4>. QED  BY <4>4, <4>5
    <3>. QED  BY <3>3, <3>4, <3>5
  <2>8. vbits(j, n) = cbits(j, n)
    <3>1. CASE n = 0
      <4>1. 1 .. n = {}
        BY <3>1
      <4>. QED  BY <4>1
    <3>2. CASE n # 0
      <4>1. n \in 1 .. n
        BY <2>3, <3>2
      <4>2. PICK s \in Starts(n, L) : s <= n /\ L[s] = L[n]
        BY <2>3, <2>4, <4>1, StartExists
      <4>3. {q \in Starts(n, L) : q <= s} = Starts(n, L)
        <5>1. SUFFICES ASSUME NEW q \in Starts(n, L), ~(q <= s) PROVE FALSE
          OBVIOUS
        <5>2. q \in 1 .. n /\ s \in 1 .. n /\ s < q
          BY <2>3, <5>1 DEF Starts
        <5>3. L[s] < L[q] /\ L[q] <= L[n]
          BY <2>3, <2>4, <4>1, <5>2, BeforeStart, RisesFar
        <5>. QED  BY <2>6, <4>1, <4>2, <5>2, <5>3
      <4>4. {v \in Homes(n, L) : v <= L[s]} = {v \in Homes(n, L) : v <= n}
        <5>1. ASSUME NEW v \in Homes(n, L) PROVE v <= L[s] /\ v <= n
          <6>1. PICK p \in 1 .. n : v = L[p]
            BY DEF Homes
          <6>2. L[p] <= L[n]
            BY <2>3, <2>4, <4>1, <6>1, RisesFar
          <6>. QED  BY <2>5, <4>2, <6>1, <6>2
        <5>. QED  BY <5>1
      <4>5. Cardinality({q \in Starts(n, L) : q <= s}) = Cardinality({v \in Homes(n, L) : v <= L[s]})
        BY <2>3, <2>4, <4>2, CountAtStart
      <4>. QED  BY <2>4, <4>3, <4>4, <4>5
    <3>. QED  BY <3>1, <3>2
  <2>9. n >= 1 => t.table[Right(t, j, 1)].cbit
    <3>1. n >= 1 => 1 \in Starts(n, L)
      BY <2>3 DEF Starts
    <3>. QED  BY <2>4, <3>1
  <2>10. to(j) > 1 => n >= 1
    <3>. HIDE DEF to
    <3>. QED  BY <1>0, <2>3
  <2>. HIDE DEF vbits, cbits, to
  <2>. QED  BY <2>3, <2>7, <2>8, <2>9, <2>10 DEF n
<1>. HIDE DEF vbits, cbits, to
<1>4. \A j \in Vacant(t) :
        /\ vbits(j, to(j) - 1) = cbits(j, to(j) - 1)
        /\ \A d \in 1 .. to(j)-1 : vbits(j, d) <= cbits(j, d)
        /\ to(j) > 1 => t.table[Right(t, j, 1)].cbit
  BY <1>3
<1>. QED  BY <1>1, <1>2, <1>4 DEF GroupsMatch, vbits, cbits, to

----------------------------------------------------------------------------
(* set.                                                                    *)

\* The virgin bits by positions, counted from a free slot.
LEMMA VbitsAlong ==
  ASSUME NEW t, HasSlots(t), NEW h, Placed(t, h), NEW e \in Slots(t), IsVacant(t, e),
         NEW q \in 0 .. t.capa-1
  PROVE  t.table[Right(t, e, q)].vbit
           <=> \E p \in 1 .. t.capa-1 : h[Right(t, e, p)] >= 0 /\ p + h[Right(t, e, p)] = q
<1>0. t.capa \in Nat /\ t.capa >= 2 /\ q \in 0 .. t.capa
  BY DEF HasSlots
<1>1. Right(t, e, q) \in Slots(t) /\ Offset(t, e, Right(t, e, q)) = q
  BY <1>0, AtOffset
<1>2. ASSUME t.table[Right(t, e, q)].vbit
      PROVE  \E p \in 1 .. t.capa-1 : h[Right(t, e, p)] >= 0 /\ p + h[Right(t, e, p)] = q
  <2>1. PICK s \in Slots(t) : h[s] >= 0 /\ Home(t, h, s) = Right(t, e, q)
    BY <1>1, <1>2 DEF Placed
  <2>2. PICK p \in 1 .. t.capa-1 :
           /\ Right(t, e, p) = s
           /\ h[s] \in Nat /\ p + h[s] \in p .. t.capa-1
           /\ Home(t, h, s) = Right(t, e, p + h[s]) /\ Home(t, h, s) \in Slots(t)
           /\ Offset(t, e, Home(t, h, s)) = p + h[s]
    BY <2>1, Position
  <2>. QED  BY <1>1, <2>1, <2>2
<1>3. ASSUME NEW p \in 1 .. t.capa-1, h[Right(t, e, p)] >= 0, p + h[Right(t, e, p)] = q
      PROVE  t.table[Right(t, e, q)].vbit
  <2>1. p \in 0 .. t.capa-1 /\ p \in 0 .. t.capa
    BY <1>0
  <2>2. Right(t, e, p) \in Slots(t) /\ h[Right(t, e, p)] \in Int
    BY <2>1, Neighbours
  <2>3. Right(t, Right(t, e, p), h[Right(t, e, p)]) = Right(t, e, q)
    <3>1. p \in Nat /\ h[Right(t, e, p)] \in Nat /\ p + h[Right(t, e, p)] <= t.capa
      BY <1>0, <1>3, <2>2
    <3>. QED  BY <1>3, <3>1, RightRight
  <2>. QED  BY <1>1, <1>3, <2>2, <2>3 DEF Placed, Home
<1>. QED  BY <1>2, <1>3

\* What Placed says can be checked position by position.
LEMMA PlacedAlong ==
  ASSUME NEW t, HasSlots(t), NEW h \in [Slots(t) -> Int], NEW e \in Slots(t),
         \A p \in 0 .. t.capa-1 :
           /\ h[Right(t, e, p)] >= -1
           /\ h[Right(t, e, p)] = -1 <=> IsVacant(t, Right(t, e, p))
           /\ h[Right(t, e, p)] <= h[Right(t, e, p + 1)] + 1
           /\ t.table[Right(t, e, p + 1)].cbit
                <=> h[Right(t, e, p)] <= h[Right(t, e, p + 1)] \/ h[Right(t, e, p + 1)] = -1
           /\ p + h[Right(t, e, p)] <= t.capa-1
           /\ t.table[Right(t, e, p)].vbit
                <=> \E q \in 0 .. t.capa-1 : h[Right(t, e, q)] >= 0 /\ q + h[Right(t, e, q)] = p
  PROVE  Placed(t, h)
<1>0. t.capa \in Nat /\ t.capa >= 2
  BY DEF HasSlots
<1>1. ASSUME NEW s \in Slots(t)
      PROVE  /\ Offset(t, e, s) \in 0 .. t.capa-1 /\ Right(t, e, Offset(t, e, s)) = s
             /\ Right(t, s, 1) = Right(t, e, Offset(t, e, s) + 1)
             /\ h[s] \in Int
  <2>1. Offset(t, e, s) \in 0 .. t.capa-1 /\ Right(t, e, Offset(t, e, s)) = s
    BY AtOffset
  <2>2. Offset(t, e, s) \in Nat /\ 1 \in Nat /\ Offset(t, e, s) + 1 <= t.capa
    BY <1>0, <2>1
  <2>3. Right(t, Right(t, e, Offset(t, e, s)), 1) = Right(t, e, Offset(t, e, s) + 1)
    BY <2>2, RightRight
  <2>. QED  BY <2>1, <2>3
<1>2. ASSUME NEW s \in Slots(t)
      PROVE  /\ h[s] >= -1 /\ (h[s] = -1 <=> IsVacant(t, s))
             /\ h[s] <= h[Right(t, s, 1)] + 1
             /\ t.table[Right(t, s, 1)].cbit <=> h[s] <= h[Right(t, s, 1)] \/ h[Right(t, s, 1)] = -1
  <2>. DEFINE p == Offset(t, e, s)
  <2>1. p \in 0 .. t.capa-1 /\ Right(t, e, p) = s /\ Right(t, s, 1) = Right(t, e, p + 1)
    BY <1>1
  <2>. HIDE DEF p
  <2>2. /\ h[Right(t, e, p)] >= -1 /\ (h[Right(t, e, p)] = -1 <=> IsVacant(t, Right(t, e, p)))
        /\ h[Right(t, e, p)] <= h[Right(t, e, p + 1)] + 1
        /\ t.table[Right(t, e, p + 1)].cbit
             <=> h[Right(t, e, p)] <= h[Right(t, e, p + 1)] \/ h[Right(t, e, p + 1)] = -1
    BY <2>1
  <2>. QED  BY <2>1, <2>2
<1>3. ASSUME NEW s \in Slots(t), h[s] >= 0
      PROVE  /\ Offset(t, e, s) + h[s] \in 0 .. t.capa-1
             /\ Home(t, h, s) = Right(t, e, Offset(t, e, s) + h[s])
  <2>. DEFINE p == Offset(t, e, s)
  <2>1. p \in 0 .. t.capa-1 /\ Right(t, e, p) = s /\ h[s] \in Nat
    BY <1>1, <1>3
  <2>. HIDE DEF p
  <2>2. p + h[s] <= t.capa-1
    BY <2>1
  <2>3. p \in Nat /\ p + h[s] <= t.capa /\ p + h[s] \in 0 .. t.capa-1
    BY <1>0, <2>1, <2>2
  <2>4. Right(t, Right(t, e, p), h[s]) = Right(t, e, p + h[s])
    BY <2>1, <2>3, RightRight
  <2>. QED  BY <2>1, <2>3, <2>4 DEF Home, p
<1>4. ASSUME NEW m \in Slots(t)
      PROVE  t.table[m].vbit <=> \E s \in Slots(t) : h[s] >= 0 /\ Home(t, h, s) = m
  <2>. DEFINE p == Offset(t, e, m)
  <2>1. p \in 0 .. t.capa-1 /\ Right(t, e, p) = m
    BY <1>1
  <2>2. ASSUME NEW q \in 0 .. t.capa-1, h[Right(t, e, q)] >= 0, q + h[Right(t, e, q)] = p
        PROVE  Right(t, e, q) \in Slots(t) /\ Home(t, h, Right(t, e, q)) = m
    <3>1. q \in 0 .. t.capa /\ Right(t, e, q) \in Slots(t) /\ Offset(t, e, Right(t, e, q)) = q
      BY <1>0, AtOffset
    <3>. HIDE DEF p
    <3>2. Home(t, h, Right(t, e, q)) = Right(t, e, q + h[Right(t, e, q)])
      BY <1>3, <2>2, <3>1
    <3>. QED  BY <2>1, <2>2, <3>1, <3>2
  <2>3. ASSUME NEW s \in Slots(t), h[s] >= 0, Home(t, h, s) = m
        PROVE  \E q \in 0 .. t.capa-1 : h[Right(t, e, q)] >= 0 /\ q + h[Right(t, e, q)] = p
    <3>1. /\ Offset(t, e, s) \in 0 .. t.capa-1 /\ Right(t, e, Offset(t, e, s)) = s
          /\ Offset(t, e, s) + h[s] \in 0 .. t.capa-1
          /\ Home(t, h, s) = Right(t, e, Offset(t, e, s) + h[s])
      BY <1>1, <1>3, <2>3
    <3>2. Offset(t, e, Right(t, e, Offset(t, e, s) + h[s])) = Offset(t, e, s) + h[s]
      BY <3>1, AtOffset
    <3>. QED  BY <2>3, <3>1, <3>2
  <2>. HIDE DEF p
  <2>4. t.table[Right(t, e, p)].vbit
          <=> \E q \in 0 .. t.capa-1 : h[Right(t, e, q)] >= 0 /\ q + h[Right(t, e, q)] = p
    BY <2>1
  <2>. QED  BY <2>1, <2>2, <2>3, <2>4
<1>. QED  BY <1>2, <1>4 DEF Placed

\* Where an item of mod n goes, in positions counted from the free slot e: to
\* position a, behind the items of the mods up to n, which move up to e.
Gate(t, h, e, a, n) ==
  /\ e \in Slots(t) /\ IsVacant(t, e)
  /\ n \in 0 .. t.capa-2 /\ a \in 0 .. n
  /\ \A p \in 1 .. n : ~IsVacant(t, Right(t, e, p))
  /\ \A p \in 1 .. t.capa-1 :
       h[Right(t, e, p)] >= 0 => (p <= a <=> p + h[Right(t, e, p)] <= n)

\* What then is at position p.
ItemAt(t, e, a, p, item) ==
  IF p < a THEN t.table[Right(t, e, p + 1)] ELSE IF p = a THEN item ELSE t.table[Right(t, e, p)]

\* The slots of t with the item.
Laid(t, e, a, n, item, tab) ==
  /\ tab = [s \in Slots(t) |-> tab[s]]
  /\ \A p \in 0 .. t.capa-1 :
       tab[Right(t, e, p)] = [quo |-> ItemAt(t, e, a, p, item).quo,
                              val |-> ItemAt(t, e, a, p, item).val,
                              vbit |-> IF p = n THEN TRUE ELSE t.table[Right(t, e, p)].vbit,
                              cbit |-> ItemAt(t, e, a, p, item).cbit]

\* The table u is t with the item.
Inserted(t, h, u, e, a, n, item) ==
  /\ Gate(t, h, e, a, n)
  /\ DOMAIN u = {"table", "size", "capa"} /\ u.capa = t.capa /\ u.size = t.size + 1
  /\ Laid(t, e, a, n, item, u.table)
  /\ item.cbit <=> a = 0 \/ a + h[Right(t, e, a)] < n
  /\ item.val \in 0 .. ValMask-1

\* How far from their mods the items are then.
Moved(t, h, e, a, n) ==
  [s \in Slots(t) |->
     IF Offset(t, e, s) < a THEN h[Right(t, e, Offset(t, e, s) + 1)] + 1
     ELSE IF Offset(t, e, s) = a THEN n - a ELSE h[s]]

\* The distances by positions.
LEMMA MovedFacts ==
  ASSUME NEW t, HasSlots(t), NEW h, Placed(t, h), NEW e, NEW a, NEW n, Gate(t, h, e, a, n)
  PROVE  /\ Moved(t, h, e, a, n) \in [Slots(t) -> Int]
         /\ \A p \in 0 .. t.capa-1 :
              Moved(t, h, e, a, n)[Right(t, e, p)]
                = IF p < a THEN h[Right(t, e, p + 1)] + 1 ELSE IF p = a THEN n - a ELSE h[Right(t, e, p)]
<1>0. /\ t.capa \in Nat /\ t.capa >= 2 /\ e \in Slots(t) /\ n \in 0 .. t.capa-2 /\ a \in 0 .. n
      /\ h \in [Slots(t) -> Int]
  BY DEF HasSlots, Gate, Placed
<1>1. ASSUME NEW s \in Slots(t)
      PROVE  Moved(t, h, e, a, n)[s] \in Int
  <2>1. Offset(t, e, s) \in 0 .. t.capa-1
    BY <1>0, AtOffset
  <2>2. Offset(t, e, s) + 1 \in 0 .. t.capa
    BY <1>0, <2>1
  <2>3. Right(t, e, Offset(t, e, s) + 1) \in Slots(t)
    BY <1>0, <2>2, RightWraps
  <2>4. h[s] \in Int /\ h[Right(t, e, Offset(t, e, s) + 1)] \in Int
    BY <1>0, <2>3
  <2>5. n - a \in Int
    BY <1>0
  <2>. QED  BY <2>4, <2>5 DEF Moved
<1>2. ASSUME NEW p \in 0 .. t.capa-1
      PROVE  Moved(t, h, e, a, n)[Right(t, e, p)]
               = IF p < a THEN h[Right(t, e, p + 1)] + 1 ELSE IF p = a THEN n - a ELSE h[Right(t, e, p)]
  <2>1. p \in 0 .. t.capa
    BY <1>0
  <2>2. Right(t, e, p) \in Slots(t) /\ Offset(t, e, Right(t, e, p)) = p
    BY <1>0, <2>1, AtOffset
  <2>. QED  BY <2>2 DEF Moved
<1>3. Moved(t, h, e, a, n) = [s \in Slots(t) |-> Moved(t, h, e, a, n)[s]]
  BY DEF Moved
<1>. QED  BY <1>1, <1>2, <1>3

\* What lies along the line.
LEMMA GateFacts ==
  ASSUME NEW t, HasSlots(t), NEW h, Placed(t, h), NEW e, NEW a, NEW n, Gate(t, h, e, a, n),
         NEW p \in 1 .. t.capa-1
  PROVE  /\ h[Right(t, e, p)] \in Int /\ h[Right(t, e, p)] >= -1
         /\ h[Right(t, e, p)] = -1 <=> IsVacant(t, Right(t, e, p))
         /\ p <= n => h[Right(t, e, p)] >= 0
         /\ p <= a => p + h[Right(t, e, p)] <= n
         /\ p > a => h[Right(t, e, p)] = -1 \/ p + h[Right(t, e, p)] > n
         /\ p + h[Right(t, e, p)] <= t.capa-1
<1>0. /\ t.capa \in Nat /\ t.capa >= 2 /\ e \in Slots(t) /\ n \in 0 .. t.capa-2 /\ a \in 0 .. n
      /\ IsVacant(t, e)
  BY DEF HasSlots, Gate
<1>1. p \in 0 .. t.capa-1
  BY <1>0
<1>2. /\ h[Right(t, e, p)] \in Int /\ h[Right(t, e, p)] >= -1
      /\ h[Right(t, e, p)] = -1 <=> IsVacant(t, Right(t, e, p))
  BY <1>0, <1>1, Neighbours
<1>3. p <= n => h[Right(t, e, p)] >= 0
  <2>1. p <= n => ~IsVacant(t, Right(t, e, p))
    BY <1>0 DEF Gate
  <2>. QED  BY <1>2, <2>1
<1>4. h[Right(t, e, p)] >= 0 => (p <= a <=> p + h[Right(t, e, p)] <= n)
  BY DEF Gate
<1>5. h[Right(t, e, p)] >= 0 => p + h[Right(t, e, p)] <= t.capa-1
  <2>1. h[Right(t, e, p)] >= 0 => p + h[Right(t, e, p)] \in p .. t.capa-1
    BY <1>0, Reach
  <2>. QED  BY <1>0, <1>2, <2>1
<1>. QED  BY <1>0, <1>2, <1>3, <1>4, <1>5

\* Right and Slots depend on the capacity only.
LEMMA SameCapa ==
  ASSUME NEW t, NEW u, u.capa = t.capa
  PROVE  /\ Slots(u) = Slots(t)
         /\ \A x, d : Right(u, x, d) = Right(t, x, d) /\ Left(u, x, d) = Left(t, x, d)
         /\ \A x, y : Offset(u, x, y) = Offset(t, x, y)
         /\ HasSlots(t) <=> HasSlots(u)
BY DEF Slots, Right, Left, Offset, HasSlots

\* The two bits say where everything is after the item has gone in.
LEMMA InsertPlaced ==
  ASSUME NEW t, HasSlots(t), NEW h, Placed(t, h), NEW u, NEW e, NEW a, NEW n, NEW item,
         Inserted(t, h, u, e, a, n, item)
  PROVE  Placed(u, Moved(t, h, e, a, n))
<1>. DEFINE c == t.capa
            g == Moved(t, h, e, a, n)
            R(p) == Right(t, e, p)
            H(p) == h[R(p)]
            G(p) == g[R(p)]
            T(p) == ItemAt(t, e, a, p, item)
<1>0. /\ c \in Nat /\ c >= 2 /\ e \in Slots(t) /\ n \in 0 .. c-2 /\ a \in 0 .. n
      /\ IsVacant(t, e) /\ Gate(t, h, e, a, n) /\ u.capa = c /\ n \in Int /\ a \in Int
      /\ item.val \in 0 .. ValMask-1 /\ ValMask \in Nat
  BY CompactAssumption DEF HasSlots, Gate, Inserted
<1>1. /\ Slots(u) = Slots(t) /\ HasSlots(u)
      /\ \A x, d : Right(u, x, d) = Right(t, x, d)
  BY <1>0, SameCapa
<1>2. g \in [Slots(u) -> Int]
  BY <1>0, <1>1, MovedFacts
<1>3. \A p \in 0 .. c : R(p) \in Slots(t)
  BY <1>0, AtOffset
<1>4. R(0) = e /\ R(c) = e /\ H(0) = -1 /\ H(c) = -1 /\ G(c) = G(0)
  <2>1. R(0) = e /\ R(c) = e
    BY <1>0, AtOffset
  <2>. QED  BY <1>0, <2>1 DEF Placed
<1>5. \A p \in 0 .. c-1 : G(p) = IF p < a THEN H(p + 1) + 1 ELSE IF p = a THEN n - a ELSE H(p)
  BY <1>0, MovedFacts
<1>6. \A p \in 1 .. c-1 :
        /\ H(p) \in Int /\ H(p) >= -1
        /\ H(p) = -1 <=> IsVacant(t, R(p))
        /\ p <= n => H(p) >= 0
        /\ p <= a => p + H(p) <= n
        /\ p > a => H(p) = -1 \/ p + H(p) > n
        /\ p + H(p) <= c-1
  BY <1>0, GateFacts
<1>7. \A p \in 0 .. c-1 :
        /\ H(p) <= H(p + 1) + 1
        /\ t.table[R(p + 1)].cbit <=> H(p) <= H(p + 1) \/ H(p + 1) = -1
  BY <1>0, Neighbours
<1>8. \A p \in 0 .. c-1 :
        /\ u.table[R(p)].val = T(p).val /\ u.table[R(p)].cbit = T(p).cbit
        /\ u.table[R(p)].vbit <=> t.table[R(p)].vbit \/ p = n
  <2>1. SUFFICES ASSUME NEW p \in 0 .. c-1
                 PROVE  /\ u.table[R(p)].val = T(p).val /\ u.table[R(p)].cbit = T(p).cbit
                        /\ u.table[R(p)].vbit <=> t.table[R(p)].vbit \/ p = n
    OBVIOUS
  <2>2. u.table[R(p)] = [quo |-> T(p).quo, val |-> T(p).val,
                         vbit |-> IF p = n THEN TRUE ELSE t.table[R(p)].vbit, cbit |-> T(p).cbit]
    BY DEF Inserted, Laid
  <2>. DEFINE v == IF p = n THEN TRUE ELSE t.table[R(p)].vbit
  <2>3. u.table[R(p)] = [quo |-> T(p).quo, val |-> T(p).val, vbit |-> v, cbit |-> T(p).cbit]
    BY <2>2
  <2>. HIDE DEF R, T, v
  <2>4. u.table[R(p)].val = T(p).val /\ u.table[R(p)].cbit = T(p).cbit /\ u.table[R(p)].vbit = v
    BY <2>3
  <2>. QED  BY <2>4 DEF v
<1>9. item.cbit <=> a = 0 \/ a + H(a) < n
  BY DEF Inserted
<1>10. \A p \in 0 .. c-1 : T(p) = IF p < a THEN t.table[R(p + 1)] ELSE IF p = a THEN item ELSE t.table[R(p)]
  BY DEF ItemAt
<1>11. \A p \in 0 .. c-1 :
         t.table[R(p)].vbit <=> \E q \in 1 .. c-1 : H(q) >= 0 /\ q + H(q) = p
  BY <1>0, VbitsAlong
<1>. HIDE DEF c, R, H, G, T, g
<1>12. ASSUME NEW p \in 0 .. c-1
       PROVE  /\ G(p) \in Int /\ G(p) >= -1 /\ (p <= a => G(p) >= 0)
              /\ p + G(p) <= c-1
  <2>1. CASE p < a
    <3>1. p + 1 \in 1 .. c-1 /\ p + 1 <= a /\ p + 1 <= n
      BY <1>0, <2>1
    <3>. QED  BY <1>0, <1>5, <1>6, <2>1, <3>1
  <2>2. CASE p = a
    BY <1>0, <1>5, <2>2
  <2>3. CASE p > a
    <3>1. p \in 1 .. c-1
      BY <1>0, <2>3
    <3>. QED  BY <1>0, <1>5, <1>6, <2>3, <3>1
  <2>. QED  BY <1>0, <2>1, <2>2, <2>3
<1>13. ASSUME NEW p \in 0 .. c-1 PROVE G(p) = -1 <=> IsVacant(u, R(p))
  <2>0. IsVacant(u, R(p)) <=> T(p).val = ValMask
    BY <1>8 DEF IsVacant
  <2>1. CASE p < a
    <3>1. p + 1 \in 1 .. c-1 /\ p + 1 <= n
      BY <1>0, <2>1
    <3>2. H(p + 1) >= 0 /\ H(p + 1) \in Int /\ ~IsVacant(t, R(p + 1))
      BY <1>6, <3>1
    <3>3. T(p).val # ValMask
      BY <1>10, <2>1, <3>2 DEF IsVacant
    <3>. QED  BY <1>5, <2>0, <2>1, <3>2, <3>3
  <2>2. CASE p = a
    <3>1. T(p).val # ValMask
      BY <1>0, <1>10, <2>2
    <3>. QED  BY <1>0, <1>5, <2>0, <2>2, <3>1
  <2>3. CASE p > a
    <3>1. p \in 1 .. c-1 /\ ~(p < a) /\ p # a
      BY <1>0, <2>3
    <3>2. T(p).val = ValMask <=> IsVacant(t, R(p))
      BY <1>10, <3>1 DEF IsVacant
    <3>. QED  BY <1>5, <1>6, <2>0, <3>1, <3>2
  <2>. QED  BY <1>0, <2>1, <2>2, <2>3
<1>14. ASSUME NEW p \in 0 .. c-1
       PROVE  /\ G(p) <= G(p + 1) + 1
              /\ u.table[R(p + 1)].cbit <=> G(p) <= G(p + 1) \/ G(p + 1) = -1
  <2>1. CASE p + 1 < a
    <3>1. p + 1 \in 0 .. c-1 /\ p + 2 \in 1 .. c-1 /\ p + 1 \in 1 .. c-1 /\ p < a /\ p + 2 <= n /\ p + 2 = (p + 1) + 1
      BY <1>0, <2>1
    <3>2. G(p) = H(p + 1) + 1 /\ G(p + 1) = H(p + 2) + 1
      BY <1>5, <2>1, <3>1
    <3>3. H(p + 1) \in Int /\ H(p + 2) \in Int /\ H(p + 2) >= 0
      BY <1>6, <3>1
    <3>4. u.table[R(p + 1)].cbit = t.table[R(p + 2)].cbit
      BY <1>8, <1>10, <2>1, <3>1
    <3>5. H(p + 1) <= H(p + 2) + 1 /\ (t.table[R(p + 2)].cbit <=> H(p + 1) <= H(p + 2) \/ H(p + 2) = -1)
      BY <1>7, <3>1
    <3>. QED  BY <3>2, <3>3, <3>4, <3>5
  <2>2. CASE p + 1 = a
    <3>1. p + 1 \in 0 .. c-1 /\ p + 1 \in 1 .. c-1 /\ p < a /\ a # 0
      BY <1>0, <2>2
    <3>2. G(p) = H(a) + 1 /\ G(p + 1) = n - a
      BY <1>5, <2>2, <3>1
    <3>3. H(a) \in Int /\ a + H(a) <= n
      BY <1>0, <1>6, <2>2, <3>1
    <3>4. u.table[R(p + 1)].cbit = item.cbit
      BY <1>8, <1>10, <2>2, <3>1
    <3>. QED  BY <1>0, <1>9, <3>1, <3>2, <3>3, <3>4
  <2>3. CASE p = a
    <3>1. p + 1 \in 0 .. c-1 /\ p + 1 \in 1 .. c-1 /\ ~(p + 1 < a) /\ p + 1 # a /\ p + 1 > a
      BY <1>0, <2>3
    <3>2. G(p) = n - a /\ G(p + 1) = H(p + 1)
      BY <1>5, <2>3, <3>1
    <3>3. H(p + 1) \in Int /\ (H(p + 1) = -1 \/ (p + 1) + H(p + 1) > n) /\ (p + 1 <= n => H(p + 1) >= 0)
      BY <1>6, <3>1
    <3>4. u.table[R(p + 1)].cbit = t.table[R(p + 1)].cbit
      BY <1>8, <1>10, <3>1
    <3>5. t.table[R(p + 1)].cbit <=> H(p) <= H(p + 1) \/ H(p + 1) = -1
      BY <1>7
    <3>6. H(p) <= H(p + 1) \/ H(p + 1) = -1
      <4>1. CASE a = 0
        BY <1>4, <1>6, <2>3, <3>1, <4>1
      <4>2. CASE a # 0
        <5>1. p \in 1 .. c-1 /\ p <= a
          BY <1>0, <2>3, <4>2
        <5>2. H(p) \in Int /\ p + H(p) <= n
          BY <1>6, <5>1
        <5>. QED  BY <1>0, <2>3, <3>3, <5>2
      <4>. QED  BY <4>1, <4>2
    <3>. QED  BY <1>0, <2>3, <3>2, <3>3, <3>4, <3>5, <3>6
  <2>4. CASE p > a /\ p + 1 < c
    <3>1. p + 1 \in 0 .. c-1 /\ ~(p + 1 < a) /\ p + 1 # a /\ ~(p < a) /\ p # a
      BY <1>0, <2>4
    <3>2. G(p) = H(p) /\ G(p + 1) = H(p + 1)
      BY <1>5, <3>1
    <3>3. u.table[R(p + 1)].cbit = t.table[R(p + 1)].cbit
      BY <1>8, <1>10, <3>1
    <3>. QED  BY <1>7, <3>2, <3>3
  <2>5. CASE p > a /\ p + 1 = c
    <3>1. ~(p < a) /\ p # a /\ p \in 1 .. c-1 /\ 0 \in 0 .. c-1
      BY <1>0, <2>5
    <3>2. G(p) = H(p) /\ H(p) \in Int /\ H(p) <= 0
      <4>1. H(p) <= H(c) + 1
        BY <1>7, <2>5
      <4>. QED  BY <1>4, <1>5, <1>6, <3>1, <4>1
    <3>3. G(c) >= 0 /\ G(c) \in Int
      <4>1. 0 <= a
        BY <1>0
      <4>. QED  BY <1>4, <1>12, <3>1, <4>1
    <3>4. u.table[R(c)].cbit
      <4>1. R(c) = R(0)
        BY <1>4
      <4>2. u.table[R(0)].cbit = T(0).cbit
        BY <1>8, <3>1
      <4>3. CASE a = 0
        <5>1. T(0) = item
          BY <1>10, <3>1, <4>3
        <5>. QED  BY <1>9, <4>1, <4>2, <4>3, <5>1
      <4>4. CASE a # 0
        <5>1. T(0) = t.table[R(0 + 1)] /\ 0 + 1 \in 1 .. c-1
          BY <1>0, <1>10, <3>1, <4>4
        <5>2. H(0 + 1) \in Int /\ H(0 + 1) >= -1
          BY <1>6, <5>1
        <5>3. t.table[R(0 + 1)].cbit
          BY <1>4, <1>7, <3>1, <5>2
        <5>. QED  BY <4>1, <4>2, <5>1, <5>3
      <4>. QED  BY <4>3, <4>4
    <3>. QED  BY <2>5, <3>2, <3>3, <3>4
  <2>. QED  BY <1>0, <2>1, <2>2, <2>3, <2>4, <2>5
<1>15. ASSUME NEW p \in 0 .. c-1
       PROVE  u.table[R(p)].vbit <=> \E q \in 0 .. c-1 : G(q) >= 0 /\ q + G(q) = p
  <2>1. ASSUME NEW q \in 1 .. c-1, H(q) >= 0, q + H(q) = p
        PROVE  \E r \in 0 .. c-1 : G(r) >= 0 /\ r + G(r) = p
    <3>1. CASE q <= a
      <4>1. q - 1 \in 0 .. c-1 /\ q - 1 < a /\ (q - 1) + 1 = q
        BY <1>0, <3>1
      <4>2. G(q - 1) = H(q) + 1 /\ H(q) \in Int
        BY <1>5, <1>6, <4>1
      <4>3. G(q - 1) >= 0 /\ (q - 1) + G(q - 1) = p
        BY <2>1, <4>2
      <4>. QED  BY <4>1, <4>3
    <3>2. CASE q > a
      <4>1. q \in 0 .. c-1 /\ ~(q < a) /\ q # a
        BY <1>0, <3>2
      <4>2. G(q) = H(q)
        BY <1>5, <4>1
      <4>. QED  BY <2>1, <4>1, <4>2
    <3>. QED  BY <1>0, <3>1, <3>2
  <2>2. a \in 0 .. c-1 /\ G(a) >= 0 /\ a + G(a) = n
    BY <1>0, <1>5
  <2>3. ASSUME NEW q \in 0 .. c-1, G(q) >= 0, q + G(q) = p, p # n
        PROVE  \E r \in 1 .. c-1 : H(r) >= 0 /\ r + H(r) = p
    <3>1. CASE q < a
      <4>1. q + 1 \in 1 .. c-1 /\ q + 1 <= n
        BY <1>0, <3>1
      <4>2. G(q) = H(q + 1) + 1 /\ H(q + 1) \in Int /\ H(q + 1) >= 0
        BY <1>5, <1>6, <3>1, <4>1
      <4>3. (q + 1) + H(q + 1) = p
        BY <2>3, <4>2
      <4>. QED  BY <4>1, <4>2, <4>3
    <3>2. CASE q = a
      BY <2>2, <2>3, <3>2
    <3>3. CASE q > a
      <4>1. q \in 1 .. c-1 /\ ~(q < a) /\ q # a
        BY <1>0, <3>3
      <4>2. G(q) = H(q)
        BY <1>5, <4>1
      <4>. QED  BY <2>3, <4>1, <4>2
    <3>. QED  BY <1>0, <3>1, <3>2, <3>3
  <2>. QED  BY <1>8, <1>11, <2>1, <2>2, <2>3
<1>16. \A p \in 0 .. c-1 :
         /\ g[R(p)] >= -1
         /\ g[R(p)] = -1 <=> IsVacant(u, R(p))
         /\ g[R(p)] <= g[R(p + 1)] + 1
         /\ u.table[R(p + 1)].cbit <=> g[R(p)] <= g[R(p + 1)] \/ g[R(p + 1)] = -1
         /\ p + g[R(p)] <= c-1
         /\ u.table[R(p)].vbit <=> \E q \in 0 .. c-1 : g[R(q)] >= 0 /\ q + g[R(q)] = p
  BY <1>12, <1>13, <1>14, <1>15 DEF G
<1>17. \A p \in 0 .. u.capa-1 :
         /\ g[Right(u, e, p)] >= -1
         /\ g[Right(u, e, p)] = -1 <=> IsVacant(u, Right(u, e, p))
         /\ g[Right(u, e, p)] <= g[Right(u, e, p + 1)] + 1
         /\ u.table[Right(u, e, p + 1)].cbit
              <=> g[Right(u, e, p)] <= g[Right(u, e, p + 1)] \/ g[Right(u, e, p + 1)] = -1
         /\ p + g[Right(u, e, p)] <= u.capa-1
         /\ u.table[Right(u, e, p)].vbit
              <=> \E q \in 0 .. u.capa-1 : g[Right(u, e, q)] >= 0 /\ q + g[Right(u, e, q)] = p
  BY <1>0, <1>1, <1>16 DEF R
<1>18. Placed(u, g)
  BY <1>0, <1>1, <1>2, <1>17, PlacedAlong
<1>. QED  BY <1>18 DEF g

\* What the history variable does.
Updated(f, k, v) == [x \in DOMAIN f \cup {k} |-> IF x = k THEN v ELSE f[x]]

\* A new item is found, and every other one still is.
LEMMA InsertSound ==
  ASSUME NEW t, NEW h, Sound(t, h), ~Full(t), NEW u, NEW e, NEW a, NEW n, NEW item,
         Inserted(t, h, u, e, a, n, item), item.cbit \in BOOLEAN,
         NEW key \in Keys, key \notin HeldKeys(t, h),
         item.quo = Quo(t, key), Right(t, e, n) = Mod(t, key)
  PROVE  /\ Sound(u, Moved(t, h, e, a, n))
         /\ Contents(u) = Updated(Contents(t), key, item.val)
<1>. DEFINE c == t.capa
            g == Moved(t, h, e, a, n)
            R(p) == Right(t, e, p)
            P(s) == Offset(t, e, s)
            To(s) == IF P(s) <= a THEN R(P(s) - 1) ELSE s
<1>0. /\ c \in Nat /\ c >= 2 /\ e \in Slots(t) /\ n \in 0 .. c-2 /\ a \in 0 .. n
      /\ IsVacant(t, e) /\ Gate(t, h, e, a, n) /\ u.capa = c /\ n \in Int /\ a \in Int
      /\ item.val \in 0 .. ValMask-1 /\ ValMask \in Nat \ {0}
      /\ HasSlots(t) /\ Placed(t, h) /\ WellFormed(t) /\ Slots(t) = 0 .. c-1
      /\ Taken(t) \subseteq Slots(t) /\ \A s \in Slots(t) : s \in Taken(t) <=> ~IsVacant(t, s)
      /\ t.size = Cardinality(Taken(t)) /\ IsFiniteSet(Taken(t)) /\ t.size \in Nat
  <2>1. HasSlots(t) /\ Placed(t, h) /\ WellFormed(t)
    BY TableFacts DEF Sound
  <2>2. /\ e \in Slots(t) /\ n \in 0 .. c-2 /\ a \in 0 .. n /\ IsVacant(t, e) /\ Gate(t, h, e, a, n)
        /\ u.capa = c /\ item.val \in 0 .. ValMask-1
    BY DEF Gate, Inserted
  <2>3. /\ Slots(t) = 0 .. c-1 /\ Taken(t) \subseteq Slots(t)
        /\ \A s \in Slots(t) : s \in Taken(t) <=> ~IsVacant(t, s)
        /\ t.size = Cardinality(Taken(t)) /\ IsFiniteSet(Taken(t)) /\ t.size \in Nat
    BY <2>1, TableFacts
  <2>4. c \in Nat /\ c >= 2
    BY <2>1 DEF HasSlots
  <2>5. n \in Int /\ a \in Int /\ ValMask \in Nat \ {0}
    BY <2>2, <2>4, CompactAssumption
  <2>. QED  BY <2>1, <2>2, <2>3, <2>4, <2>5
<1>1. HasSlots(t) /\ e \in Slots(t)
  BY <1>0
<1>2. /\ Slots(u) = Slots(t) /\ HasSlots(u)
      /\ \A x, d : Right(u, x, d) = Right(t, x, d)
  BY <1>0, SameCapa
<1>3. Placed(u, g)
  BY <1>0, InsertPlaced
<1>4. \A s \in Slots(t) : P(s) \in 0 .. c-1 /\ R(P(s)) = s
  BY <1>1, AtOffset
<1>5. /\ \A p \in 0 .. c-1 : P(R(p)) = p
      /\ \A p \in 0 .. c : R(p) \in Slots(t)
      /\ R(0) = e
  BY <1>0, AtOffset
<1>6. \A p \in 0 .. c-1 : g[R(p)] = IF p < a THEN h[R(p + 1)] + 1 ELSE IF p = a THEN n - a ELSE h[R(p)]
  BY <1>0, MovedFacts, SMTT(30)
<1>7. \A p \in 1 .. c-1 :
        /\ h[R(p)] \in Int /\ h[R(p)] >= -1
        /\ h[R(p)] = -1 <=> IsVacant(t, R(p))
        /\ p <= n => h[R(p)] >= 0
        /\ p + h[R(p)] <= c-1
  BY <1>0, GateFacts
<1>. DEFINE T(p) == ItemAt(t, e, a, p, item)
<1>8. \A p \in 0 .. c-1 : T(p) = IF p < a THEN t.table[R(p + 1)] ELSE IF p = a THEN item ELSE t.table[R(p)]
  BY DEF ItemAt
<1>9. ASSUME NEW p \in 0 .. c-1
      PROVE  u.table[R(p)] = [quo |-> T(p).quo, val |-> T(p).val,
                              vbit |-> IF p = n THEN TRUE ELSE t.table[R(p)].vbit, cbit |-> T(p).cbit]
  BY DEF Inserted, Laid
<1>10. \A p \in 0 .. c-1 : u.table[R(p)].quo = T(p).quo /\ u.table[R(p)].val = T(p).val
  <2>1. SUFFICES ASSUME NEW p \in 0 .. c-1
                 PROVE u.table[R(p)].quo = T(p).quo /\ u.table[R(p)].val = T(p).val
    OBVIOUS
  <2>. DEFINE v == IF p = n THEN TRUE ELSE t.table[R(p)].vbit
  <2>2. u.table[R(p)] = [quo |-> T(p).quo, val |-> T(p).val, vbit |-> v, cbit |-> T(p).cbit]
    BY <1>9
  <2>. HIDE DEF R, T, v
  <2>. QED  BY <2>2
<1>11. \A s \in Slots(u) : s \in Taken(u) <=> g[s] >= 0
  <2>1. \A s \in Slots(u) : s \in Taken(u) <=> ~IsVacant(u, s)
    BY DEF Taken, Vacant
  <2>. HIDE DEF g
  <2>2. \A s \in Slots(u) : g[s] \in Int /\ g[s] >= -1 /\ (g[s] = -1 <=> IsVacant(u, s))
    BY <1>3 DEF Placed
  <2>. QED  BY <2>1, <2>2
<1>12. \A s \in Slots(t) : s \in Taken(t) <=> h[s] >= 0
  <2>1. \A s \in Slots(t) : h[s] \in Int /\ h[s] >= -1 /\ (h[s] = -1 <=> IsVacant(t, s))
    BY <1>0 DEF Placed
  <2>. QED  BY <1>0, <2>1
<1>. HIDE DEF c, g, R, P, T
<1>13. Taken(u) = Taken(t) \cup {e}
  <2>1. ASSUME NEW s \in Slots(t) PROVE s \in Taken(u) <=> s \in Taken(t) \/ s = e
    <3>1. P(s) \in 0 .. c-1 /\ R(P(s)) = s
      BY <1>4
    <3>2. s = e <=> P(s) = 0
      <4>1. P(R(0)) = 0
        BY <1>0, <1>5
      <4>. QED  BY <1>5, <3>1, <4>1
    <3>3. CASE P(s) = 0
      <4>1. g[s] >= 0
        <5>1. CASE 0 < a
          <6>1. 1 \in 1 .. c-1 /\ 1 <= n /\ 0 + 1 = 1 /\ 0 \in 0 .. c-1
            BY <1>0, <5>1
          <6>2. g[s] = h[R(1)] + 1 /\ h[R(1)] \in Int /\ h[R(1)] >= 0
            BY <1>6, <1>7, <3>1, <3>3, <5>1, <6>1
          <6>. QED  BY <6>2
        <5>2. CASE a = 0
          BY <1>0, <1>6, <3>1, <3>3, <5>2
        <5>. QED  BY <1>0, <5>1, <5>2
      <4>. QED  BY <1>2, <1>11, <3>2, <3>3, <4>1
    <3>4. CASE P(s) # 0 /\ P(s) <= a
      <4>1. P(s) \in 1 .. c-1 /\ P(s) <= n
        BY <1>0, <3>1, <3>4
      <4>2. h[s] >= 0
        BY <1>7, <3>1, <4>1
      <4>3. g[s] >= 0
        <5>1. CASE P(s) < a
          <6>1. P(s) + 1 \in 1 .. c-1 /\ P(s) + 1 <= n
            BY <1>0, <4>1, <5>1
          <6>2. g[s] = h[R(P(s) + 1)] + 1 /\ h[R(P(s) + 1)] \in Int /\ h[R(P(s) + 1)] >= 0
            BY <1>6, <1>7, <3>1, <5>1, <6>1
          <6>. QED  BY <6>2
        <5>2. CASE P(s) = a
          BY <1>0, <1>6, <3>1, <5>2
        <5>. QED  BY <1>0, <3>1, <3>4, <5>1, <5>2
      <4>. QED  BY <1>2, <1>11, <1>12, <4>2, <4>3
    <3>5. CASE P(s) > a
      <4>1. ~(P(s) < a) /\ P(s) # a
        BY <1>0, <3>1, <3>5
      <4>2. g[s] = h[s]
        BY <1>6, <3>1, <4>1
      <4>3. s # e
        BY <1>0, <3>2, <3>5
      <4>. QED  BY <1>2, <1>11, <1>12, <4>2, <4>3
    <3>. QED  BY <1>0, <3>1, <3>3, <3>4, <3>5
  <2>2. Taken(u) \subseteq Slots(t)
    BY <1>2 DEF Taken
  <2>. QED  BY <1>0, <2>1, <2>2
<1>14. \A p \in 0 .. c-1 : T(p).quo \in 0 .. QuoSize(t)-1 /\ T(p).val \in 0 .. ValMask /\ T(p).cbit \in BOOLEAN
  <2>1. SUFFICES ASSUME NEW p \in 0 .. c-1
                 PROVE T(p).quo \in 0 .. QuoSize(t)-1 /\ T(p).val \in 0 .. ValMask /\ T(p).cbit \in BOOLEAN
    OBVIOUS
  <2>2. \A s \in Slots(t) : t.table[s].quo \in 0 .. QuoSize(t)-1 /\ t.table[s].val \in 0 .. ValMask
                            /\ t.table[s].cbit \in BOOLEAN
    BY <1>0 DEF WellFormed
  <2>3. item.quo \in 0 .. QuoSize(t)-1 /\ item.val \in 0 .. ValMask
    <3>1. item.quo \in 0 .. QuoSize(t)-1
      BY <1>0, KeySplits
    <3>. QED  BY <1>0, <3>1
  <2>4. R(p) \in Slots(t) /\ R(p + 1) \in Slots(t)
    <3>1. p \in 0 .. c /\ p + 1 \in 0 .. c
      BY <1>0
    <3>. QED  BY <1>5, <3>1
  <2>5. T(p) \in {t.table[R(p + 1)], item, t.table[R(p)]}
    BY <1>8
  <2>. QED  BY <2>2, <2>3, <2>4, <2>5
<1>15. WellFormed(u)
  <2>1. DOMAIN u = {"table", "size", "capa"} /\ u.size = t.size + 1
    BY DEF Inserted
  <2>2. u.capa \in 1 .. Univ /\ u.capa >= MinCapa /\ Univ % u.capa = 0 /\ QuoSize(u) = QuoSize(t)
    BY <1>0 DEF WellFormed, QuoSize, c
  <2>3. ASSUME NEW s \in Slots(t)
        PROVE  u.table[s] \in [quo : 0 .. QuoSize(t)-1, val : 0 .. ValMask, vbit : BOOLEAN, cbit : BOOLEAN]
    <3>. DEFINE p == P(s)
                v == IF p = n THEN TRUE ELSE t.table[R(p)].vbit
    <3>1. p \in 0 .. c-1 /\ R(p) = s
      BY <1>4
    <3>. HIDE DEF p
    <3>2. u.table[s] = [quo |-> T(p).quo, val |-> T(p).val, vbit |-> v, cbit |-> T(p).cbit]
      BY <1>9, <3>1
    <3>3. v \in BOOLEAN
      BY <1>0, <3>1, TableFacts
    <3>. HIDE DEF v
    <3>. QED  BY <1>14, <3>1, <3>2, <3>3
  <2>4. u.table = [s \in Slots(t) |-> u.table[s]]
    BY DEF Inserted, Laid
  <2>5. u.table \in [Slots(u) -> [quo : 0 .. QuoSize(u)-1, val : 0 .. ValMask, vbit : BOOLEAN, cbit : BOOLEAN]]
    BY <1>2, <2>2, <2>3, <2>4
  <2>6. u.size = Cardinality(Taken(u))
    <3>1. e \notin Taken(t)
      BY <1>0
    <3>2. Cardinality(Taken(t) \cup {e}) = Cardinality(Taken(t)) + 1
      BY <1>0, <3>1, FS_AddElement
    <3>. QED  BY <1>0, <1>13, <2>1, <3>2
  <2>7. u.size <= MaxSizeOf(u.capa)
    <3>1. t.size < MaxSizeOf(t.capa)
      <4>1. t.capa \in Nat /\ t.capa >= MinCapa
        BY <1>0 DEF WellFormed
      <4>2. MaxSizeOf(t.capa) \in Nat
        BY <4>1, CapaBounds
      <4>. QED  BY <1>0, <4>2 DEF Full
    <3>2. MaxSizeOf(t.capa) \in Nat
      <4>1. t.capa \in Nat /\ t.capa >= MinCapa
        BY <1>0 DEF WellFormed
      <4>. QED  BY <4>1, CapaBounds
    <3>. QED  BY <1>0, <2>1, <3>1, <3>2 DEF c
  <2>. QED  BY <2>1, <2>2, <2>5, <2>6, <2>7 DEF WellFormed
<1>16. ASSUME NEW s \in Taken(t)
       PROVE  /\ To(s) \in Taken(u) /\ KeyIn(u, g, To(s)) = KeyIn(t, h, s)
              /\ u.table[To(s)].val = t.table[s].val
  <2>. DEFINE p == P(s)
              q == IF p <= a THEN p - 1 ELSE p
  <2>1. /\ p \in 0 .. c-1 /\ R(p) = s /\ s \in Slots(t) /\ s # e /\ p # 0
        /\ h[s] >= 0
    BY <1>0, <1>4, <1>5, <1>12
  <2>2. p \in 1 .. c-1
    BY <2>1
  <2>3. h[s] \in Nat /\ p + h[s] <= c-1
    BY <1>7, <2>1, <2>2
  <2>. HIDE DEF p
  <2>4. q \in 0 .. c-1 /\ q # a /\ (q < a => p = q + 1) /\ (q > a => p = q)
    BY <1>0, <2>2
  <2>5. To(s) = R(q)
    <3>1. p <= a => To(s) = R(p - 1)
      BY DEF p
    <3>2. ~(p <= a) => To(s) = s
      BY DEF p
    <3>. HIDE DEF To
    <3>. QED  BY <2>1, <3>1, <3>2
  <2>. HIDE DEF q, To
  <2>6. g[R(q)] \in Nat /\ q + g[R(q)] = p + h[s]
    <3>1. CASE q < a
      <4>1. g[R(q)] = h[R(q + 1)] + 1 /\ q + 1 = p
        BY <1>6, <2>4, <3>1
      <4>. QED  BY <2>1, <2>2, <2>3, <2>4, <4>1
    <3>2. CASE q > a
      <4>1. ~(q < a) /\ p = q
        BY <1>0, <2>4, <3>2
      <4>2. g[R(q)] = h[R(q)]
        BY <1>6, <2>4, <4>1
      <4>. QED  BY <2>1, <2>3, <4>1, <4>2
    <3>. QED  BY <1>0, <2>4, <3>1, <3>2
  <2>7. R(q) \in Slots(t) /\ R(q) \in Taken(u)
    <3>1. q \in 0 .. c
      BY <1>0, <2>4
    <3>. QED  BY <1>2, <1>5, <1>11, <2>6, <3>1
  <2>8. T(q) = t.table[s]
    BY <1>0, <1>8, <2>1, <2>4
  <2>9. u.table[R(q)].quo = t.table[s].quo /\ u.table[R(q)].val = t.table[s].val
    BY <1>10, <2>4, <2>8
  <2>10. Home(u, g, R(q)) = Home(t, h, s)
    <3>1. Right(t, R(q), g[R(q)]) = R(q + g[R(q)])
      <4>1. q \in Nat /\ g[R(q)] \in Nat /\ q + g[R(q)] <= t.capa
        BY <1>0, <2>3, <2>2, <2>4, <2>6 DEF c
      <4>2. Right(t, Right(t, e, q), g[R(q)]) = Right(t, e, q + g[R(q)])
        BY <1>1, <4>1, RightRight
      <4>. QED  BY <4>2 DEF R
    <3>2. Right(t, R(p), h[s]) = R(p + h[s])
      <4>1. p \in Nat /\ h[s] \in Nat /\ p + h[s] <= t.capa
        BY <1>0, <2>2, <2>3 DEF c
      <4>2. Right(t, Right(t, e, p), h[s]) = Right(t, e, p + h[s])
        BY <1>1, <4>1, RightRight
      <4>. QED  BY <4>2 DEF R
    <3>. QED  BY <1>2, <2>1, <2>6, <3>1, <3>2 DEF Home
  <2>11. KeyIn(u, g, R(q)) = KeyIn(t, h, s)
    BY <1>0, <2>9, <2>10 DEF KeyIn, KeyAt, c
  <2>. QED  BY <2>5, <2>7, <2>9, <2>11
<1>17. /\ R(a) \in Taken(u) /\ KeyIn(u, g, R(a)) = key
       /\ u.table[R(a)].val = item.val
  <2>1. a \in 0 .. c-1 /\ a \in 0 .. c
    BY <1>0
  <2>2. g[R(a)] = n - a /\ g[R(a)] \in Nat
    BY <1>0, <1>6, <2>1
  <2>3. R(a) \in Slots(t) /\ R(a) \in Taken(u)
    BY <1>2, <1>5, <1>11, <2>1, <2>2
  <2>4. u.table[R(a)].quo = item.quo /\ u.table[R(a)].val = item.val
    <3>1. T(a) = item
      BY <1>0, <1>8, <2>1
    <3>. QED  BY <1>10, <2>1, <3>1
  <2>5. Home(u, g, R(a)) = Mod(t, key)
    <3>1. a \in Nat /\ n - a \in Nat /\ a + (n - a) <= t.capa /\ a + (n - a) = n
      BY <1>0 DEF c
    <3>2. Right(t, Right(t, e, a), n - a) = Right(t, e, n)
      <4>1. Right(t, Right(t, e, a), n - a) = Right(t, e, a + (n - a))
        BY <1>1, <3>1, RightRight
      <4>. QED  BY <3>1, <4>1
    <3>. QED  BY <1>2, <2>2, <3>2 DEF Home, R
  <2>6. HashInv[Quo(t, key) * t.capa + Mod(t, key)] = key
    BY <1>0, KeySplits
  <2>7. KeyIn(u, g, R(a)) = key
    BY <1>0, <2>4, <2>5, <2>6 DEF KeyIn, KeyAt, c
  <2>. QED  BY <2>3, <2>4, <2>7
<1>18. ASSUME NEW r \in Taken(u) PROVE r = R(a) \/ \E s \in Taken(t) : r = To(s)
  <2>. DEFINE q == P(r)
              p == IF q < a THEN q + 1 ELSE q
  <2>1. r \in Slots(t) /\ q \in 0 .. c-1 /\ R(q) = r /\ g[r] >= 0
    BY <1>2, <1>4, <1>11 DEF Taken
  <2>. HIDE DEF q
  <2>2. SUFFICES ASSUME q # a PROVE \E s \in Taken(t) : r = To(s)
    BY <2>1
  <2>3. p \in 0 .. c-1 /\ p # 0 /\ p \in 0 .. c /\ (p <= a => q = p - 1) /\ (~(p <= a) => q = p)
    BY <1>0, <2>1, <2>2
  <2>. HIDE DEF p
  <2>4. R(p) \in Slots(t) /\ P(R(p)) = p
    BY <1>5, <2>3
  <2>5. R(p) # e
    <3>1. P(R(0)) = 0
      BY <1>0, <1>5
    <3>. QED  BY <1>5, <2>3, <2>4, <3>1
  <2>6. R(p) \in Taken(t)
    <3>1. CASE p <= a
      <4>1. p \in 1 .. c-1 /\ p <= n
        BY <1>0, <2>3, <3>1
      <4>. QED  BY <1>7, <1>12, <2>4, <4>1
    <3>2. CASE ~(p <= a)
      BY <1>13, <2>1, <2>3, <2>5, <3>2
    <3>. QED  BY <3>1, <3>2
  <2>7. r = To(R(p))
    BY <2>1, <2>3, <2>4
  <2>. QED  BY <2>6, <2>7
<1>. HIDE DEF To
<1>19. \A s, r \in Taken(u) : KeyIn(u, g, s) = KeyIn(u, g, r) => s = r
  <2>1. \A s \in Taken(t) : KeyIn(u, g, To(s)) # key
    BY <1>16 DEF HeldKeys
  <2>2. \A s, r \in Taken(t) : KeyIn(t, h, s) = KeyIn(t, h, r) => s = r
    BY DEF Sound
  <2>. QED  BY <1>16, <1>17, <1>18, <2>1, <2>2
<1>20. Sound(u, g)
  BY <1>3, <1>15, <1>19 DEF Sound
<1>21. HeldKeys(u, g) = HeldKeys(t, h) \cup {key}
  BY <1>16, <1>17, <1>18 DEF HeldKeys
<1>22. Contents(u) = Updated(Contents(t), key, item.val)
  <2>. DEFINE f == Updated(Contents(t), key, item.val)
  <2>1. /\ DOMAIN Contents(t) = HeldKeys(t, h)
        /\ \A s \in Taken(t) : Contents(t)[KeyIn(t, h, s)] = t.table[s].val
    BY ContentsFacts
  <2>2. f = [k \in HeldKeys(u, g) |-> IF k = key THEN item.val ELSE Contents(t)[k]]
    BY <1>21, <2>1 DEF Updated
  <2>3. ASSUME NEW s \in Taken(t) PROVE f[KeyIn(u, g, To(s))] = u.table[To(s)].val
    <3>1. KeyIn(t, h, s) \in HeldKeys(t, h) /\ KeyIn(t, h, s) # key
      BY DEF HeldKeys
    <3>2. f[KeyIn(t, h, s)] = Contents(t)[KeyIn(t, h, s)]
      BY <1>21, <2>2, <3>1
    <3>. QED  BY <1>16, <2>1, <3>2
  <2>4. f[KeyIn(u, g, R(a))] = u.table[R(a)].val
    BY <1>17, <1>21, <2>2
  <2>5. f = [k \in HeldKeys(u, g) |-> f[k]]
    BY <2>2
  <2>. HIDE DEF f
  <2>6. \A r \in Taken(u) : f[KeyIn(u, g, r)] = u.table[r].val
    BY <1>18, <2>3, <2>4
  <2>7. Contents(u) = f
    BY <1>20, <2>5, <2>6, ContentsAre
  <2>. QED  BY <2>7 DEF f
<1>. QED  BY <1>20, <1>22 DEF g

\* The items of a table.
Records(t) == [quo : 0 .. QuoSize(t)-1, val : 0 .. ValMask, vbit : BOOLEAN, cbit : BOOLEAN]

\* copy_from_right_ by positions: the items up to position a come from the
\* right, the virgin bits stay.
LEMMA ShiftFacts ==
  ASSUME NEW t, WellFormed(t), NEW e \in Slots(t), NEW a \in 0 .. t.capa-1
  PROVE  /\ Shift(t, e, Right(t, e, a)) \in [Slots(t) -> Records(t)]
         /\ \A p \in 0 .. t.capa-1 :
              Shift(t, e, Right(t, e, a))[Right(t, e, p)]
                = IF p < a
                  THEN [quo |-> t.table[Right(t, e, p + 1)].quo, val |-> t.table[Right(t, e, p + 1)].val,
                        vbit |-> t.table[Right(t, e, p)].vbit, cbit |-> t.table[Right(t, e, p + 1)].cbit]
                  ELSE t.table[Right(t, e, p)]
<1>. DEFINE S == Shift(t, e, Right(t, e, a))
            N(s) == t.table[Right(t, s, 1)]
<1>0. HasSlots(t) /\ t.capa \in Nat /\ t.capa >= 2 /\ t.table \in [Slots(t) -> Records(t)]
  BY TableFacts DEF HasSlots, WellFormed, Records
<1>1. Right(t, e, a) \in Slots(t) /\ Offset(t, e, Right(t, e, a)) = a
  <2>1. a \in 0 .. t.capa
    BY <1>0
  <2>. QED  BY <1>0, <2>1, AtOffset
<1>2. S = [s \in Slots(t) |-> IF Offset(t, e, s) < a THEN [N(s) EXCEPT !.vbit = t.table[s].vbit] ELSE t.table[s]]
  BY <1>1 DEF Shift, Offset
<1>3. ASSUME NEW s \in Slots(t)
      PROVE  /\ N(s) \in Records(t) /\ t.table[s] \in Records(t)
             /\ [N(s) EXCEPT !.vbit = t.table[s].vbit]
                  = [quo |-> N(s).quo, val |-> N(s).val, vbit |-> t.table[s].vbit, cbit |-> N(s).cbit]
             /\ [N(s) EXCEPT !.vbit = t.table[s].vbit] \in Records(t)
  <2>1. Right(t, s, 1) \in Slots(t)
    <3>1. 1 \in 0 .. t.capa
      BY <1>0
    <3>. QED  BY <1>0, <3>1, RightWraps
  <2>2. N(s) \in Records(t) /\ t.table[s] \in Records(t)
    BY <1>0, <2>1
  <2>. HIDE DEF N
  <2>. DEFINE x == N(s)
              y == t.table[s]
  <2>3. x \in Records(t) /\ y \in Records(t)
    BY <2>2
  <2>. HIDE DEF x, y
  <2>4. /\ [x EXCEPT !.vbit = y.vbit] = [quo |-> x.quo, val |-> x.val, vbit |-> y.vbit, cbit |-> x.cbit]
        /\ [x EXCEPT !.vbit = y.vbit] \in Records(t)
    BY <2>3 DEF Records
  <2>. QED  BY <2>3, <2>4 DEF x, y
<1>. HIDE DEF S, N
<1>4. S \in [Slots(t) -> Records(t)]
  BY <1>2, <1>3
<1>5. ASSUME NEW p \in 0 .. t.capa-1
      PROVE  S[Right(t, e, p)]
               = IF p < a
                 THEN [quo |-> t.table[Right(t, e, p + 1)].quo, val |-> t.table[Right(t, e, p + 1)].val,
                       vbit |-> t.table[Right(t, e, p)].vbit, cbit |-> t.table[Right(t, e, p + 1)].cbit]
                 ELSE t.table[Right(t, e, p)]
  <2>1. Right(t, e, p) \in Slots(t) /\ Offset(t, e, Right(t, e, p)) = p
    <3>1. p \in 0 .. t.capa
      BY <1>0
    <3>. QED  BY <1>0, <3>1, AtOffset
  <2>2. Right(t, Right(t, e, p), 1) = Right(t, e, p + 1)
    <3>1. p \in Nat /\ 1 \in Nat /\ p + 1 <= t.capa
      BY <1>0
    <3>. QED  BY <1>0, <3>1, RightRight
  <2>3. N(Right(t, e, p)) = t.table[Right(t, e, p + 1)]
    BY <2>2 DEF N
  <2>. QED  BY <1>2, <1>3, <2>1, <2>3
<1>. QED  BY <1>4, <1>5 DEF S

\* The table with an item of the mod in slot m that goes to slot to.
InsertTable(t, e, to, m, quo, val, cbit) ==
  WithItem([Shift(t, e, to) EXCEPT ![m].vbit = TRUE], to, quo, val, cbit)

\* The slots of the table by positions.
LEMMA InsertTableFacts ==
  ASSUME NEW t, WellFormed(t), NEW e \in Slots(t), NEW a \in 0 .. t.capa-1, NEW n \in 0 .. t.capa-1,
         NEW item, item = [quo |-> item.quo, val |-> item.val, cbit |-> item.cbit],
         NEW tab, tab = InsertTable(t, e, Right(t, e, a), Right(t, e, n), item.quo, item.val, item.cbit)
  PROVE  Laid(t, e, a, n, item, tab)
<1>. DEFINE S == Shift(t, e, Right(t, e, a))
            R(p) == Right(t, e, p)
            Z == [S EXCEPT ![R(n)].vbit = TRUE]
<1>0. HasSlots(t) /\ t.capa \in Nat /\ t.capa >= 2 /\ t.table \in [Slots(t) -> Records(t)]
  BY TableFacts DEF HasSlots, WellFormed, Records
<1>1. /\ S \in [Slots(t) -> Records(t)]
      /\ \A p \in 0 .. t.capa-1 :
           S[R(p)] = IF p < a
                     THEN [quo |-> t.table[R(p + 1)].quo, val |-> t.table[R(p + 1)].val,
                           vbit |-> t.table[R(p)].vbit, cbit |-> t.table[R(p + 1)].cbit]
                     ELSE t.table[R(p)]
  BY ShiftFacts
<1>2. \A p \in 0 .. t.capa-1 : R(p) \in Slots(t) /\ R(p + 1) \in Slots(t)
  <2>1. \A p \in 0 .. t.capa-1 : p \in 0 .. t.capa /\ p + 1 \in 0 .. t.capa
    BY <1>0
  <2>. QED  BY <1>0, <2>1, AtOffset
<1>3. \A p, q \in 0 .. t.capa-1 : R(p) = R(q) => p = q
  BY <1>0, AtOffset
<1>4. tab = [Z EXCEPT ![R(a)] = [quo |-> item.quo, val |-> item.val, vbit |-> Z[R(a)].vbit, cbit |-> item.cbit]]
  BY DEF InsertTable, WithItem
<1>. DEFINE T(p) == ItemAt(t, e, a, p, item)
<1>5. \A p \in 0 .. t.capa-1 : T(p) = IF p < a THEN t.table[R(p + 1)] ELSE IF p = a THEN item ELSE t.table[R(p)]
  BY DEF ItemAt
<1>. HIDE DEF S, R, T
<1>6. ASSUME NEW x \in Records(t), NEW w
      PROVE  /\ x = [quo |-> x.quo, val |-> x.val, vbit |-> x.vbit, cbit |-> x.cbit]
             /\ [x EXCEPT !.vbit = w] = [quo |-> x.quo, val |-> x.val, vbit |-> w, cbit |-> x.cbit]
  <2>1. x = [quo |-> x.quo, val |-> x.val, vbit |-> x.vbit, cbit |-> x.cbit]
    BY DEF Records
  <2>2. [x EXCEPT !.vbit = w] = [quo |-> x.quo, val |-> x.val, vbit |-> w, cbit |-> x.cbit]
    BY DEF Records
  <2>. QED  BY <2>1, <2>2
<1>7. ASSUME NEW s \in Slots(t)
      PROVE  Z[s] = [quo |-> S[s].quo, val |-> S[s].val, vbit |-> IF s = R(n) THEN TRUE ELSE S[s].vbit, cbit |-> S[s].cbit]
  <2>1. Z[s] = IF s = R(n) THEN [S[s] EXCEPT !.vbit = TRUE] ELSE S[s]
    BY <1>1
  <2>2. S[s] \in Records(t)
    BY <1>1
  <2>. HIDE DEF Z
  <2>. QED  BY <1>6, <2>1, <2>2
<1>8. Z = [s \in Slots(t) |-> Z[s]]
  BY <1>1
<1>. HIDE DEF Z
<1>9. tab = [s \in Slots(t) |-> tab[s]]
  BY <1>4, <1>8
<1>10. ASSUME NEW p \in 0 .. t.capa-1
       PROVE  tab[R(p)] = [quo |-> T(p).quo, val |-> T(p).val,
                           vbit |-> IF p = n THEN TRUE ELSE t.table[R(p)].vbit, cbit |-> T(p).cbit]
  <2>1. R(p) \in Slots(t) /\ t.table[R(p)] \in Records(t) /\ (R(p) = R(n) <=> p = n)
    BY <1>0, <1>2, <1>3
  <2>2. tab[R(p)] = IF R(p) = R(a) THEN [quo |-> item.quo, val |-> item.val, vbit |-> Z[R(p)].vbit, cbit |-> item.cbit]
                    ELSE Z[R(p)]
    <3>. DEFINE it == [quo |-> item.quo, val |-> item.val, vbit |-> Z[R(a)].vbit, cbit |-> item.cbit]
    <3>1. tab = [Z EXCEPT ![R(a)] = it]
      BY <1>4
    <3>. HIDE DEF it
    <3>2. tab[R(p)] = IF R(p) = R(a) THEN it ELSE Z[R(p)]
      BY <1>8, <2>1, <3>1
    <3>3. CASE R(p) = R(a)
      BY <3>2, <3>3 DEF it
    <3>4. CASE R(p) # R(a)
      BY <3>2, <3>4
    <3>. QED  BY <3>3, <3>4
  <2>3. S[R(p)].vbit = t.table[R(p)].vbit
    <3>1. CASE p < a
      <4>. DEFINE v == t.table[R(p)].vbit
                  w == t.table[R(p + 1)].cbit
      <4>1. S[R(p)] = [quo |-> t.table[R(p + 1)].quo, val |-> t.table[R(p + 1)].val, vbit |-> v, cbit |-> w]
        BY <1>1, <3>1
      <4>. HIDE DEF v, w
      <4>2. S[R(p)].vbit = v
        BY <4>1
      <4>. QED  BY <4>2 DEF v
    <3>2. CASE ~(p < a)
      BY <1>1, <3>2
    <3>. QED  BY <3>1, <3>2
  <2>4. Z[R(p)] = [quo |-> S[R(p)].quo, val |-> S[R(p)].val,
                   vbit |-> IF p = n THEN TRUE ELSE t.table[R(p)].vbit, cbit |-> S[R(p)].cbit]
    <3>1. CASE p = n
      BY <1>7, <2>1, <3>1
    <3>2. CASE p # n
      BY <1>7, <2>1, <2>3, <3>2
    <3>. QED  BY <3>1, <3>2
  <2>5. CASE p = a
    <3>1. T(p) = item
      BY <1>0, <1>5, <2>5
    <3>2. Z[R(p)].vbit = IF p = n THEN TRUE ELSE t.table[R(p)].vbit
      BY <2>4
    <3>. QED  BY <2>2, <2>5, <3>1, <3>2
  <2>6. CASE p # a
    <3>1. tab[R(p)] = Z[R(p)]
      BY <1>3, <2>2, <2>6
    <3>2. S[R(p)].quo = T(p).quo /\ S[R(p)].val = T(p).val /\ S[R(p)].cbit = T(p).cbit
      <4>1. CASE p < a
        <5>1. T(p) = t.table[R(p + 1)]
          BY <1>5, <4>1
        <5>2. S[R(p)] = [quo |-> T(p).quo, val |-> T(p).val, vbit |-> t.table[R(p)].vbit, cbit |-> T(p).cbit]
          BY <1>1, <4>1, <5>1
        <5>. QED  BY <5>2
      <4>2. CASE ~(p < a)
        <5>1. T(p) = t.table[R(p)] /\ S[R(p)] = t.table[R(p)]
          BY <1>1, <1>5, <2>6, <4>2
        <5>. QED  BY <5>1
      <4>. QED  BY <4>1, <4>2
    <3>. QED  BY <2>4, <3>1, <3>2
  <2>. QED  BY <2>5, <2>6
<1>. QED  BY <1>9, <1>10 DEF R, T, Laid

\* An item that goes through a gate into a table with room.
LEMMA Inserts ==
  ASSUME NEW t, NEW h, Sound(t, h), ~Full(t), NEW key \in Keys, key \notin HeldKeys(t, h),
         NEW val \in 0 .. ValMask-1, NEW cbit \in BOOLEAN,
         NEW e, NEW a, NEW n, Gate(t, h, e, a, n), Right(t, e, n) = Mod(t, key),
         cbit <=> a = 0 \/ a + h[Right(t, e, a)] < n,
         NEW u, u = Grown(t, InsertTable(t, e, Right(t, e, a), Mod(t, key), Quo(t, key), val, cbit))
  PROVE  /\ \E g : Sound(u, g)
         /\ Contents(u) = Updated(Contents(t), key, val) /\ u.capa = t.capa
<1>. DEFINE item == [quo |-> Quo(t, key), val |-> val, cbit |-> cbit]
            tab == InsertTable(t, e, Right(t, e, a), Mod(t, key), Quo(t, key), val, cbit)
<1>1. WellFormed(t) /\ t.capa \in Nat /\ t.capa >= 2
  BY TableFacts DEF Sound, HasSlots
<1>2. e \in Slots(t) /\ a \in 0 .. t.capa-1 /\ n \in 0 .. t.capa-1
  BY <1>1 DEF Gate
<1>3. /\ item.quo = Quo(t, key) /\ item.val = val /\ item.cbit = cbit
      /\ item = [quo |-> item.quo, val |-> item.val, cbit |-> item.cbit]
  OBVIOUS
<1>4. u = [table |-> tab, size |-> t.size + 1, capa |-> t.capa]
  BY DEF Grown
<1>. HIDE DEF item
<1>5. tab = InsertTable(t, e, Right(t, e, a), Right(t, e, n), item.quo, item.val, item.cbit)
  BY <1>3
<1>. HIDE DEF tab
<1>6. Laid(t, e, a, n, item, tab)
  <2>1. item = [quo |-> item.quo, val |-> item.val, cbit |-> item.cbit]
    BY <1>3
  <2>2. WellFormed(t)
    BY <1>1
  <2>. QED  BY <1>2, <1>5, <2>1, <2>2, InsertTableFacts
<1>7. DOMAIN u = {"table", "size", "capa"} /\ u.capa = t.capa /\ u.size = t.size + 1 /\ u.table = tab
  BY <1>4
<1>8. (item.cbit <=> a = 0 \/ a + h[Right(t, e, a)] < n) /\ item.val \in 0 .. ValMask-1
  BY <1>3
<1>9. Inserted(t, h, u, e, a, n, item)
  BY <1>6, <1>7, <1>8 DEF Inserted
<1>10. Sound(u, Moved(t, h, e, a, n)) /\ Contents(u) = Updated(Contents(t), key, item.val)
  <2>1. item.cbit \in BOOLEAN
    BY <1>3
  <2>. QED  BY <1>3, <1>9, <2>1, InsertSound
<1>. QED  BY <1>3, <1>7, <1>10

\* A table with room has two free slots.
LEMMA RoomBehind ==
  ASSUME NEW t, WellFormed(t), ~Full(t), NEW e \in Slots(t), IsVacant(t, e),
         NEW n \in 0 .. t.capa-1, \A p \in 1 .. n : ~IsVacant(t, Right(t, e, p))
  PROVE  n \in 0 .. t.capa-2
<1>0. /\ HasSlots(t) /\ t.capa \in Nat /\ t.capa >= 2 /\ Taken(t) \subseteq Slots(t) /\ Slots(t) = 0 .. t.capa-1
      /\ \A s \in Slots(t) : s \in Taken(t) <=> ~IsVacant(t, s)
      /\ t.size = Cardinality(Taken(t)) /\ IsFiniteSet(Taken(t)) /\ t.size \in Nat /\ t.capa >= MinCapa
  BY TableFacts DEF HasSlots
<1>1. SUFFICES ASSUME n = t.capa-1 PROVE FALSE
  BY <1>0
<1>2. Taken(t) = Slots(t) \ {e}
  <2>1. ASSUME NEW s \in Slots(t), s # e PROVE s \in Taken(t)
    <3>1. Offset(t, e, s) \in 0 .. t.capa-1 /\ Right(t, e, Offset(t, e, s)) = s /\ Right(t, e, 0) = e
      <4>1. HasSlots(t)
        BY <1>0
      <4>. QED  BY <4>1, AtOffset
    <3>2. Offset(t, e, s) # 0
      BY <2>1, <3>1
    <3>3. Offset(t, e, s) \in 1 .. n
      BY <1>0, <1>1, <3>1, <3>2
    <3>. QED  BY <1>0, <3>1, <3>3
  <2>. QED  BY <1>0, <2>1
<1>3. Cardinality(Slots(t)) = t.capa /\ IsFiniteSet(Slots(t))
  <2>1. 0 \in Int /\ t.capa-1 \in Int /\ ~(0 > t.capa-1) /\ (t.capa-1) - 0 + 1 = t.capa
    BY <1>0
  <2>. QED  BY <1>0, <2>1, FS_Interval
<1>4. Cardinality(Slots(t) \ {e}) = Cardinality(Slots(t)) - 1
  BY <1>3, FS_RemoveElement
<1>5. t.size = t.capa - 1
  BY <1>0, <1>2, <1>3, <1>4
<1>6. MaxSizeOf(t.capa) \in Nat /\ MaxSizeOf(t.capa) < t.capa
  BY <1>0, CapaBounds
<1>. QED  BY <1>0, <1>5, <1>6 DEF Full

\* A key whose mod has no group is not held.
LEMMA NoGroup ==
  ASSUME NEW t, NEW h, Sound(t, h), NEW key \in Keys, ~t.table[Mod(t, key)].vbit
  PROVE  key \notin HeldKeys(t, h)
<1>0. WellFormed(t) /\ Placed(t, h) /\ HasSlots(t) /\ Vacant(t) # {} /\ Taken(t) \subseteq Slots(t)
      /\ \A s \in Slots(t) : s \in Taken(t) <=> ~IsVacant(t, s)
  BY TableFacts DEF Sound
<1>1. SUFFICES ASSUME NEW s \in Taken(t), KeyIn(t, h, s) = key PROVE FALSE
  BY DEF HeldKeys
<1>2. s \in Slots(t) /\ h[s] >= 0
  <2>1. s \in Slots(t) /\ ~IsVacant(t, s)
    BY <1>0
  <2>. QED  BY <1>0, <2>1 DEF Placed
<1>3. Home(t, h, s) \in Slots(t)
  BY <1>0, <1>2, WayHome
<1>4. Home(t, h, s) = Mod(t, key)
  BY <1>0, <1>1, <1>2, <1>3, ItemKey
<1>. QED  BY <1>0, <1>2, <1>3, <1>4 DEF Placed

\* set, the slot of the key being free.
LEMMA PutVacant ==
  ASSUME NEW t, NEW h, Sound(t, h), ~Full(t), NEW key \in Keys, NEW val \in 0 .. ValMask-1,
         IsVacant(t, Mod(t, key))
  PROVE  /\ \E g : Sound(Put(t, key, val), g)
         /\ Contents(Put(t, key, val)) = Updated(Contents(t), key, val)
         /\ Put(t, key, val).capa = t.capa
<1>. DEFINE mod == Mod(t, key)
            quo == Quo(t, key)
            tab == [t.table EXCEPT ![mod] = [quo |-> quo, val |-> val, vbit |-> TRUE, cbit |-> TRUE]]
            S == Shift(t, mod, mod)
<1>0. /\ WellFormed(t) /\ Placed(t, h) /\ HasSlots(t) /\ Vacant(t) # {}
      /\ t.capa \in Nat /\ t.capa >= 2 /\ t.table \in [Slots(t) -> Records(t)]
  BY TableFacts DEF Sound, HasSlots, WellFormed, Records
<1>1. mod \in Slots(t)
  BY <1>0, KeySplits
<1>2. Right(t, mod, 0) = mod /\ 0 \in 0 .. t.capa-1
  BY <1>0, <1>1, AtOffset
<1>3. ~t.table[mod].vbit
  <2>1. ASSUME NEW s \in Slots(t), h[s] >= 0, Home(t, h, s) = mod PROVE FALSE
    BY <1>0, <2>1, WayHome
  <2>. QED  BY <1>0, <1>1, <2>1 DEF Placed
<1>4. key \notin HeldKeys(t, h)
  BY <1>3, NoGroup
<1>5. Gate(t, h, mod, 0, 0)
  <2>1. 0 \in 0 .. t.capa-2 /\ 0 \in 0 .. 0 /\ 1 .. 0 = {}
    BY <1>0
  <2>2. ASSUME NEW p \in 1 .. t.capa-1, h[Right(t, mod, p)] >= 0
        PROVE  p <= 0 <=> p + h[Right(t, mod, p)] <= 0
    <3>1. h[Right(t, mod, p)] \in Int
      <4>1. p \in 0 .. t.capa-1
        BY <1>0
      <4>. QED  BY <1>0, <1>1, <4>1, Neighbours
    <3>. QED  BY <1>0, <2>2, <3>1
  <2>. QED  BY <1>1, <2>1, <2>2 DEF Gate
<1>6. S = t.table
  <2>1. /\ S \in [Slots(t) -> Records(t)]
        /\ \A p \in 0 .. t.capa-1 : S[Right(t, mod, p)] = t.table[Right(t, mod, p)]
    <3>1. \A p \in 0 .. t.capa-1 : ~(p < 0)
      BY <1>0
    <3>2. S = Shift(t, mod, Right(t, mod, 0))
      BY <1>2
    <3>. HIDE DEF S, mod
    <3>. QED  BY <1>0, <1>1, <1>2, <3>1, <3>2, ShiftFacts
  <2>. HIDE DEF S, mod
  <2>2. \A s \in Slots(t) : S[s] = t.table[s]
    BY <1>0, <1>1, <2>1, AtOffset
  <2>. QED  BY <1>0, <2>1, <2>2
<1>7. tab = InsertTable(t, mod, mod, mod, quo, val, TRUE)
  <2>. DEFINE w == TRUE
              Z == [S EXCEPT ![mod].vbit = w]
              it == [quo |-> quo, val |-> val, vbit |-> Z[mod].vbit, cbit |-> w]
  <2>1. InsertTable(t, mod, mod, mod, quo, val, TRUE) = [Z EXCEPT ![mod] = it]
    BY DEF InsertTable, WithItem
  <2>2. Z[mod].vbit = w
    <3>. HIDE DEF w, mod, S
    <3>1. Z[mod] = [S[mod] EXCEPT !.vbit = w]
      BY <1>0, <1>1, <1>6
    <3>2. S[mod] \in Records(t)
      BY <1>0, <1>1, <1>6
    <3>3. [S[mod] EXCEPT !.vbit = w].vbit = w
      BY <3>2 DEF Records
    <3>. QED  BY <3>1, <3>3
  <2>3. it = [quo |-> quo, val |-> val, vbit |-> TRUE, cbit |-> TRUE]
    BY <2>2
  <2>. DEFINE rec == [quo |-> quo, val |-> val, vbit |-> TRUE, cbit |-> TRUE]
  <2>4. tab = [t.table EXCEPT ![mod] = rec] /\ it = rec
    BY <2>3
  <2>. HIDE DEF rec, it, tab, mod, S, w
  <2>5. [Z EXCEPT ![mod] = rec] = [t.table EXCEPT ![mod] = rec]
    BY <1>0, <1>1, <1>6
  <2>. QED  BY <2>1, <2>4, <2>5
<1>8. Put(t, key, val) = Grown(t, tab)
  BY DEF Put
<1>. DEFINE w == TRUE
            z == 0
<1>9. w \in BOOLEAN /\ (w <=> z = 0 \/ z + h[Right(t, mod, z)] < z)
  OBVIOUS
<1>10. Right(t, mod, z) = Mod(t, key) /\ Gate(t, h, mod, z, z)
  BY <1>2, <1>5
<1>11. Put(t, key, val) = Grown(t, InsertTable(t, mod, Right(t, mod, z), Mod(t, key), Quo(t, key), val, w))
  BY <1>2, <1>7, <1>8
<1>. HIDE DEF tab, mod, quo, w, z
<1>. QED  BY <1>4, <1>9, <1>10, <1>11, Inserts

\* set, another group having the slot of the key.
LEMMA PutNewGroup ==
  ASSUME NEW t, NEW h, Sound(t, h), ~Full(t), NEW key \in Keys, NEW val \in 0 .. ValMask-1,
         ~IsVacant(t, Mod(t, key)), ~t.table[Mod(t, key)].vbit
  PROVE  /\ \E g : Sound(Put(t, key, val), g)
         /\ Contents(Put(t, key, val)) = Updated(Contents(t), key, val)
         /\ Put(t, key, val).capa = t.capa
<1>. DEFINE mod == Mod(t, key)
            quo == Quo(t, key)
            ass == FindAssCbit(t, mod)
            e == ass.empty
            to == IF ass.group = Nil THEN ass.empty ELSE GroupEnd(t, ass.group)
<1>0. /\ WellFormed(t) /\ Placed(t, h) /\ HasSlots(t) /\ Vacant(t) # {}
      /\ t.capa \in Nat /\ t.capa >= 2
  BY TableFacts DEF Sound, HasSlots
<1>1. mod \in Slots(t)
  BY <1>0, KeySplits
<1>2. key \notin HeldKeys(t, h)
  BY NoGroup
<1>3. PICK n \in 1 .. t.capa-1 : AssIs(t, h, mod, n)
  BY <1>0, <1>1, AssFacts
<1>. DEFINE L == Run(t, h, e, n)
<1>4. /\ e \in Slots(t) /\ IsVacant(t, e) /\ Right(t, e, n) = mod
      /\ \A p \in 1 .. n : ~IsVacant(t, Right(t, e, p))
      /\ \/ /\ ass.group = Nil
            /\ \A v \in 1 .. n : ~t.table[Right(t, e, v)].vbit
         \/ \E s \in 1 .. n :
              /\ ass.group = Right(t, e, s) /\ s \in Starts(n, L)
              /\ L[s] \in 1 .. n /\ t.table[Right(t, e, L[s])].vbit
              /\ \A v \in 1 .. n : t.table[Right(t, e, v)].vbit => v <= L[s]
  BY <1>3 DEF AssIs
<1>5. Put(t, key, val) = Grown(t, InsertTable(t, e, to, mod, quo, val, TRUE))
  BY DEF Put, NewGroup, InsertTable
<1>6. Nil \notin Slots(t)
  BY <1>0 DEF Slots, Nil
<1>. HIDE DEF e, ass, mod, quo
<1>7. n \in 0 .. t.capa-1 /\ n \in 0 .. t.capa-2
  <2>1. n \in 0 .. t.capa-1
    BY <1>0
  <2>. QED  BY <1>0, <1>4, <2>1, RoomBehind
<1>8. \A p \in 1 .. t.capa-1 : h[Right(t, e, p)] \in Int
  <2>1. \A p \in 1 .. t.capa-1 : p \in 0 .. t.capa-1
    BY <1>0
  <2>. QED  BY <1>0, <1>4, <2>1, Neighbours
<1>9. ASSUME NEW p \in 1 .. t.capa-1, h[Right(t, e, p)] >= 0, p + h[Right(t, e, p)] <= n
      PROVE  p + h[Right(t, e, p)] \in 1 .. n /\ t.table[Right(t, e, p + h[Right(t, e, p)])].vbit
  <2>1. p + h[Right(t, e, p)] \in 1 .. n /\ p + h[Right(t, e, p)] \in 0 .. t.capa-1
    BY <1>0, <1>7, <1>8, <1>9
  <2>. QED  BY <1>0, <1>4, <1>9, <2>1, VbitsAlong
<1>10. \E a \in 0 .. n : /\ Gate(t, h, e, a, n) /\ to = Right(t, e, a)
                         /\ a = 0 \/ a + h[Right(t, e, a)] < n
  <2>1. CASE ass.group = Nil
    <3>1. \A v \in 1 .. n : ~t.table[Right(t, e, v)].vbit
      <4>1. \A s \in 1 .. n : Right(t, e, s) \in Slots(t)
        <5>1. \A s \in 1 .. n : s \in 0 .. t.capa
          BY <1>0, <1>7
        <5>. QED  BY <1>0, <1>4, <5>1, AtOffset
      <4>. QED  BY <1>4, <1>6, <2>1, <4>1
    <3>2. to = Right(t, e, 0)
      BY <1>0, <1>4, <2>1, AtOffset DEF e
    <3>3. \A p \in 1 .. t.capa-1 : h[Right(t, e, p)] >= 0 => (p <= 0 <=> p + h[Right(t, e, p)] <= n)
      BY <1>9, <3>1
    <3>4. 0 \in 0 .. n
      BY <1>0
    <3>5. Gate(t, h, e, 0, n)
      BY <1>4, <1>7, <3>3, <3>4 DEF Gate
    <3>. QED  BY <3>2, <3>4, <3>5
  <2>2. ASSUME NEW s \in 1 .. n,
               ass.group = Right(t, e, s), s \in Starts(n, L),
               L[s] \in 1 .. n, t.table[Right(t, e, L[s])].vbit,
               \A v \in 1 .. n : t.table[Right(t, e, v)].vbit => v <= L[s]
        PROVE  \E a \in 0 .. n : /\ Gate(t, h, e, a, n) /\ to = Right(t, e, a)
                                 /\ a = 0 \/ a + h[Right(t, e, a)] < n
    <3>1. t.table[Right(t, e, s)].cbit
      BY <1>0, <1>4, <1>7, <2>2, RunFacts
    <3>2. PICK len \in Nat : GroupIs(t, h, e, s, len)
      BY <1>0, <1>4, <1>7, <3>1, GroupFacts
    <3>3. L[s] = s + h[Right(t, e, s)]
      BY DEF Run
    <3>. DEFINE home == L[s]
                a == s + len - 1
    <3>4. /\ len >= 1 /\ a <= home
          /\ GroupEnd(t, Right(t, e, s)) = Right(t, e, a)
          /\ \A p \in 1 .. t.capa-1 : h[Right(t, e, p)] >= 0 =>
               /\ p < s => p + h[Right(t, e, p)] < home
               /\ p \in s .. a => p + h[Right(t, e, p)] = home
               /\ p > a => p + h[Right(t, e, p)] > home
      BY <3>2, <3>3 DEF GroupIs
    <3>5. home \in 1 .. n /\ home # n /\ home < n
      <4>1. home # n
        BY <1>4, <2>2 DEF mod
      <4>. QED  BY <1>0, <2>2, <4>1
    <3>. HIDE DEF home, L
    <3>6. a \in 0 .. n /\ a \in 1 .. n /\ a \in s .. a /\ a \in 1 .. t.capa-1
      BY <1>0, <1>7, <3>4, <3>5
    <3>7. to = Right(t, e, a)
      <4>1. Right(t, e, s) # Nil
        <5>1. s \in 0 .. t.capa
          BY <1>0, <1>7
        <5>. QED  BY <1>0, <1>4, <1>6, <5>1, AtOffset
      <4>. QED  BY <2>2, <3>4, <4>1
    <3>. HIDE DEF a
    <3>8. a + h[Right(t, e, a)] < n
      <4>1. h[Right(t, e, a)] >= 0
        <5>1. ~IsVacant(t, Right(t, e, a)) /\ a \in 0 .. t.capa-1
          BY <1>0, <1>4, <3>6
        <5>. QED  BY <1>0, <1>4, <5>1, Neighbours
      <4>. QED  BY <3>4, <3>5, <3>6, <4>1
    <3>9. ASSUME NEW p \in 1 .. t.capa-1, h[Right(t, e, p)] >= 0
          PROVE  p <= a <=> p + h[Right(t, e, p)] <= n
      <4>1. CASE p < s
        BY <1>0, <1>8, <3>4, <3>5, <3>6, <3>9, <4>1
      <4>2. CASE p \in s .. a
        BY <1>0, <1>8, <3>4, <3>5, <3>6, <3>9, <4>2
      <4>3. CASE p > a
        <5>1. p + h[Right(t, e, p)] > home
          BY <3>4, <3>9, <4>3
        <5>2. ASSUME p + h[Right(t, e, p)] <= n PROVE FALSE
          <6>1. p + h[Right(t, e, p)] <= home
            BY <1>9, <2>2, <3>9, <5>2 DEF home
          <6>. QED  BY <1>8, <3>5, <5>1, <6>1
        <5>. QED  BY <3>6, <4>3, <5>2
      <4>. QED  BY <1>0, <3>6, <4>1, <4>2, <4>3
    <3>10. Gate(t, h, e, a, n)
      BY <1>4, <1>7, <3>6, <3>9 DEF Gate
    <3>. QED  BY <3>6, <3>7, <3>8, <3>10
  <2>. HIDE DEF to, L
  <2>. QED  BY <1>4, <2>1, <2>2
<1>. HIDE DEF to
<1>11. PICK a \in 0 .. n : /\ Gate(t, h, e, a, n) /\ to = Right(t, e, a)
                           /\ a = 0 \/ a + h[Right(t, e, a)] < n
  BY <1>10
<1>. DEFINE w == TRUE
<1>12. w \in BOOLEAN /\ (w <=> a = 0 \/ a + h[Right(t, e, a)] < n)
  BY <1>11
<1>13. Put(t, key, val) = Grown(t, InsertTable(t, e, Right(t, e, a), mod, quo, val, w))
  BY <1>5, <1>11
<1>. HIDE DEF w
<1>. QED  BY <1>2, <1>4, <1>11, <1>12, <1>13, Inserts DEF mod, quo

\* The group of a mod that has one: it ends at or before the mod, behind all
\* items of lower mods.
LEMMA OwnGroup ==
  ASSUME NEW t, NEW h, Sound(t, h), ~Full(t), NEW mod \in Slots(t), t.table[mod].vbit,
         NEW ass, ass = FindAssCbit(t, mod)
  PROVE  \E n \in 1 .. t.capa-2 : \E a \in 1 .. n :
           /\ Gate(t, h, ass.empty, a, n) /\ Right(t, ass.empty, n) = mod
           /\ GroupEnd(t, ass.group) = Right(t, ass.empty, a)
           /\ a + h[Right(t, ass.empty, a)] = n
<1>. DEFINE e == ass.empty
<1>0. /\ WellFormed(t) /\ Placed(t, h) /\ HasSlots(t) /\ Vacant(t) # {}
      /\ t.capa \in Nat /\ t.capa >= 2
  BY TableFacts DEF Sound, HasSlots
<1>1. ~IsVacant(t, mod)
  <2>1. PICK s \in Slots(t) : h[s] >= 0 /\ Home(t, h, s) = mod
    BY <1>0 DEF Placed
  <2>. QED  BY <1>0, <2>1, WayHome
<1>2. PICK n \in 1 .. t.capa-1 : AssIs(t, h, mod, n)
  BY <1>0, <1>1, AssFacts
<1>. DEFINE L == Run(t, h, e, n)
<1>3. /\ e \in Slots(t) /\ IsVacant(t, e) /\ Right(t, e, n) = mod
      /\ \A p \in 1 .. n : ~IsVacant(t, Right(t, e, p))
      /\ \/ /\ ass.group = Nil
            /\ \A v \in 1 .. n : ~t.table[Right(t, e, v)].vbit
         \/ \E s \in 1 .. n :
              /\ ass.group = Right(t, e, s) /\ s \in Starts(n, L)
              /\ L[s] \in 1 .. n /\ t.table[Right(t, e, L[s])].vbit
              /\ \A v \in 1 .. n : t.table[Right(t, e, v)].vbit => v <= L[s]
  BY <1>2 DEF AssIs
<1>. HIDE DEF e
<1>4. n \in 0 .. t.capa-1 /\ n \in 1 .. n
  BY <1>0
<1>5. n \in 0 .. t.capa-2
  BY <1>0, <1>3, <1>4, RoomBehind
<1>6. PICK s \in 1 .. n : ass.group = Right(t, e, s) /\ s \in Starts(n, L) /\ L[s] = n
  <2>1. PICK s \in 1 .. n :
             /\ ass.group = Right(t, e, s) /\ s \in Starts(n, L)
             /\ L[s] \in 1 .. n
             /\ \A v \in 1 .. n : t.table[Right(t, e, v)].vbit => v <= L[s]
    BY <1>3, <1>4
  <2>. HIDE DEF L
  <2>2. n <= L[s]
    BY <1>3, <1>4, <2>1
  <2>. QED  BY <1>0, <2>1, <2>2
<1>7. t.table[Right(t, e, s)].cbit
  BY <1>0, <1>3, <1>4, <1>6, RunFacts
<1>8. PICK len \in Nat : GroupIs(t, h, e, s, len)
  BY <1>0, <1>3, <1>4, <1>7, GroupFacts
<1>9. s + h[Right(t, e, s)] = n
  BY <1>6 DEF Run
<1>. DEFINE a == s + len - 1
<1>10. /\ len >= 1 /\ a <= n
       /\ GroupEnd(t, Right(t, e, s)) = Right(t, e, a)
       /\ \A p \in 1 .. t.capa-1 : h[Right(t, e, p)] >= 0 =>
            /\ p < s => p + h[Right(t, e, p)] < n
            /\ p \in s .. a => p + h[Right(t, e, p)] = n
            /\ p > a => p + h[Right(t, e, p)] > n
  BY <1>8, <1>9 DEF GroupIs
<1>11. a \in 1 .. n /\ a \in 0 .. n /\ a \in s .. a /\ a \in 1 .. t.capa-1 /\ a \in 0 .. t.capa-1 /\ a \in Int
  BY <1>0, <1>10
<1>. HIDE DEF a, L
<1>12. a + h[Right(t, e, a)] = n
  <2>1. h[Right(t, e, a)] >= 0
    <3>1. ~IsVacant(t, Right(t, e, a))
      BY <1>3, <1>11
    <3>. QED  BY <1>0, <1>3, <1>11, <3>1, Neighbours
  <2>. QED  BY <1>10, <1>11, <2>1
<1>13. ASSUME NEW p \in 1 .. t.capa-1, h[Right(t, e, p)] >= 0
       PROVE  p <= a <=> p + h[Right(t, e, p)] <= n
  <2>0. h[Right(t, e, p)] \in Int
    <3>1. p \in 0 .. t.capa-1
      BY <1>0
    <3>. QED  BY <1>0, <1>3, <3>1, Neighbours
  <2>1. CASE p < s
    BY <1>0, <1>10, <1>11, <1>13, <2>0, <2>1
  <2>2. CASE p \in s .. a
    BY <1>0, <1>10, <1>11, <1>13, <2>0, <2>2
  <2>3. CASE p > a
    BY <1>0, <1>10, <1>11, <1>13, <2>0, <2>3
  <2>. QED  BY <1>0, <1>11, <2>1, <2>2, <2>3
<1>14. Gate(t, h, e, a, n)
  BY <1>3, <1>5, <1>11, <1>13 DEF Gate
<1>15. n \in 1 .. t.capa-2
  BY <1>0, <1>5
<1>. QED  BY <1>3, <1>6, <1>10, <1>11, <1>12, <1>14, <1>15 DEF e

\* set, the group having no item with the key.
LEMMA PutExtend ==
  ASSUME NEW t, NEW h, Sound(t, h), ~Full(t), NEW key \in Keys, NEW val \in 0 .. ValMask-1,
         t.table[Mod(t, key)].vbit, key \notin HeldKeys(t, h)
  PROVE  /\ \E g : Sound(Put(t, key, val), g)
         /\ Contents(Put(t, key, val)) = Updated(Contents(t), key, val)
         /\ Put(t, key, val).capa = t.capa
<1>. DEFINE mod == Mod(t, key)
            quo == Quo(t, key)
            ass == FindAssCbit(t, mod)
            e == ass.empty
            to == GroupEnd(t, ass.group)
            at == FindItem(t, ass.group, quo)
            S == Shift(t, e, to)
<1>0. /\ WellFormed(t) /\ Placed(t, h) /\ HasSlots(t) /\ Vacant(t) # {}
      /\ t.capa \in Nat /\ t.capa >= 2
  BY TableFacts DEF Sound, HasSlots
<1>1. mod \in Slots(t)
  BY <1>0, KeySplits
<1>2. ~IsVacant(t, mod) /\ at = {}
  BY FindsKey DEF HeldKeys
<1>3. PICK n \in 1 .. t.capa-2 : \E a \in 1 .. n :
        /\ Gate(t, h, e, a, n) /\ Right(t, e, n) = mod
        /\ to = Right(t, e, a)
        /\ a + h[Right(t, e, a)] = n
  <2>0. ass = FindAssCbit(t, mod) /\ t.table[mod].vbit
    OBVIOUS
  <2>. HIDE DEF ass, mod
  <2>1. \E n \in 1 .. t.capa-2 : \E a \in 1 .. n :
          /\ Gate(t, h, ass.empty, a, n) /\ Right(t, ass.empty, n) = mod
          /\ GroupEnd(t, ass.group) = Right(t, ass.empty, a)
          /\ a + h[Right(t, ass.empty, a)] = n
    BY <1>1, <2>0, OwnGroup
  <2>. QED  BY <2>1
<1>4. PICK a \in 1 .. n :
        /\ Gate(t, h, e, a, n) /\ Right(t, e, n) = mod
        /\ to = Right(t, e, a)
        /\ a + h[Right(t, e, a)] = n
  BY <1>3
<1>5. Put(t, key, val) = Grown(t, WithItem(S, to, quo, val, FALSE))
  BY <1>2 DEF Put, Extend
<1>. HIDE DEF at, to, e
<1>6. [S EXCEPT ![mod].vbit = TRUE] = S
  <2>1. a \in 0 .. t.capa-1 /\ n \in 0 .. t.capa-1 /\ ~(n < a) /\ e \in Slots(t)
    BY <1>0, <1>4 DEF Gate
  <2>2. S \in [Slots(t) -> Records(t)]
    BY <1>0, <1>4, <2>1, ShiftFacts
  <2>3. S[Right(t, e, n)] = t.table[Right(t, e, n)]
    BY <1>0, <1>4, <2>1, ShiftFacts
  <2>. DEFINE w == TRUE
  <2>4. S[mod].vbit = w
    <3>1. S[mod] = t.table[mod] /\ t.table[mod].vbit \in BOOLEAN
      BY <1>0, <1>1, <1>4, <2>3, TableFacts
    <3>. HIDE DEF S
    <3>. QED  BY <3>1
  <2>. HIDE DEF S, mod, w
  <2>5. S[mod] \in Records(t)
    BY <1>1, <2>2
  <2>6. [S[mod] EXCEPT !.vbit = w] = S[mod]
    BY <2>4, <2>5 DEF Records
  <2>7. [S EXCEPT ![mod].vbit = w] = S
    BY <1>1, <2>2, <2>6
  <2>. QED  BY <2>7 DEF w
<1>. DEFINE w == FALSE
<1>7. Put(t, key, val) = Grown(t, InsertTable(t, e, Right(t, e, a), Mod(t, key), Quo(t, key), val, w))
  BY <1>4, <1>5, <1>6 DEF InsertTable
<1>8. w \in BOOLEAN /\ (w <=> a = 0 \/ a + h[Right(t, e, a)] < n)
  BY <1>0, <1>4
<1>9. Right(t, e, n) = Mod(t, key) /\ Gate(t, h, e, a, n)
  BY <1>4
<1>. HIDE DEF w, S, mod, quo, ass
<1>. QED  BY <1>7, <1>8, <1>9, Inserts

\* set, the key being there: the value is replaced.
LEMMA PutUpdate ==
  ASSUME NEW t, NEW h, Sound(t, h), NEW key \in Keys, NEW val \in 0 .. ValMask-1,
         key \in HeldKeys(t, h)
  PROVE  /\ \E g : Sound(Put(t, key, val), g)
         /\ Contents(Put(t, key, val)) = Updated(Contents(t), key, val)
         /\ Put(t, key, val).capa = t.capa
<1>. DEFINE mod == Mod(t, key)
            at == FindItem(t, FindAssCbit(t, mod).group, Quo(t, key))
            u == Put(t, key, val)
<1>0. /\ WellFormed(t) /\ Placed(t, h) /\ HasSlots(t) /\ Vacant(t) # {}
      /\ t.capa \in Nat /\ t.capa >= 2 /\ t.table \in [Slots(t) -> Records(t)]
      /\ Taken(t) \subseteq Slots(t)
      /\ \A s \in Slots(t) : s \in Taken(t) <=> ~IsVacant(t, s)
  BY TableFacts DEF Sound, HasSlots, WellFormed, Records
<1>1. t.table[mod].vbit
  BY NoGroup
<1>2. ~IsVacant(t, mod) /\ at = {s \in Taken(t) : KeyIn(t, h, s) = key}
  BY <1>1, FindsKey
<1>3. PICK r \in Taken(t) : KeyIn(t, h, r) = key
  BY DEF HeldKeys
<1>4. \A s \in Taken(t) : KeyIn(t, h, s) = key => s = r
  BY <1>3 DEF Sound
<1>5. at = {r}
  BY <1>2, <1>3, <1>4
<1>6. u = [t EXCEPT !.table[r].val = val]
  <2>1. at # {} /\ (CHOOSE j \in at : TRUE) = r
    BY <1>5
  <2>2. u = [t EXCEPT !.table[CHOOSE j \in at : TRUE].val = val]
    BY <1>1, <1>2, <2>1 DEF Put
  <2>. QED  BY <2>1, <2>2
<1>. DEFINE tab == [t.table EXCEPT ![r].val = val]
<1>7. /\ DOMAIN u = {"table", "size", "capa"} /\ u.capa = t.capa /\ u.size = t.size
      /\ u.table = tab
  <2>. HIDE DEF u
  <2>1. DOMAIN t = {"table", "size", "capa"}
    BY <1>0 DEF WellFormed
  <2>2. u = [t EXCEPT !.table = tab]
    BY <1>6
  <2>. HIDE DEF tab
  <2>. QED  BY <2>1, <2>2
<1>8. \A s \in Slots(t) : /\ tab[s].quo = t.table[s].quo /\ tab[s].vbit = t.table[s].vbit
                          /\ tab[s].cbit = t.table[s].cbit
                          /\ tab[s].val = IF s = r THEN val ELSE t.table[s].val
                          /\ tab[s] \in Records(t)
  <2>1. SUFFICES ASSUME NEW s \in Slots(t)
                 PROVE  /\ tab[s].quo = t.table[s].quo /\ tab[s].vbit = t.table[s].vbit
                        /\ tab[s].cbit = t.table[s].cbit
                        /\ tab[s].val = IF s = r THEN val ELSE t.table[s].val
                        /\ tab[s] \in Records(t)
    OBVIOUS
  <2>. DEFINE x == t.table[s]
  <2>2. tab[s] = IF s = r THEN [x EXCEPT !.val = val] ELSE x
    BY <1>0
  <2>3. x \in Records(t)
    BY <1>0
  <2>. HIDE DEF x, tab
  <2>4. val \in 0 .. ValMask
    BY CompactAssumption
  <2>5. [x EXCEPT !.val = val] = [quo |-> x.quo, val |-> val, vbit |-> x.vbit, cbit |-> x.cbit]
        /\ [x EXCEPT !.val = val] \in Records(t)
    BY <2>3, <2>4 DEF Records
  <2>. DEFINE y == [x EXCEPT !.val = val]
              vb == x.vbit
              cb == x.cbit
  <2>6. y = [quo |-> x.quo, val |-> val, vbit |-> vb, cbit |-> cb] /\ y \in Records(t)
    BY <2>5
  <2>7. tab[s] = IF s = r THEN y ELSE x
    BY <2>2
  <2>. HIDE DEF y, vb, cb
  <2>8. y.quo = x.quo /\ y.val = val /\ y.vbit = vb /\ y.cbit = cb
    BY <2>6
  <2>9. CASE s = r
    BY <2>6, <2>7, <2>8, <2>9 DEF x, vb, cb
  <2>10. CASE s # r
    BY <2>3, <2>7, <2>10 DEF x
  <2>. QED  BY <2>9, <2>10
<1>9. tab = [s \in Slots(t) |-> tab[s]]
  BY <1>0
<1>. HIDE DEF tab, u, at
<1>10. Slots(u) = Slots(t) /\ \A x, d : Right(u, x, d) = Right(t, x, d)
  BY <1>7, SameCapa
<1>11. \A s \in Slots(t) : IsVacant(u, s) <=> IsVacant(t, s)
  <2>1. val # ValMask
    BY CompactAssumption
  <2>2. ~IsVacant(t, r)
    BY <1>0
  <2>. QED  BY <1>7, <1>8, <2>1, <2>2 DEF IsVacant
<1>12. Taken(u) = Taken(t)
  BY <1>10, <1>11 DEF Taken, Vacant
<1>13. \A s \in Slots(t) : Home(u, h, s) = Home(t, h, s) /\ KeyIn(u, h, s) = KeyIn(t, h, s)
  BY <1>7, <1>8, <1>10 DEF KeyIn, KeyAt, Home
<1>14. Placed(u, h)
  <2>1. \A s \in Slots(t) : Right(t, s, 1) \in Slots(t)
    <3>1. 1 \in 0 .. t.capa
      BY <1>0
    <3>. QED  BY <1>0, <3>1, RightWraps
  <2>2. h \in [Slots(u) -> Int]
    BY <1>0, <1>10 DEF Placed
  <2>3. ASSUME NEW s \in Slots(t)
        PROVE  /\ h[s] >= -1 /\ (h[s] = -1 <=> IsVacant(u, s))
               /\ h[s] <= h[Right(u, s, 1)] + 1
               /\ u.table[Right(u, s, 1)].cbit <=> h[s] <= h[Right(u, s, 1)] \/ h[Right(u, s, 1)] = -1
    <3>1. u.table[Right(u, s, 1)].cbit = t.table[Right(t, s, 1)].cbit
      BY <1>7, <1>8, <1>10, <2>1
    <3>. QED  BY <1>0, <1>10, <1>11, <3>1 DEF Placed
  <2>4. ASSUME NEW m \in Slots(t)
        PROVE  u.table[m].vbit <=> \E s \in Slots(t) : h[s] >= 0 /\ Home(u, h, s) = m
    <3>1. u.table[m].vbit = t.table[m].vbit
      BY <1>7, <1>8
    <3>2. t.table[m].vbit <=> \E s \in Slots(t) : h[s] >= 0 /\ Home(t, h, s) = m
      BY <1>0 DEF Placed
    <3>. QED  BY <1>13, <3>1, <3>2
  <2>. QED  BY <1>10, <2>2, <2>3, <2>4 DEF Placed
<1>15. WellFormed(u)
  <2>1. u.table \in [Slots(u) -> Records(t)]
    BY <1>7, <1>8, <1>9, <1>10
  <2>. QED  BY <1>0, <1>7, <1>12, <2>1 DEF WellFormed, Records, QuoSize
<1>16. Sound(u, h)
  <2>1. \A s, q \in Taken(u) : KeyIn(u, h, s) = KeyIn(u, h, q) => s = q
    BY <1>0, <1>12, <1>13 DEF Sound
  <2>. QED  BY <1>14, <1>15, <2>1 DEF Sound
<1>17. HeldKeys(u, h) = HeldKeys(t, h)
  BY <1>0, <1>12, <1>13 DEF HeldKeys
<1>18. Contents(u) = Updated(Contents(t), key, val)
  <2>. DEFINE f == Updated(Contents(t), key, val)
  <2>1. /\ DOMAIN Contents(t) = HeldKeys(t, h)
        /\ \A s \in Taken(t) : Contents(t)[KeyIn(t, h, s)] = t.table[s].val
    BY ContentsFacts
  <2>2. f = [k \in HeldKeys(u, h) |-> IF k = key THEN val ELSE Contents(t)[k]]
    BY <1>17, <2>1 DEF Updated
  <2>3. f = [k \in HeldKeys(u, h) |-> f[k]]
    BY <2>2
  <2>4. ASSUME NEW s \in Taken(t) PROVE f[KeyIn(u, h, s)] = u.table[s].val
    <3>1. s \in Slots(t) /\ KeyIn(u, h, s) = KeyIn(t, h, s) /\ KeyIn(t, h, s) \in HeldKeys(u, h)
      BY <1>0, <1>13, <1>17 DEF HeldKeys
    <3>2. u.table[s].val = IF s = r THEN val ELSE t.table[s].val
      BY <1>7, <1>8, <3>1
    <3>3. s = r <=> KeyIn(t, h, s) = key
      BY <1>3, <1>4
    <3>. QED  BY <2>1, <2>2, <3>1, <3>2, <3>3
  <2>. HIDE DEF f
  <2>5. \A s \in Taken(u) : f[KeyIn(u, h, s)] = u.table[s].val
    BY <1>12, <2>4
  <2>6. Contents(u) = f
    BY <1>16, <2>3, <2>5, ContentsAre
  <2>. QED  BY <2>6 DEF f
<1>. QED  BY <1>7, <1>16, <1>18 DEF u

\* set on a table with room: the table stays sound, holds the key with the
\* value, and every other item as before.
LEMMA PutFacts ==
  ASSUME NEW t, \E h : Sound(t, h), ~Full(t), NEW key \in Keys, NEW val \in 0 .. ValMask-1
  PROVE  /\ \E g : Sound(Put(t, key, val), g)
         /\ Contents(Put(t, key, val)) = Updated(Contents(t), key, val)
         /\ Put(t, key, val).capa = t.capa
<1>1. PICK h : Sound(t, h)
  OBVIOUS
<1>2. CASE key \in HeldKeys(t, h)
  BY <1>1, <1>2, PutUpdate
<1>3. CASE key \notin HeldKeys(t, h)
  <2>1. CASE t.table[Mod(t, key)].vbit
    BY <1>1, <1>3, <2>1, PutExtend
  <2>2. CASE ~t.table[Mod(t, key)].vbit /\ IsVacant(t, Mod(t, key))
    BY <1>1, <2>2, PutVacant
  <2>3. CASE ~t.table[Mod(t, key)].vbit /\ ~IsVacant(t, Mod(t, key))
    BY <1>1, <2>3, PutNewGroup
  <2>. QED  BY <2>1, <2>2, <2>3
<1>. QED  BY <1>2, <1>3

----------------------------------------------------------------------------
(* clone.                                                                  *)

\* An empty table is sound and has room.
LEMMA NewTableFacts ==
  ASSUME NEW c \in 1 .. Univ, c >= MinCapa, Univ % c = 0
  PROVE  /\ \E g : Sound(NewTable(c), g)
         /\ Contents(NewTable(c)) = [k \in {} |-> 0]
         /\ NewTable(c).capa = c
<1>. DEFINE t == NewTable(c)
            h == [s \in 0 .. c-1 |-> -1]
<1>0. c \in Nat /\ c >= 2 /\ c \in Nat \ {0} /\ MaxSizeOf(c) \in Nat /\ Univ \in Nat /\ ValMask \in Nat \ {0}
  <2>1. c \in Nat
    OBVIOUS
  <2>2. Univ \in Nat /\ ValMask \in Nat \ {0}
    BY CompactAssumption
  <2>3. c >= 2 /\ MaxSizeOf(c) \in Nat
    BY <2>1, CapaBounds
  <2>. QED  BY <2>1, <2>2, <2>3
<1>1. /\ DOMAIN t = {"table", "size", "capa"} /\ t.capa = c /\ t.size = 0
      /\ t.table = [j \in 0 .. c-1 |-> FreeSlot]
  BY DEF NewTable
<1>. HIDE DEF t
<1>2. Slots(t) = 0 .. c-1 /\ HasSlots(t)
  BY <1>0, <1>1 DEF Slots, HasSlots
<1>3. \A s \in Slots(t) : t.table[s] = FreeSlot
  BY <1>1, <1>2
<1>4. FreeSlot.val = ValMask /\ ~FreeSlot.vbit /\ FreeSlot.cbit
  BY DEF FreeSlot
<1>5. Taken(t) = {}
  BY <1>3, <1>4 DEF Taken, Vacant, IsVacant
<1>6. WellFormed(t)
  <2>1. QuoSize(t) \in Nat /\ QuoSize(t) >= 1
    <3>1. Univ = c * (Univ \div c) + (Univ % c) /\ Univ \div c \in Nat
      BY <1>0
    <3>2. Univ \div c # 0
      BY <1>0, <3>1
    <3>. QED  BY <1>1, <3>1, <3>2 DEF QuoSize
  <2>2. FreeSlot \in [quo : 0 .. QuoSize(t)-1, val : 0 .. ValMask, vbit : BOOLEAN, cbit : BOOLEAN]
    BY <1>0, <2>1 DEF FreeSlot
  <2>3. t.table \in [Slots(t) -> [quo : 0 .. QuoSize(t)-1, val : 0 .. ValMask, vbit : BOOLEAN, cbit : BOOLEAN]]
    BY <1>1, <1>2, <2>2
  <2>4. t.size = Cardinality(Taken(t)) /\ t.size <= MaxSizeOf(t.capa)
    BY <1>0, <1>1, <1>5, FS_EmptySet
  <2>. QED  BY <1>1, <2>3, <2>4 DEF WellFormed
<1>7. Placed(t, h)
  <2>1. \A s \in Slots(t) : Right(t, s, 1) \in Slots(t)
    <3>1. 1 \in 0 .. t.capa
      BY <1>0, <1>1
    <3>. QED  BY <1>2, <3>1, RightWraps
  <2>2. h \in [Slots(t) -> Int] /\ \A s \in Slots(t) : h[s] = -1
    BY <1>2
  <2>3. \A s \in Slots(t) : IsVacant(t, s) /\ ~t.table[s].vbit /\ t.table[s].cbit
    BY <1>3, <1>4 DEF IsVacant
  <2>. HIDE DEF h
  <2>. QED  BY <2>1, <2>2, <2>3 DEF Placed
<1>8. Sound(t, h)
  BY <1>5, <1>6, <1>7 DEF Sound
<1>9. HeldKeys(t, h) = {}
  BY <1>5 DEF HeldKeys
<1>10. Contents(t) = [k \in {} |-> 0]
  BY <1>8, <1>9, ContentsFacts
<1>. QED  BY <1>1, <1>8, <1>10 DEF t

\* There is a legal table of twice the capacity, as long as the universe has
\* as many keys.
LEMMA DoubleCapa ==
  ASSUME NEW t, WellFormed(t), t.capa < Univ
  PROVE  2 * t.capa \in 1 .. Univ /\ 2 * t.capa >= MinCapa /\ Univ % (2 * t.capa) = 0
<1>. DEFINE c == t.capa
            m == QuoSize(t)
<1>0. c \in Nat \ {0} /\ c \in 1 .. Univ /\ c >= MinCapa /\ Univ % c = 0 /\ Univ \in Nat /\ MinCapa \in Nat
  BY TableFacts, CompactAssumption DEF WellFormed
<1>1. m \in Nat /\ Univ = c * m /\ c < Univ
  BY UniverseSplits
<1>. HIDE DEF c, m
<1>2. m # 0 /\ m # 1
  BY <1>0, <1>1
<1>3. PICK j \in Nat : m = j + 2
  <2>1. m - 2 \in Nat /\ m = (m - 2) + 2
    BY <1>1, <1>2
  <2>. QED  BY <2>1
<1>4. c * m = c * j + 2 * c /\ c * j \in Nat
  BY <1>0, <1>3
<1>5. 2 * c <= Univ /\ 2 * c \in 1 .. Univ /\ 2 * c >= MinCapa
  BY <1>0, <1>1, <1>4
<1>6. Univ % (2 * c) = 0
  BY <1>0, <1>5, CompactAssumption
<1>. QED  BY <1>5, <1>6 DEF c

\* A copy of a part of a table, in a table twice as large, has room.
LEMMA CopyRoom ==
  ASSUME NEW t, NEW h, Sound(t, h), NEW u, NEW g, Sound(u, g), u.capa = 2 * t.capa,
         DOMAIN Contents(u) \subseteq DOMAIN Contents(t)
  PROVE  ~Full(u)
<1>1. /\ t.capa \in Nat /\ t.capa >= MinCapa /\ t.size \in Nat /\ u.size \in Nat
      /\ t.size <= MaxSizeOf(t.capa)
  BY TableFacts DEF Sound, WellFormed
<1>2. /\ DOMAIN Contents(t) = HeldKeys(t, h) /\ IsFiniteSet(HeldKeys(t, h))
      /\ Cardinality(HeldKeys(t, h)) = t.size
  BY ContentsFacts
<1>3. DOMAIN Contents(u) = HeldKeys(u, g) /\ Cardinality(HeldKeys(u, g)) = u.size
  BY ContentsFacts
<1>4. u.size <= t.size
  BY <1>2, <1>3, FS_Subset
<1>5. MaxSizeOf(t.capa) < MaxSizeOf(2 * t.capa) /\ MaxSizeOf(t.capa) \in Nat
  BY <1>1, CapaBounds
<1>6. MaxSizeOf(2 * t.capa) \in Nat
  <2>1. 2 * t.capa \in Nat /\ 2 * t.capa >= MinCapa
    BY <1>1, CompactAssumption
  <2>. QED  BY <2>1, CapaBounds
<1>. QED  BY <1>1, <1>4, <1>5, <1>6 DEF Full

\* The slots the walk has passed: all of them once it has come around.
Passed(t, b, x, done) == {s \in Slots(t) : done \/ Offset(t, b, s) < Offset(t, b, x)}

\* The walk passes one slot at a time.
LEMMA PassedStep ==
  ASSUME NEW t, HasSlots(t), NEW b \in Slots(t), NEW x \in Slots(t), NEW done \in BOOLEAN
  PROVE  /\ Right(t, x, 1) \in Slots(t) /\ Left(t, Right(t, x, 1), 1) = x
         /\ Passed(t, b, Right(t, x, 1), done \/ Right(t, x, 1) = b) = Passed(t, b, x, done) \cup {x}
<1>. DEFINE c == t.capa
            y == Right(t, x, 1)
            O(s) == Offset(t, b, s)
<1>0. c \in Nat /\ c >= 2 /\ 1 \in 0 .. c
  BY DEF HasSlots
<1>1. y \in Slots(t)
  BY <1>0, RightWraps
<1>2. Left(t, y, 1) = x
  <2>1. Left(t, y, 1) = (IF 1 <= y THEN y - 1 ELSE y + c - 1) /\ y = (IF x + 1 < c THEN x + 1 ELSE x + 1 - c)
    BY <1>0, <1>1, LeftWraps, RightWraps
  <2>2. x \in 0 .. c-1
    BY DEF Slots
  <2>. HIDE DEF y, c
  <2>. QED  BY <1>0, <2>1, <2>2
<1>3. \A s \in Slots(t) : O(s) \in 0 .. c-1 /\ Right(t, b, O(s)) = s
  BY AtOffset
<1>4. \A p \in 0 .. c-1 : Offset(t, b, Right(t, b, p)) = p
  BY AtOffset
<1>5. O(b) = 0
  BY <1>0, <1>4, AtOffset
<1>6. y = Right(t, b, O(x) + 1)
  <2>1. O(x) \in Nat /\ 1 \in Nat /\ O(x) + 1 <= t.capa
    BY <1>0, <1>3
  <2>2. Right(t, Right(t, b, O(x)), 1) = Right(t, b, O(x) + 1)
    BY <2>1, RightRight
  <2>. QED  BY <1>3, <2>2
<1>7. CASE O(x) + 1 = c
  <2>1. y = b
    BY <1>6, <1>7, AtOffset
  <2>2. \A s \in Slots(t) : s # x => O(s) < O(x)
    <3>1. \A s \in Slots(t) : O(s) = O(x) => s = x
      BY <1>3
    <3>. HIDE DEF O, y, c
    <3>. QED  BY <1>0, <1>3, <1>7, <3>1
  <2>3. Passed(t, b, y, done \/ y = b) = Slots(t)
    BY <2>1 DEF Passed
  <2>4. Passed(t, b, x, done) \cup {x} = Slots(t)
    BY <2>2 DEF Passed
  <2>. QED  BY <1>1, <1>2, <2>3, <2>4
<1>8. CASE O(x) + 1 # c
  <2>1. O(y) = O(x) + 1
    <3>1. O(x) + 1 \in 0 .. c-1
      BY <1>0, <1>3, <1>8
    <3>. QED  BY <1>4, <1>6, <3>1
  <2>2. y # b
    <3>1. O(x) \in Nat
      BY <1>3
    <3>. HIDE DEF O, y
    <3>. QED  BY <1>5, <2>1, <3>1
  <2>3. \A s \in Slots(t) : O(s) < O(y) <=> O(s) < O(x) \/ s = x
    <3>1. \A s \in Slots(t) : O(s) = O(x) => s = x
      BY <1>3
    <3>. HIDE DEF O, y, c
    <3>. QED  BY <1>0, <1>3, <2>1, <3>1
  <2>4. Passed(t, b, y, done \/ y = b) = {s \in Slots(t) : done \/ O(s) < O(y)}
    BY <2>2 DEF Passed
  <2>5. Passed(t, b, x, done) = {s \in Slots(t) : done \/ O(s) < O(x)}
    BY DEF Passed
  <2>. HIDE DEF O, y
  <2>6. {s \in Slots(t) : done \/ O(s) < O(y)} = {s \in Slots(t) : done \/ O(s) < O(x)} \cup {x}
    BY <2>3
  <2>7. Passed(t, b, y, done \/ y = b) = Passed(t, b, x, done) \cup {x}
    BY <2>4, <2>5, <2>6
  <2>. QED  BY <1>1, <1>2, <2>7 DEF y
<1>. QED  BY <1>7, <1>8

\* No group lies between a group and what is behind the mod of the group to
\* its left: the walk meets the mods in the order of their groups.
LEMMA NoModBefore ==
  ASSUME NEW t, HasSlots(t), Vacant(t) # {}, NEW h, Placed(t, h),
         NEW s \in Slots(t), NEW r, r = Right(t, s, 1), h[r] >= 0,
         NEW d \in 0 .. h[r]-1, h[s] <= d
  PROVE  ~t.table[Right(t, r, d)].vbit
<1>0. t.capa \in Nat /\ t.capa >= 2 /\ 1 \in 0 .. t.capa /\ r \in Slots(t) /\ h \in [Slots(t) -> Int]
  <2>1. t.capa \in Nat /\ t.capa >= 2 /\ 1 \in 0 .. t.capa
    BY DEF HasSlots
  <2>2. r \in Slots(t)
    BY <2>1, RightWraps
  <2>. QED  BY <2>1, <2>2 DEF Placed
<1>1. SUFFICES ASSUME t.table[Right(t, r, d)].vbit PROVE FALSE
  OBVIOUS
<1>2. PICK e \in Slots(t) : IsVacant(t, e)
  BY DEF Vacant
<1>3. PICK p \in 1 .. t.capa-1 : /\ Right(t, e, p) = r
                                 /\ h[r] \in Nat /\ p + h[r] \in p .. t.capa-1
  BY <1>0, <1>2, Position
<1>4. s = Right(t, e, p - 1)
  <2>1. Right(t, e, p - 1) \in Slots(t)
    <3>1. p - 1 \in 0 .. t.capa
      BY <1>0
    <3>. QED  BY <1>2, <3>1, RightWraps
  <2>2. Right(t, Right(t, e, p - 1), 1) = Right(t, e, p)
    <3>1. p - 1 \in Nat /\ 1 \in Nat /\ (p - 1) + 1 = p /\ p <= t.capa
      BY <1>0
    <3>2. Right(t, Right(t, e, p - 1), 1) = Right(t, e, (p - 1) + 1)
      BY <1>2, <3>1, RightRight
    <3>. QED  BY <3>1, <3>2
  <2>3. Left(t, Right(t, s, 1), 1) = s /\ Left(t, Right(t, Right(t, e, p - 1), 1), 1) = Right(t, e, p - 1)
    <3>. DEFINE w == TRUE
                z == Right(t, e, p - 1)
    <3>1. w \in BOOLEAN /\ z \in Slots(t)
      BY <2>1
    <3>. HIDE DEF w, z
    <3>2. Left(t, Right(t, s, 1), 1) = s
      BY <3>1, PassedStep
    <3>3. Left(t, Right(t, z, 1), 1) = z
      BY <3>1, PassedStep
    <3>. QED  BY <3>2, <3>3 DEF z
  <2>. QED  BY <1>3, <2>2, <2>3
<1>5. /\ p + d \in 0 .. t.capa-1 /\ p + d < p + h[r] /\ p \in Nat /\ d \in Nat /\ p + d <= t.capa
  BY <1>0, <1>3
<1>6. Right(t, r, d) = Right(t, e, p + d)
  BY <1>2, <1>3, <1>5, RightRight
<1>7. PICK q \in 1 .. t.capa-1 : h[Right(t, e, q)] >= 0 /\ q + h[Right(t, e, q)] = p + d
  BY <1>1, <1>2, <1>5, <1>6, VbitsAlong
<1>8. h[Right(t, e, q)] \in Int /\ q \in 0 .. t.capa
  <2>1. q \in 0 .. t.capa /\ q \in 0 .. t.capa-1
    BY <1>0
  <2>. QED  BY <1>2, <2>1, Neighbours
<1>9. CASE q >= p
  <2>1. q \in p .. t.capa
    BY <1>0, <1>9
  <2>2. h[Right(t, e, q)] >= p + h[Right(t, e, p)] - q
    BY <1>2, <1>3, <2>1, Reach
  <2>. QED  BY <1>3, <1>5, <1>7, <1>8, <2>2
<1>10. CASE q < p
  <2>1. p - 1 \in q .. t.capa
    BY <1>0, <1>10
  <2>2. h[Right(t, e, p - 1)] >= q + h[Right(t, e, q)] - (p - 1)
    BY <1>2, <1>7, <2>1, Reach
  <2>3. h[s] >= (p + d) - (p - 1) /\ h[s] \in Int
    BY <1>0, <1>3, <1>4, <1>5, <1>7, <1>8, <2>2
  <2>. QED  BY <1>5, <2>3
<1>. QED  BY <1>3, <1>9, <1>10

----------------------------------------------------------------------------
(* The inductive invariant: both tables are sound, and the walk of clone   *)
(* has copied the items it has passed.                                     *)

\* The keys of the items that clone has walked past.
CopiedKeys(h) == {KeyIn(ht, h, s) : s \in Taken(ht) \cap Passed(ht, beg, i, completed)}

\* Where the walk is.  A search for a group starts behind a slot that is free
\* or whose item is at its mod; a search for the mod of a group has no mod
\* between it and that mod; an item is copied with its mod at hand.
Walk(h) ==
  /\ phase = "vacant" => ~completed /\ DOMAIN Contents(new_cht) = {}
  /\ phase \in {"seek", "home", "items", "done"} =>
       Contents(new_cht) = [k \in CopiedKeys(h) |-> Contents(ht)[k]]
  /\ phase = "seek" => h[Left(ht, i, 1)] <= 0
  /\ phase = "home" => /\ ~IsVacant(ht, i)
                       /\ \E e \in 0 .. h[i] :
                            /\ init_id = Right(ht, i, e)
                            /\ \A d \in e .. h[i]-1 : ~ht.table[Right(ht, i, d)].vbit
  /\ phase = "items" => ~IsVacant(ht, i) /\ init_id = Home(ht, h, i)
  /\ phase = "done" => completed

Phases == {"ready", "vacant", "seek", "home", "items", "done"}

IInv ==
  /\ \E h : Sound(ht, h) /\ Walk(h)
  /\ \E g : Sound(new_cht, g)
  /\ Contents(ht) = store
  /\ phase \in Phases
  /\ i \in Slots(ht) /\ beg \in Slots(ht) /\ init_id \in Slots(ht) /\ completed \in BOOLEAN
  /\ arg = NoArg \/ (arg.key \in Keys /\ arg.val \in 0 .. ValMask-1)
  /\ phase # "ready" => new_cht.capa = 2 * ht.capa

\* The table a new object has.
LEMMA SmallestTable ==
  /\ \E g : Sound(NewTable(MinCapa), g)
  /\ Contents(NewTable(MinCapa)) = [k \in {} |-> 0]
<1>1. MinCapa \in Nat /\ MinCapa >= MinCapa /\ MinCapa \in 1 .. Univ /\ Univ % MinCapa = 0
  BY CompactAssumption
<1>. QED  BY <1>1, NewTableFacts

LEMMA ZeroIsSlot ==
  ASSUME NEW t, \E h : Sound(t, h)
  PROVE  0 \in Slots(t)
<1>1. t.capa \in Nat \ {0} /\ Slots(t) = 0 .. t.capa-1
  BY TableFacts DEF Sound
<1>. QED  BY <1>1

\* The invariant holds at first, and each action preserves it.
LEMMA InitInv == Init => IInv
<1>. SUFFICES ASSUME Init PROVE IInv
  OBVIOUS
<1>1. ht = NewTable(MinCapa) /\ new_cht = NewTable(MinCapa) /\ store = [k \in {} |-> 0]
  BY DEF Init
<1>2. (\E h : Sound(ht, h)) /\ (\E g : Sound(new_cht, g)) /\ Contents(ht) = store
  BY <1>1, SmallestTable
<1>3. i \in Slots(ht) /\ beg \in Slots(ht) /\ init_id \in Slots(ht)
  BY <1>2, ZeroIsSlot DEF Init
<1>4. phase = "ready" /\ completed = FALSE /\ arg = NoArg
  BY DEF Init
<1>5. \A h : Walk(h)
  BY <1>4 DEF Walk
<1>. QED  BY <1>2, <1>3, <1>4, <1>5 DEF IInv, Phases

\* What set is called with.
LEMMA CallArguments ==
  ASSUME NEW k \in KeysUsed, NEW v \in Value[k]
  PROVE  k \in Keys /\ v \in 0 .. ValMask-1
BY CallsAssumption

LEMMA SetInv ==
  ASSUME IInv, NEW k \in KeysUsed, NEW v \in Value[k], Set(k, v)
  PROVE  IInv'
<1>1. /\ phase = "ready" /\ ~Full(ht) /\ ht' = Put(ht, k, v) /\ phase' = phase
      /\ i' = i /\ beg' = beg /\ init_id' = init_id /\ completed' = completed
      /\ arg' = arg /\ new_cht' = new_cht
      /\ store' = Updated(store, k, v)
  BY DEF Set, Store, Updated, loopVars
<1>2. k \in Keys /\ v \in 0 .. ValMask-1
  BY CallArguments
<1>3. /\ \E g : Sound(ht', g)
      /\ Contents(ht') = Updated(Contents(ht), k, v)
      /\ ht'.capa = ht.capa
  <2>1. \E h : Sound(ht, h)
    BY DEF IInv
  <2>2. /\ \E g : Sound(Put(ht, k, v), g)
        /\ Contents(Put(ht, k, v)) = Updated(Contents(ht), k, v)
        /\ Put(ht, k, v).capa = ht.capa
    BY <1>1, <1>2, <2>1, PutFacts
  <2>. QED  BY <1>1, <2>2
<1>4. Contents(ht)' = store'
  BY <1>1, <1>3 DEF IInv
<1>5. Slots(ht)' = Slots(ht)
  BY <1>3 DEF Slots
<1>6. \A h : Walk(h)'
  BY <1>1 DEF Walk
<1>7. /\ i' \in Slots(ht)' /\ beg' \in Slots(ht)' /\ init_id' \in Slots(ht)' /\ completed' \in BOOLEAN
      /\ phase' \in Phases /\ phase' = "ready"
      /\ arg' = NoArg \/ (arg'.key \in Keys /\ arg'.val \in 0 .. ValMask-1)
      /\ \E g : Sound(new_cht', g)
  BY <1>1, <1>5 DEF IInv
<1>8. \E h : Sound(ht', h) /\ Walk(h)'
  BY <1>3, <1>6
<1>. QED  BY <1>4, <1>7, <1>8 DEF IInv

LEMMA BeginCloneInv ==
  ASSUME IInv, BeginClone, 2 * ht.capa \in 1 .. Univ,
         arg' = NoArg \/ (arg'.key \in Keys /\ arg'.val \in 0 .. ValMask-1)
  PROVE  IInv'
<1>1. /\ ht' = ht /\ store' = store /\ phase' = "vacant" /\ i' = 0 /\ beg' = 0 /\ init_id' = 0
      /\ completed' = FALSE /\ new_cht' = NewTable(2 * ht.capa)
  BY DEF BeginClone, Idle
<1>2. PICK h : Sound(ht, h)
  BY DEF IInv
<1>3. 2 * ht.capa >= MinCapa /\ Univ % (2 * ht.capa) = 0
  <2>1. WellFormed(ht) /\ ht.capa \in Nat \ {0} /\ Univ \in Nat
    BY <1>2, TableFacts, CompactAssumption DEF Sound
  <2>2. ht.capa < Univ
    BY <2>1
  <2>. QED  BY <2>1, <2>2, DoubleCapa
<1>4. /\ \E g : Sound(new_cht', g)
      /\ Contents(new_cht') = [k \in {} |-> 0]
      /\ new_cht'.capa = 2 * ht.capa
  <2>. DEFINE c == 2 * ht.capa
  <2>1. c \in 1 .. Univ /\ c >= MinCapa /\ Univ % c = 0
    BY <1>3
  <2>2. new_cht' = NewTable(c)
    BY <1>1
  <2>. HIDE DEF c
  <2>3. new_cht'.capa = c /\ (\E g : Sound(new_cht', g)) /\ Contents(new_cht') = [k \in {} |-> 0]
    BY <2>1, <2>2, NewTableFacts
  <2>. QED  BY <2>3 DEF c
<1>5. DOMAIN Contents(new_cht') = {}
  BY <1>4
<1>6. Walk(h)'
  BY <1>1, <1>5 DEF Walk
<1>7. Sound(ht', h) /\ 0 \in Slots(ht)'
  BY <1>1, <1>2, ZeroIsSlot
<1>. QED  BY <1>1, <1>4, <1>6, <1>7 DEF IInv, Phases

LEMMA BeginGrowInv ==
  ASSUME MaxCapa <= Univ, IInv, NEW k \in KeysUsed, NEW v \in Value[k], BeginGrow(k, v)
  PROVE  IInv'
<1>1. BeginClone /\ ht.capa < MaxCapa /\ arg'.key = k /\ arg'.val = v
  BY DEF BeginGrow, BeginClone
<1>2. k \in Keys /\ v \in 0 .. ValMask-1
  BY CallArguments
<1>3. PICK h : Sound(ht, h)
  BY DEF IInv
<1>4. 2 * ht.capa \in 1 .. Univ
  <2>1. WellFormed(ht) /\ ht.capa \in Nat \ {0} /\ Univ \in Nat /\ MaxCapa \in Nat
    BY <1>3, TableFacts, CompactAssumption, CallsAssumption DEF Sound
  <2>2. ht.capa < Univ
    BY <1>1, <2>1
  <2>. QED  BY <2>1, <2>2, DoubleCapa
<1>. QED  BY <1>1, <1>2, <1>4, BeginCloneInv

LEMMA CallCloneInv ==
  ASSUME IInv, CallClone
  PROVE  IInv'
<1>1. BeginClone /\ 2 * ht.capa <= Univ /\ arg' = NoArg
  BY DEF CallClone
<1>2. PICK h : Sound(ht, h)
  BY DEF IInv
<1>3. 2 * ht.capa \in 1 .. Univ
  <2>1. ht.capa \in Nat \ {0} /\ Univ \in Nat
    BY <1>2, TableFacts, CompactAssumption DEF Sound
  <2>. QED  BY <1>1, <2>1
<1>. QED  BY <1>1, <1>3, BeginCloneInv

\* What the steps of clone's loops need of the two tables.
LEMMA LoopFacts ==
  ASSUME NEW h, Sound(ht, h), i \in Slots(ht)
  PROVE  /\ HasSlots(ht) /\ Placed(ht, h) /\ WellFormed(ht) /\ Vacant(ht) # {}
         /\ ht.capa \in Nat /\ ht.capa >= 2
         /\ Taken(ht) \subseteq Slots(ht) /\ \A s \in Slots(ht) : s \in Taken(ht) <=> ~IsVacant(ht, s)
         /\ \A s \in Slots(ht) : h[s] \in Int /\ h[s] >= -1 /\ (h[s] = -1 <=> IsVacant(ht, s))
         /\ Right(ht, i, 1) \in Slots(ht) /\ Left(ht, Right(ht, i, 1), 1) = i
         /\ Left(ht, i, 1) \in Slots(ht) /\ Right(ht, Left(ht, i, 1), 1) = i
         /\ Right(ht, i, 0) = i /\ Right(ht, i, 1) # i
<1>1. HasSlots(ht) /\ Placed(ht, h) /\ WellFormed(ht) /\ Vacant(ht) # {} /\ ht.capa \in Nat /\ ht.capa >= 2
  BY TableFacts DEF Sound, HasSlots
<1>2. Taken(ht) \subseteq Slots(ht) /\ \A s \in Slots(ht) : s \in Taken(ht) <=> ~IsVacant(ht, s)
  BY <1>1, TableFacts
<1>3. \A s \in Slots(ht) : h[s] \in Int /\ h[s] >= -1 /\ (h[s] = -1 <=> IsVacant(ht, s))
  BY <1>1 DEF Placed
<1>4. 1 \in 0 .. ht.capa
  BY <1>1
<1>5. Right(ht, i, 1) \in Slots(ht) /\ Left(ht, i, 1) \in Slots(ht) /\ Right(ht, Left(ht, i, 1), 1) = i
  BY <1>1, <1>4, RightWraps, LeftRight
<1>6. Left(ht, Right(ht, i, 1), 1) = i
  <2>. DEFINE w == TRUE
  <2>1. w \in BOOLEAN
    OBVIOUS
  <2>. HIDE DEF w
  <2>. QED  BY <1>1, <2>1, PassedStep
<1>7. Right(ht, i, 0) = i /\ Right(ht, i, 1) # i
  <2>1. 0 \in 0 .. ht.capa-1 /\ 1 \in 0 .. ht.capa-1
    BY <1>1
  <2>2. Offset(ht, i, Right(ht, i, 0)) = 0 /\ Offset(ht, i, Right(ht, i, 1)) = 1 /\ Right(ht, i, 0) = i
    BY <1>1, <2>1, AtOffset
  <2>. QED  BY <2>2
<1>. QED  BY <1>1, <1>2, <1>3, <1>5, <1>6, <1>7

LEMMA FindVacantInv ==
  ASSUME IInv, FindVacant
  PROVE  IInv'
<1>1. /\ phase = "vacant" /\ ht' = ht /\ init_id' = init_id /\ completed' = completed /\ arg' = arg
      /\ new_cht' = new_cht /\ store' = store /\ i' = Right(ht, i, 1)
      /\ IF IsVacant(ht, i) THEN beg' = i /\ phase' = "seek" ELSE beg' = beg /\ phase' = phase
  BY DEF FindVacant
<1>2. PICK h : Sound(ht, h) /\ Walk(h)
  BY DEF IInv
<1>3. i \in Slots(ht) /\ beg \in Slots(ht) /\ completed \in BOOLEAN
  BY DEF IInv
<1>4. /\ HasSlots(ht) /\ Vacant(ht) # {} /\ Taken(ht) \subseteq Slots(ht)
      /\ \A s \in Slots(ht) : s \in Taken(ht) <=> ~IsVacant(ht, s)
      /\ \A s \in Slots(ht) : h[s] \in Int /\ h[s] >= -1 /\ (h[s] = -1 <=> IsVacant(ht, s))
      /\ Right(ht, i, 1) \in Slots(ht) /\ Left(ht, Right(ht, i, 1), 1) = i
      /\ Right(ht, i, 1) # i
  BY <1>2, <1>3, LoopFacts
<1>5. completed = FALSE /\ DOMAIN Contents(new_cht) = {}
  BY <1>1, <1>2, <1>3 DEF Walk
<1>6. Walk(h)'
  <2>1. CASE IsVacant(ht, i)
    <3>1. Passed(ht, i, Right(ht, i, 1), FALSE) = {i}
      <4>. DEFINE w == FALSE
      <4>1. w \in BOOLEAN /\ (w \/ Right(ht, i, 1) = i) = w
        BY <1>4
      <4>2. Passed(ht, i, i, w) = {}
        <5>1. \A s \in Slots(ht) : Offset(ht, i, s) \in Nat /\ Offset(ht, i, i) = 0
          <6>1. 0 \in 0 .. ht.capa-1 /\ \A n \in 0 .. ht.capa-1 : n \in Nat
            BY <1>4 DEF HasSlots
          <6>. QED  BY <1>3, <1>4, <6>1, AtOffset
        <5>. QED  BY <5>1 DEF Passed
      <4>. HIDE DEF w
      <4>3. Passed(ht, i, Right(ht, i, 1), w \/ Right(ht, i, 1) = i) = Passed(ht, i, i, w) \cup {i}
        BY <1>3, <1>4, <4>1, PassedStep
      <4>. QED  BY <4>1, <4>2, <4>3 DEF w
    <3>2. CopiedKeys(h)' = {}
      <4>1. CopiedKeys(h)' = {KeyIn(ht, h, s) : s \in Taken(ht) \cap Passed(ht, i, Right(ht, i, 1), FALSE)}
        BY <1>1, <1>5, <2>1 DEF CopiedKeys
      <4>2. Taken(ht) \cap {i} = {}
        BY <1>3, <1>4, <2>1
      <4>. QED  BY <3>1, <4>1, <4>2
    <3>3. Contents(new_cht) = [k \in {} |-> Contents(ht)[k]]
      <4>1. PICK g : Sound(new_cht, g)
        BY DEF IInv
      <4>2. /\ DOMAIN Contents(new_cht) = HeldKeys(new_cht, g)
            /\ Contents(new_cht) = [k \in HeldKeys(new_cht, g) |-> Contents(new_cht)[k]]
        BY <4>1, ContentsFacts
      <4>. QED  BY <1>5, <4>2
    <3>4. h[Left(ht, i', 1)] <= 0
      BY <1>1, <1>3, <1>4, <2>1
    <3>. QED  BY <1>1, <2>1, <3>2, <3>3, <3>4 DEF Walk
  <2>2. CASE ~IsVacant(ht, i)
    BY <1>1, <1>5, <2>2 DEF Walk
  <2>. QED  BY <2>1, <2>2
<1>7. phase' \in Phases /\ phase' # "ready" /\ beg' \in Slots(ht)
  BY <1>1, <1>3 DEF IInv, Phases
<1>. QED  BY <1>1, <1>2, <1>4, <1>6, <1>7 DEF IInv

LEMMA SeekInv ==
  ASSUME IInv, Seek
  PROVE  IInv'
<1>1. /\ phase = "seek" /\ ht' = ht /\ beg' = beg /\ arg' = arg /\ new_cht' = new_cht /\ store' = store
      /\ IF IsVacant(ht, i)
         THEN /\ i' = Right(ht, i, 1) /\ completed' = (completed \/ i' = beg)
              /\ init_id' = init_id /\ phase' = phase
         ELSE init_id' = i /\ phase' = "home" /\ i' = i /\ completed' = completed
  BY DEF Seek
<1>2. PICK h : Sound(ht, h) /\ Walk(h)
  BY DEF IInv
<1>3. i \in Slots(ht) /\ beg \in Slots(ht) /\ completed \in BOOLEAN
  BY DEF IInv
<1>4. /\ HasSlots(ht) /\ Placed(ht, h) /\ Vacant(ht) # {} /\ Taken(ht) \subseteq Slots(ht)
      /\ \A s \in Slots(ht) : s \in Taken(ht) <=> ~IsVacant(ht, s)
      /\ \A s \in Slots(ht) : h[s] \in Int /\ h[s] >= -1 /\ (h[s] = -1 <=> IsVacant(ht, s))
      /\ Right(ht, i, 1) \in Slots(ht) /\ Left(ht, Right(ht, i, 1), 1) = i
      /\ Left(ht, i, 1) \in Slots(ht) /\ Right(ht, Left(ht, i, 1), 1) = i
      /\ Right(ht, i, 0) = i
  BY <1>2, <1>3, LoopFacts
<1>5. Contents(new_cht) = [k \in CopiedKeys(h) |-> Contents(ht)[k]] /\ h[Left(ht, i, 1)] <= 0
  BY <1>1, <1>2 DEF Walk
<1>6. CASE IsVacant(ht, i)
  <2>1. CopiedKeys(h)' = CopiedKeys(h)
    <3>1. CopiedKeys(h)' = {KeyIn(ht, h, s) : s \in Taken(ht) \cap
                              Passed(ht, beg, Right(ht, i, 1), completed \/ Right(ht, i, 1) = beg)}
      BY <1>1, <1>6 DEF CopiedKeys
    <3>2. Passed(ht, beg, Right(ht, i, 1), completed \/ Right(ht, i, 1) = beg)
            = Passed(ht, beg, i, completed) \cup {i}
      BY <1>3, <1>4, PassedStep
    <3>3. Taken(ht) \cap (Passed(ht, beg, i, completed) \cup {i}) = Taken(ht) \cap Passed(ht, beg, i, completed)
      BY <1>3, <1>4, <1>6
    <3>. QED  BY <3>1, <3>2, <3>3 DEF CopiedKeys
  <2>2. h[Left(ht, i', 1)] <= 0
    BY <1>1, <1>3, <1>4, <1>6
  <2>3. Walk(h)'
    BY <1>1, <1>5, <1>6, <2>1, <2>2 DEF Walk
  <2>4. i' \in Slots(ht) /\ completed' \in BOOLEAN
    BY <1>1, <1>3, <1>4, <1>6
  <2>. QED  BY <1>1, <1>2, <1>6, <2>3, <2>4 DEF IInv
<1>7. CASE ~IsVacant(ht, i)
  <2>1. CopiedKeys(h)' = CopiedKeys(h)
    BY <1>1, <1>7 DEF CopiedKeys
  <2>2. h[i] \in Int /\ h[i] >= 0
    BY <1>3, <1>4, <1>7
  <2>3. \A d \in 0 .. h[i]-1 : ~ht.table[Right(ht, i, d)].vbit
    <3>1. SUFFICES ASSUME NEW d \in 0 .. h[i]-1 PROVE ~ht.table[Right(ht, i, d)].vbit
      OBVIOUS
    <3>. DEFINE s == Left(ht, i, 1)
    <3>2. s \in Slots(ht) /\ i = Right(ht, s, 1) /\ h[s] <= d /\ h[s] \in Int
      <4>1. s \in Slots(ht) /\ i = Right(ht, s, 1) /\ h[s] <= 0 /\ h[s] \in Int
        BY <1>4, <1>5
      <4>. HIDE DEF s
      <4>. QED  BY <2>2, <4>1
    <3>. HIDE DEF s
    <3>. QED  BY <1>4, <2>2, <3>2, NoModBefore
  <2>4. \E e \in 0 .. h[i] : i = Right(ht, i, e) /\ \A d \in e .. h[i]-1 : ~ht.table[Right(ht, i, d)].vbit
    <3>1. 0 \in 0 .. h[i]
      BY <2>2
    <3>. QED  BY <1>4, <2>3, <3>1
  <2>5. Walk(h)'
    BY <1>1, <1>5, <1>7, <2>1, <2>4 DEF Walk
  <2>6. phase' \in Phases
    BY <1>1, <1>7 DEF Phases
  <2>. QED  BY <1>1, <1>2, <1>3, <1>7, <2>5, <2>6 DEF IInv
<1>. QED  BY <1>6, <1>7

LEMMA FindHomeInv ==
  ASSUME IInv, FindHome
  PROVE  IInv'
<1>1. /\ phase = "home" /\ ht' = ht /\ i' = i /\ beg' = beg /\ completed' = completed /\ arg' = arg
      /\ new_cht' = new_cht /\ store' = store
      /\ IF ht.table[init_id].vbit
         THEN phase' = "items" /\ init_id' = init_id
         ELSE init_id' = Right(ht, init_id, 1) /\ phase' = phase
  BY DEF FindHome
<1>2. PICK h : Sound(ht, h) /\ Walk(h)
  BY DEF IInv
<1>3. i \in Slots(ht) /\ completed \in BOOLEAN
  BY DEF IInv
<1>4. /\ HasSlots(ht) /\ Placed(ht, h) /\ Vacant(ht) # {} /\ ht.capa \in Nat
      /\ \A s \in Slots(ht) : h[s] \in Int /\ h[s] >= -1 /\ (h[s] = -1 <=> IsVacant(ht, s))
  BY <1>2, <1>3, LoopFacts
<1>5. Contents(new_cht) = [k \in CopiedKeys(h) |-> Contents(ht)[k]] /\ ~IsVacant(ht, i)
  BY <1>1, <1>2 DEF Walk
<1>6. PICK e \in 0 .. h[i] : /\ init_id = Right(ht, i, e)
                             /\ \A d \in e .. h[i]-1 : ~ht.table[Right(ht, i, d)].vbit
  BY <1>1, <1>2 DEF Walk
<1>7. h[i] \in 0 .. ht.capa-1 /\ h[i] \in Nat
  <2>1. h[i] >= 0
    BY <1>3, <1>4, <1>5
  <2>. QED  BY <1>3, <1>4, <2>1, WayHome
<1>8. CopiedKeys(h)' = CopiedKeys(h)
  BY <1>1 DEF CopiedKeys
<1>9. CASE ht.table[init_id].vbit
  <2>1. e = h[i]
    <3>1. e \in Nat /\ e <= h[i]
      BY <1>7
    <3>2. e \notin e .. h[i]-1
      BY <1>6, <1>9
    <3>. QED  BY <1>7, <3>1, <3>2
  <2>2. init_id = Home(ht, h, i)
    BY <1>6, <2>1 DEF Home
  <2>3. Walk(h)'
    BY <1>1, <1>5, <1>8, <1>9, <2>2 DEF Walk
  <2>4. phase' \in Phases
    BY <1>1, <1>9 DEF Phases
  <2>. QED  BY <1>1, <1>2, <1>9, <2>3, <2>4 DEF IInv
<1>10. CASE ~ht.table[init_id].vbit
  <2>1. e # h[i]
    <3>1. ht.table[Home(ht, h, i)].vbit
      <4>1. Home(ht, h, i) \in Slots(ht) /\ h[i] >= 0
        BY <1>3, <1>4, <1>7, WayHome
      <4>. QED  BY <1>3, <1>4, <4>1 DEF Placed
    <3>. QED  BY <1>6, <1>10, <3>1 DEF Home
  <2>2. e + 1 \in 0 .. h[i] /\ \A d \in e+1 .. h[i]-1 : d \in e .. h[i]-1
    BY <1>7, <2>1
  <2>3. init_id' = Right(ht, i, e + 1)
    <3>1. e \in Nat /\ 1 \in Nat /\ e + 1 <= ht.capa
      BY <1>4, <1>7, <2>2
    <3>2. Right(ht, Right(ht, i, e), 1) = Right(ht, i, e + 1)
      BY <1>3, <1>4, <3>1, RightRight
    <3>. QED  BY <1>1, <1>6, <1>10, <3>2
  <2>4. \E f \in 0 .. h[i] : init_id' = Right(ht, i, f) /\ \A d \in f .. h[i]-1 : ~ht.table[Right(ht, i, d)].vbit
    BY <1>6, <2>2, <2>3
  <2>5. init_id' \in Slots(ht)
    <3>1. e + 1 \in 0 .. ht.capa
      BY <1>4, <1>7, <2>2
    <3>. QED  BY <1>3, <1>4, <2>3, <3>1, RightWraps
  <2>6. Walk(h)'
    BY <1>1, <1>5, <1>8, <1>10, <2>4 DEF Walk
  <2>. QED  BY <1>1, <1>2, <1>10, <2>5, <2>6 DEF IInv
<1>. QED  BY <1>9, <1>10

\* What is behind an item: the next item of its group; or the next group of
\* the cluster, whose mod is not left of the slot behind the item's mod; or,
\* behind the mod of the group, a free slot or a group that is not displaced.
LEMMA BehindItem ==
  ASSUME NEW t, HasSlots(t), Vacant(t) # {}, NEW h, Placed(t, h), NEW s \in Slots(t), h[s] >= 0,
         NEW r, r = Right(t, s, 1), NEW m, m = Right(t, Home(t, h, s), 1)
  PROVE  /\ r \in Slots(t) /\ m \in Slots(t)
         /\ ~t.table[r].cbit => h[r] >= 0 /\ Home(t, h, r) = Home(t, h, s)
         /\ t.table[r].cbit /\ r # m =>
              /\ h[r] >= 0 /\ h[s] \in 0 .. h[r] /\ m = Right(t, r, h[s])
              /\ \A d \in h[s] .. h[r]-1 : ~t.table[Right(t, r, d)].vbit
         /\ r = m => h[s] = 0
<1>0. /\ t.capa \in Nat /\ t.capa >= 2 /\ 1 \in 0 .. t.capa /\ 0 \in 0 .. t.capa-1
      /\ h[s] \in 0 .. t.capa-1 /\ h[s] \in Nat
      /\ Home(t, h, s) \in Slots(t) /\ Home(t, h, s) = Right(t, s, h[s])
      /\ \A d \in 0 .. h[s] : h[Right(t, s, d)] >= 0
  BY WayHome DEF HasSlots, Home
<1>1. r \in Slots(t) /\ m \in Slots(t) /\ h[r] \in Int /\ h[r] >= -1
  <2>1. r \in Slots(t) /\ m \in Slots(t)
    BY <1>0, RightWraps
  <2>. QED  BY <2>1 DEF Placed
<1>2. h[s] <= h[r] + 1 /\ (t.table[r].cbit <=> h[s] <= h[r] \/ h[r] = -1)
  BY DEF Placed
<1>3. h[s] = 0 => r = m
  <2>1. Right(t, s, 0) = s
    BY AtOffset
  <2>. QED  BY <1>0, <2>1
<1>4. r = m => h[s] = 0
  <2>. DEFINE w == TRUE
  <2>1. w \in BOOLEAN
    OBVIOUS
  <2>. HIDE DEF w
  <2>2. Left(t, r, 1) = s /\ Left(t, m, 1) = Home(t, h, s)
    BY <1>0, <2>1, PassedStep
  <2>3. ASSUME r = m PROVE h[s] = 0
    <3>1. Right(t, s, h[s]) = Right(t, s, 0)
      <4>1. Right(t, s, 0) = s
        BY AtOffset
      <4>. QED  BY <1>0, <2>2, <2>3, <4>1
    <3>2. Offset(t, s, Right(t, s, h[s])) = h[s] /\ Offset(t, s, Right(t, s, 0)) = 0
      BY <1>0, AtOffset
    <3>. QED  BY <3>1, <3>2
  <2>. QED  BY <2>3
<1>5. ASSUME ~t.table[r].cbit PROVE h[r] >= 0 /\ Home(t, h, r) = Home(t, h, s)
  <2>1. h[r] >= 0 /\ h[s] = 1 + h[r] /\ h[r] \in Nat
    BY <1>0, <1>1, <1>2, <1>5
  <2>2. 1 \in Nat /\ 1 + h[r] <= t.capa
    BY <1>0, <2>1
  <2>3. Right(t, Right(t, s, 1), h[r]) = Right(t, s, 1 + h[r])
    BY <2>1, <2>2, RightRight
  <2>. QED  BY <1>0, <2>1, <2>3 DEF Home
<1>6. ASSUME t.table[r].cbit, r # m
      PROVE  /\ h[r] >= 0 /\ h[s] \in 0 .. h[r] /\ m = Right(t, r, h[s])
             /\ \A d \in h[s] .. h[r]-1 : ~t.table[Right(t, r, d)].vbit
  <2>1. h[s] >= 1 /\ 1 \in 0 .. h[s]
    BY <1>0, <1>3, <1>6
  <2>2. h[r] >= 0
    BY <1>0, <2>1
  <2>3. h[s] \in 0 .. h[r]
    BY <1>0, <1>1, <1>2, <1>6, <2>2
  <2>4. m = Right(t, r, h[s])
    <3>1. 1 \in Nat /\ 1 + h[s] <= t.capa /\ h[s] + 1 <= t.capa /\ 1 + h[s] = h[s] + 1
      BY <1>0
    <3>2. Right(t, Right(t, s, 1), h[s]) = Right(t, s, 1 + h[s])
      BY <1>0, <3>1, RightRight
    <3>3. Right(t, Right(t, s, h[s]), 1) = Right(t, s, h[s] + 1)
      BY <1>0, <3>1, RightRight
    <3>. QED  BY <1>0, <3>1, <3>2, <3>3
  <2>5. ASSUME NEW d \in h[s] .. h[r]-1 PROVE ~t.table[Right(t, r, d)].vbit
    <3>1. d \in 0 .. h[r]-1 /\ h[s] <= d
      BY <1>0, <1>1, <2>2
    <3>. QED  BY <2>2, <3>1, NoModBefore
  <2>. QED  BY <2>2, <2>3, <2>4, <2>5
<1>. QED  BY <1>1, <1>4, <1>5, <1>6

\* Copying the item at i: the copy then holds the items the walk has passed
\* with it.
LEMMA ItemCopied ==
  ASSUME NEW h, Sound(ht, h), NEW g, Sound(new_cht, g), new_cht.capa = 2 * ht.capa,
         i \in Slots(ht), ~IsVacant(ht, i), beg \in Slots(ht), completed \in BOOLEAN,
         Contents(new_cht) = [k \in CopiedKeys(h) |-> Contents(ht)[k]],
         CopyItem, init_id = Home(ht, h, i)
  PROVE  /\ \E f : Sound(new_cht', f)
         /\ new_cht'.capa = 2 * ht.capa
         /\ Contents(new_cht') = [k \in CopiedKeys(h)' |-> Contents(ht)[k]]
<1>. DEFINE key == KeyIn(ht, h, i)
            val == ht.table[i].val
<1>1. /\ ht' = ht /\ beg' = beg /\ i' = Right(ht, i, 1) /\ completed' = (completed \/ i' = beg)
      /\ new_cht' = Put(new_cht, key, val)
  BY DEF CopyItem, KeyIn
<1>2. HasSlots(ht) /\ i \in Taken(ht) /\ val \in 0 .. ValMask-1
  BY TableFacts DEF Sound
<1>3. /\ DOMAIN Contents(ht) = HeldKeys(ht, h) /\ HeldKeys(ht, h) \subseteq Keys
      /\ Contents(ht)[key] = val
  BY <1>2, ContentsFacts
<1>4. key \in HeldKeys(ht, h) /\ CopiedKeys(h) \subseteq HeldKeys(ht, h)
  BY <1>2 DEF HeldKeys, CopiedKeys
<1>5. CopiedKeys(h)' = CopiedKeys(h) \cup {key}
  <2>1. CopiedKeys(h)' = {KeyIn(ht, h, s) : s \in Taken(ht) \cap
                            Passed(ht, beg, Right(ht, i, 1), completed \/ Right(ht, i, 1) = beg)}
    BY <1>1 DEF CopiedKeys
  <2>2. Passed(ht, beg, Right(ht, i, 1), completed \/ Right(ht, i, 1) = beg)
          = Passed(ht, beg, i, completed) \cup {i}
    BY <1>2, PassedStep
  <2>3. Taken(ht) \cap (Passed(ht, beg, i, completed) \cup {i})
          = (Taken(ht) \cap Passed(ht, beg, i, completed)) \cup {i}
    BY <1>2
  <2>. QED  BY <2>1, <2>2, <2>3 DEF CopiedKeys
<1>. HIDE DEF key, val
<1>6. ~Full(new_cht)
  <2>1. DOMAIN Contents(new_cht) \subseteq DOMAIN Contents(ht)
    BY <1>3, <1>4
  <2>. QED  BY <2>1, CopyRoom
<1>7. /\ \E f : Sound(new_cht', f)
      /\ Contents(new_cht') = Updated(Contents(new_cht), key, val)
      /\ new_cht'.capa = new_cht.capa
  <2>1. key \in Keys /\ \E f : Sound(new_cht, f)
    BY <1>3, <1>4
  <2>. QED  BY <1>1, <1>2, <1>6, <2>1, PutFacts
<1>8. Updated(Contents(new_cht), key, val) = [k \in CopiedKeys(h)' |-> Contents(ht)[k]]
  <2>1. DOMAIN Contents(new_cht) \cup {key} = CopiedKeys(h)'
    BY <1>5
  <2>2. \A k \in CopiedKeys(h)' : (IF k = key THEN val ELSE Contents(new_cht)[k]) = Contents(ht)[k]
    BY <1>3, <1>5
  <2>. QED  BY <2>1, <2>2 DEF Updated
<1>. QED  BY <1>7, <1>8

LEMMA CopyItemInv ==
  ASSUME IInv, CopyItem
  PROVE  IInv'
<1>1. /\ phase = "items" /\ ht' = ht /\ beg' = beg /\ arg' = arg /\ store' = store
      /\ i' = Right(ht, i, 1) /\ completed' = (completed \/ i' = beg)
      /\ IF ~ht.table[i'].cbit
         THEN init_id' = init_id /\ phase' = phase
         ELSE /\ init_id' = Right(ht, init_id, 1)
              /\ phase' = IF i' # init_id' THEN "home" ELSE IF completed' THEN "done" ELSE "seek"
  BY DEF CopyItem
<1>2. PICK h : Sound(ht, h) /\ Walk(h)
  BY DEF IInv
<1>3. i \in Slots(ht) /\ beg \in Slots(ht) /\ init_id \in Slots(ht) /\ completed \in BOOLEAN
  BY DEF IInv
<1>4. /\ HasSlots(ht) /\ Placed(ht, h) /\ Vacant(ht) # {}
      /\ \A s \in Slots(ht) : h[s] \in Int /\ h[s] >= -1 /\ (h[s] = -1 <=> IsVacant(ht, s))
      /\ Right(ht, i, 1) \in Slots(ht) /\ Left(ht, Right(ht, i, 1), 1) = i
  BY <1>2, <1>3, LoopFacts
<1>5. /\ Contents(new_cht) = [k \in CopiedKeys(h) |-> Contents(ht)[k]]
      /\ ~IsVacant(ht, i) /\ init_id = Home(ht, h, i)
  BY <1>1, <1>2 DEF Walk
<1>6. /\ \E f : Sound(new_cht', f)
      /\ new_cht'.capa = 2 * ht.capa
      /\ Contents(new_cht') = [k \in CopiedKeys(h)' |-> Contents(ht)[k]]
  <2>1. new_cht.capa = 2 * ht.capa /\ \E g : Sound(new_cht, g)
    BY <1>1 DEF IInv
  <2>. QED  BY <1>2, <1>3, <1>5, <2>1, ItemCopied
<1>7. /\ Right(ht, init_id, 1) \in Slots(ht)
      /\ ~ht.table[i'].cbit => h[i'] >= 0 /\ Home(ht, h, i') = Home(ht, h, i)
      /\ ht.table[i'].cbit /\ i' # Right(ht, init_id, 1) =>
           /\ h[i'] >= 0 /\ h[i] \in 0 .. h[i'] /\ Right(ht, init_id, 1) = Right(ht, i', h[i])
           /\ \A d \in h[i] .. h[i']-1 : ~ht.table[Right(ht, i', d)].vbit
      /\ i' = Right(ht, init_id, 1) => h[i] = 0
  <2>. DEFINE r == Right(ht, i, 1)
              m == Right(ht, init_id, 1)
  <2>1. r = Right(ht, i, 1) /\ m = Right(ht, Home(ht, h, i), 1) /\ h[i] >= 0
    BY <1>3, <1>4, <1>5
  <2>. HIDE DEF r, m
  <2>2. /\ m \in Slots(ht)
        /\ ~ht.table[r].cbit => h[r] >= 0 /\ Home(ht, h, r) = Home(ht, h, i)
        /\ ht.table[r].cbit /\ r # m =>
             /\ h[r] >= 0 /\ h[i] \in 0 .. h[r] /\ m = Right(ht, r, h[i])
             /\ \A d \in h[i] .. h[r]-1 : ~ht.table[Right(ht, r, d)].vbit
        /\ r = m => h[i] = 0
    BY <1>3, <1>4, <2>1, BehindItem
  <2>. QED  BY <1>1, <2>2 DEF r, m
<1>8. i' \in Slots(ht)' /\ beg' \in Slots(ht)' /\ init_id' \in Slots(ht)' /\ completed' \in BOOLEAN
  BY <1>1, <1>3, <1>4, <1>7
<1>9. Walk(h)' /\ phase' \in Phases
  <2>0. Contents(new_cht)' = [k \in CopiedKeys(h)' |-> Contents(ht)'[k]]
    BY <1>1, <1>6
  <2>1. \A s \in Slots(ht) : h[s] >= 0 => ~IsVacant(ht, s)
    BY <1>4
  <2>2. CASE ~ht.table[i'].cbit
    <3>1. phase' = "items" /\ ~IsVacant(ht, i') /\ init_id' = Home(ht, h, i')
      BY <1>1, <1>4, <1>5, <1>7, <2>2, <2>1
    <3>. QED  BY <1>1, <2>0, <3>1 DEF Walk, Phases
  <2>3. CASE ht.table[i'].cbit /\ i' # Right(ht, init_id, 1)
    <3>1. phase' = "home" /\ init_id' = Right(ht, init_id, 1)
      BY <1>1, <2>3
    <3>2. ~IsVacant(ht, i')
      BY <1>1, <1>4, <1>7, <2>3, <2>1
    <3>3. \E e \in 0 .. h[i'] : /\ init_id' = Right(ht, i', e)
                                /\ \A d \in e .. h[i']-1 : ~ht.table[Right(ht, i', d)].vbit
      BY <1>7, <2>3, <3>1
    <3>. QED  BY <1>1, <2>0, <3>1, <3>2, <3>3 DEF Walk, Phases
  <2>4. CASE ht.table[i'].cbit /\ i' = Right(ht, init_id, 1)
    <3>1. h[Left(ht, i', 1)] <= 0
      <4>1. Left(ht, i', 1) = i /\ h[i] = 0
        BY <1>1, <1>4, <1>7, <2>4
      <4>. QED  BY <4>1
    <3>2. phase' = IF completed' THEN "done" ELSE "seek"
      BY <1>1, <2>4
    <3>. QED  BY <1>1, <2>0, <3>1, <3>2 DEF Walk, Phases
  <2>. QED  BY <2>2, <2>3, <2>4
<1>10. Sound(ht', h) /\ Contents(ht)' = store' /\ arg' = arg /\ new_cht'.capa = 2 * ht'.capa
  BY <1>1, <1>2, <1>6 DEF IInv
<1>. QED  BY <1>6, <1>8, <1>9, <1>10 DEF IInv

\* At the end of clone the copy holds what the table holds.
LEMMA AllCopied ==
  ASSUME IInv, phase = "done"
  PROVE  /\ Contents(new_cht) = Contents(ht)
         /\ new_cht.size = ht.size
         /\ ~Full(new_cht)
<1>1. PICK h : Sound(ht, h) /\ Walk(h)
  BY DEF IInv
<1>2. PICK g : Sound(new_cht, g)
  BY DEF IInv
<1>3. completed /\ Contents(new_cht) = [k \in CopiedKeys(h) |-> Contents(ht)[k]]
  BY <1>1 DEF Walk
<1>4. CopiedKeys(h) = HeldKeys(ht, h)
  <2>1. Passed(ht, beg, i, completed) = Slots(ht)
    BY <1>3 DEF Passed
  <2>2. Taken(ht) \cap Slots(ht) = Taken(ht)
    BY DEF Taken
  <2>. QED  BY <2>1, <2>2 DEF CopiedKeys, HeldKeys
<1>5. Contents(new_cht) = Contents(ht)
  <2>1. Contents(ht) = [k \in HeldKeys(ht, h) |-> Contents(ht)[k]]
    BY <1>1, ContentsFacts
  <2>. QED  BY <1>3, <1>4, <2>1
<1>6. new_cht.size = ht.size
  <2>1. DOMAIN Contents(ht) = HeldKeys(ht, h) /\ Cardinality(HeldKeys(ht, h)) = ht.size
    BY <1>1, ContentsFacts
  <2>2. DOMAIN Contents(new_cht) = HeldKeys(new_cht, g) /\ Cardinality(HeldKeys(new_cht, g)) = new_cht.size
    BY <1>2, ContentsFacts
  <2>. QED  BY <1>5, <2>1, <2>2
<1>7. ~Full(new_cht)
  <2>1. new_cht.capa = 2 * ht.capa /\ DOMAIN Contents(new_cht) \subseteq DOMAIN Contents(ht)
    BY <1>5 DEF IInv
  <2>. QED  BY <1>1, <1>2, <2>1, CopyRoom
<1>. QED  BY <1>5, <1>6, <1>7

\* A table that is not being copied.
LEMMA AtRest ==
  ASSUME phase' = "ready", i' = 0, beg' = 0, init_id' = 0, completed' = FALSE,
         \E g : Sound(ht', g), Contents(ht)' = store', new_cht' = NewTable(MinCapa), arg' = NoArg
  PROVE  IInv'
<1>1. \A h : Walk(h)'
  BY DEF Walk
<1>2. \E g : Sound(new_cht', g)
  BY SmallestTable
<1>3. 0 \in Slots(ht)'
  <2>. DEFINE t == ht'
  <2>1. \E g : Sound(t, g)
    OBVIOUS
  <2>. HIDE DEF t
  <2>2. 0 \in Slots(t)
    BY <2>1, ZeroIsSlot
  <2>. QED  BY <2>2 DEF t, Slots
<1>4. \E h : Sound(ht', h) /\ Walk(h)'
  BY <1>1
<1>5. phase' \in Phases /\ phase' = "ready" /\ completed' \in BOOLEAN
      /\ i' \in Slots(ht)' /\ beg' \in Slots(ht)' /\ init_id' \in Slots(ht)'
  BY <1>3 DEF Phases
<1>. QED  BY <1>2, <1>4, <1>5 DEF IInv

LEMMA EndGrowInv ==
  ASSUME IInv, EndGrow
  PROVE  IInv'
<1>1. /\ phase = "done" /\ arg # NoArg /\ phase' = "ready"
      /\ i' = 0 /\ beg' = 0 /\ init_id' = 0 /\ completed' = FALSE
      /\ arg' = NoArg /\ new_cht' = NewTable(MinCapa)
      /\ ht' = Put(new_cht, arg.key, arg.val) /\ store' = Updated(store, arg.key, arg.val)
  BY DEF EndGrow, Idle, Store, Updated
<1>2. Contents(new_cht) = store /\ ~Full(new_cht)
  BY <1>1, AllCopied DEF IInv
<1>3. arg.key \in Keys /\ arg.val \in 0 .. ValMask-1 /\ \E g : Sound(new_cht, g)
  BY <1>1 DEF IInv
<1>4. (\E g : Sound(ht', g)) /\ Contents(ht') = Updated(store, arg.key, arg.val)
  <2>. DEFINE k == arg.key
              v == arg.val
  <2>1. k \in Keys /\ v \in 0 .. ValMask-1 /\ ht' = Put(new_cht, k, v)
    BY <1>1, <1>3
  <2>. HIDE DEF k, v
  <2>2. (\E g : Sound(ht', g)) /\ Contents(ht') = Updated(store, k, v)
    BY <1>2, <1>3, <2>1, PutFacts
  <2>. QED  BY <2>2 DEF k, v
<1>5. Contents(ht)' = store'
  BY <1>1, <1>4
<1>. QED  BY <1>1, <1>4, <1>5, AtRest

LEMMA EndCloneInv ==
  ASSUME IInv, EndClone
  PROVE  IInv'
<1>1. /\ phase = "done" /\ arg = NoArg /\ phase' = "ready"
      /\ i' = 0 /\ beg' = 0 /\ init_id' = 0 /\ completed' = FALSE
      /\ arg' = arg /\ new_cht' = NewTable(MinCapa) /\ ht' = new_cht /\ store' = store
  BY DEF EndClone, Idle
<1>2. Contents(ht)' = store' /\ \E g : Sound(ht', g)
  BY <1>1, AllCopied DEF IInv
<1>. QED  BY <1>1, <1>2, AtRest

\* Every step preserves the invariant.
LEMMA NextInv ==
  ASSUME MaxCapa <= Univ, IInv, [Next]_vars
  PROVE  IInv'
<1>1. ASSUME NEW k \in KeysUsed, NEW v \in Value[k], Set(k, v) PROVE IInv'
  BY <1>1, SetInv
<1>2. ASSUME NEW k \in KeysUsed, NEW v \in Value[k], BeginGrow(k, v) PROVE IInv'
  BY <1>2, BeginGrowInv
<1>3. CASE CallClone
  BY <1>3, CallCloneInv
<1>4. CASE FindVacant
  BY <1>4, FindVacantInv
<1>5. CASE Seek
  BY <1>5, SeekInv
<1>6. CASE FindHome
  BY <1>6, FindHomeInv
<1>7. CASE CopyItem
  BY <1>7, CopyItemInv
<1>8. CASE EndGrow
  BY <1>8, EndGrowInv
<1>9. CASE EndClone
  BY <1>9, EndCloneInv
<1>10. CASE UNCHANGED vars
  <2>1. /\ ht' = ht /\ phase' = phase /\ i' = i /\ beg' = beg /\ init_id' = init_id
        /\ completed' = completed /\ arg' = arg /\ new_cht' = new_cht /\ store' = store
    BY <1>10 DEF vars, loopVars
  <2>2. \A h : CopiedKeys(h)' = CopiedKeys(h)
    BY <2>1 DEF CopiedKeys
  <2>3. \A h : Walk(h) => Walk(h)'
    BY <2>1, <2>2 DEF Walk
  <2>. QED  BY <2>1, <2>3 DEF IInv
<1>. QED  BY <1>1, <1>2, <1>3, <1>4, <1>5, <1>6, <1>7, <1>8, <1>9, <1>10 DEF Next, Cloning

\* The invariant holds in every state of a table that stays in its universe.
LEMMA Invariant ==
  ASSUME MaxCapa <= Univ
  PROVE  Spec => []IInv
<1>1. IInv /\ [Next]_vars => IInv'
  BY NextInv
<1>. QED  BY <1>1, InitInv, PTL DEF Spec

----------------------------------------------------------------------------
(* The properties.                                                         *)

LEMMA SoundIsTable ==
  ASSUME NEW t, NEW h, Sound(t, h)
  PROVE  IsTable(t)
<1>1. WellFormed(t) /\ t.capa \in Nat /\ t.size \in Nat
  BY TableFacts DEF Sound
<1>. QED  BY <1>1 DEF IsTable, WellFormed, QuoSize

LEMMA InvTypeOK == IInv => TypeOK
<1>. SUFFICES ASSUME IInv PROVE TypeOK
  OBVIOUS
<1>1. PICK h : Sound(ht, h) /\ Walk(h)
  BY DEF IInv
<1>2. IsTable(ht) /\ IsTable(new_cht)
  BY <1>1, SoundIsTable DEF IInv
<1>3. arg.key \in Keys \cup {Nil}
  BY DEF IInv, NoArg
<1>4. /\ HasSlots(ht) /\ Placed(ht, h) /\ Vacant(ht) # {}
      /\ \A s \in Slots(ht) : h[s] \in Int /\ h[s] >= -1 /\ (h[s] = -1 <=> IsVacant(ht, s))
  BY <1>1, LoopFacts DEF IInv
<1>5. ASSUME phase \in {"home", "items"} PROVE ~IsVacant(ht, i) /\ ~IsVacant(ht, init_id)
  <2>1. ~IsVacant(ht, i) /\ i \in Slots(ht)
    BY <1>1, <1>5 DEF Walk, IInv
  <2>2. h[i] >= 0
    BY <1>4, <2>1
  <2>3. /\ ~IsVacant(ht, Home(ht, h, i))
        /\ \A d \in 0 .. h[i] : ~IsVacant(ht, Right(ht, i, d))
    BY <1>4, <2>1, <2>2, WayHome
  <2>. QED  BY <1>1, <1>5, <2>1, <2>3 DEF Walk
<1>6. {i, beg, init_id} \subseteq Slots(ht) /\ completed \in BOOLEAN /\ phase \in Phases
  BY DEF IInv
<1>. QED  BY <1>2, <1>3, <1>5, <1>6 DEF TypeOK, Phases

LEMMA InvBitsConsistent == IInv => BitsConsistent
BY SoundMatches DEF IInv, BitsConsistent

LEMMA InvCopyExact == IInv => CopyExact
<1>. SUFFICES ASSUME IInv, phase # "ready"
              PROVE  /\ \A k \in DOMAIN Contents(new_cht) :
                          k \in DOMAIN Contents(ht) /\ Contents(new_cht)[k] = Contents(ht)[k]
                     /\ phase = "done" =>
                          DOMAIN Contents(new_cht) = DOMAIN Contents(ht) /\ new_cht.size = ht.size
                     /\ ~Full(new_cht)
  BY DEF CopyExact
<1>1. PICK h : Sound(ht, h) /\ Walk(h)
  BY DEF IInv
<1>2. PICK g : Sound(new_cht, g)
  BY DEF IInv
<1>3. DOMAIN Contents(ht) = HeldKeys(ht, h) /\ CopiedKeys(h) \subseteq HeldKeys(ht, h)
  <2>1. DOMAIN Contents(ht) = HeldKeys(ht, h)
    BY <1>1, ContentsFacts
  <2>. QED  BY <2>1 DEF CopiedKeys, HeldKeys
<1>4. \A k \in DOMAIN Contents(new_cht) :
        k \in DOMAIN Contents(ht) /\ Contents(new_cht)[k] = Contents(ht)[k]
  <2>1. CASE phase = "vacant"
    BY <1>1, <2>1 DEF Walk
  <2>2. CASE phase # "vacant"
    <3>1. Contents(new_cht) = [k \in CopiedKeys(h) |-> Contents(ht)[k]]
      BY <1>1, <2>2 DEF Walk, IInv, Phases
    <3>. QED  BY <1>3, <3>1
  <2>. QED  BY <2>1, <2>2
<1>5. phase = "done" => DOMAIN Contents(new_cht) = DOMAIN Contents(ht) /\ new_cht.size = ht.size
  BY AllCopied
<1>6. ~Full(new_cht)
  <2>1. new_cht.capa = 2 * ht.capa /\ DOMAIN Contents(new_cht) \subseteq DOMAIN Contents(ht)
    BY <1>4 DEF IInv
  <2>. QED  BY <1>1, <1>2, <2>1, CopyRoom
<1>. QED  BY <1>4, <1>5, <1>6

\* Every variable keeps its type, and clone looks for the mod of a group at
\* taken slots only: it neither copies from a free slot nor runs out of a
\* cluster.
THEOREM TypeCorrect ==
  ASSUME MaxCapa <= Univ
  PROVE  Spec => []TypeOK
<1>1. Spec => []IInv
  BY Invariant
<1>. QED  BY <1>1, InvTypeOK, PTL

\* The virgin bits and the change bits of both tables match at every moment,
\* those of a half filled copy included.
THEOREM BitsStayConsistent ==
  ASSUME MaxCapa <= Univ
  PROVE  Spec => []BitsConsistent
<1>1. Spec => []IInv
  BY Invariant
<1>. QED  BY <1>1, InvBitsConsistent, PTL

\* clone copies what the table holds, the whole of it when it returns, and
\* set is never called on a copy that is full.
THEOREM CloneIsExact ==
  ASSUME MaxCapa <= Univ
  PROVE  Spec => []CopyExact
<1>1. Spec => []IInv
  BY Invariant
<1>. QED  BY <1>1, InvCopyExact, PTL

\* get finds what set stored, for every key of the universe, however the items
\* were displaced and however often the table was copied.
THEOREM GetIsCorrect ==
  ASSUME MaxCapa <= Univ
  PROVE  Spec => []GetCorrect
<1>1. Spec => []IInv
  BY Invariant
<1>2. IInv => GetCorrect
  BY DEF IInv, GetCorrect
<1>. QED  BY <1>1, <1>2, PTL
=============================================================================
