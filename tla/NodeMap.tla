------------------------------ MODULE NodeMap ------------------------------
(***************************************************************************)
(* The memory of compact_bonsai_trie::expand, bit by bit: the table, whose *)
(* fields are overwritten with the new ids while others are still read,    *)
(* the high parts of ids that are wider than a field, and the flags that   *)
(* tell which is which.  What is left in the end is the node map.  Which   *)
(* slots are taken, and in which order expand comes to them, is open here  *)
(* (see CompactBonsaiRehash).                                              *)
(***************************************************************************)
EXTENDS BitVectors

CONSTANTS
  Capa, Width,     \* the slots of the old table and the bits of one
  IdBits           \* the bits an id may have: capa_bits() of the new table

\* The constructor of compact_vector throws for a width of W; an id is a word.
ASSUME NodeMapAssumption ==
  Capa \in Nat \ {0} /\ Width \in 1 .. W - 1 /\ IdBits \subseteq 1 .. W

VARIABLES table, map_high, done_flags,
          expanding,   \* whether expand has begun
          last         \* the slot and the number of the last write

vars == <<table, map_high, done_flags, expanding, last>>

Slots == 0 .. Capa - 1
RootId == 0
Entry == SUBSET LowMask(Width) \ {{}}    \* a displacement is at least 1
NoVector == NewVector(0, 0)

Init ==
  /\ table = NewVector(Capa, Width)
  /\ map_high = NoVector /\ done_flags = NewBits(0) /\ expanding = FALSE
  /\ last = <<>>

\* add_child writes an empty slot, but never that of the root.
SetSlot(i, e) ==
  /\ ~expanding /\ i # RootId /\ GetField(table, i) = {}
  /\ table' = SetField(table, i, e)
  /\ last' = <<i, e>>
  /\ UNCHANGED <<map_high, done_flags, expanding>>

\* expand up to its loop: an id that is wider than a field is split.
BeginExpand(bits) ==
  /\ ~expanding
  /\ done_flags' = SetFlag(NewBits(Capa), RootId)
  /\ map_high' = IF Width < bits THEN NewVector(Capa, bits - Width) ELSE NoVector
  /\ expanding' = TRUE
  /\ UNCHANGED <<table, last>>

\* get_mapping, and operator[] of the node map where the slot is done.
Mapped(i) ==
  IF map_high.size = 0 THEN GetField(table, i)
  ELSE GetField(table, i) \cup ShiftLeft(GetField(map_high, i), Width)

\* set_mapping and the flag, for a slot with a node that is not done.
SetMapping(i, id) ==
  /\ expanding /\ ~Flag(done_flags, i) /\ GetField(table, i) # {}
  /\ IF map_high.size = 0
     THEN table' = SetField(table, i, id) /\ UNCHANGED map_high
     ELSE /\ table' = SetField(table, i, id \cap LowMask(Width))
          /\ map_high' = SetField(map_high, i, ShiftRight(id, Width))
  /\ done_flags' = SetFlag(done_flags, i)
  /\ last' = <<i, id>>
  /\ UNCHANGED expanding

\* The ids that the vectors have room for.
Id == SUBSET LowMask(Width + map_high.width)

Next ==
  \/ \E i \in Slots, e \in Entry : SetSlot(i, e)
  \/ \E bits \in IdBits : BeginExpand(bits)
  \/ \E i \in Slots, id \in Id : SetMapping(i, id)

Spec == Init /\ [][Next]_vars

----------------------------------------------------------------------------
(* Properties *)

Done == {i \in Slots : expanding /\ Flag(done_flags, i)}

\* The vectors keep their sizes, no bit is set behind the last field, and a
\* field that is read is never wider than the vector's fields.
TypeOK ==
  /\ \A v \in {table, map_high} :
       /\ Len(v.words) = WordsFor(v.size * v.width)
       /\ \A k \in DOMAIN v.words, b \in 0 .. W - 1 :
            b \in v.words[k] => (k - 1) * W + b < v.size * v.width
       /\ \A i \in 0 .. v.size - 1 : GetField(v, i) \subseteq LowMask(v.width)
  /\ table.size = Capa /\ map_high.size \in {0, Capa}

Abstract ==
  INSTANCE SlotMap WITH
    Root <- RootId, Id <- Word,
    entries <- [i \in Slots \ Done |-> GetField(table, i)],
    ids <- [i \in Done |-> Mapped(i)]

\* The bits hold the entry of every slot that is not done and the id of every
\* slot that is: a write reaches its own field, all of it and no other, also
\* where a field lies in two words, and an id is whole after it was split.
ImplementsSlotMap == Abstract!Spec
=============================================================================
