----------------------------- MODULE PoplarMaps -----------------------------
(***************************************************************************)
(* The six map types of poplar.hpp, each one instance of map over a trie   *)
(* and a node label map.  kind is the type of the object under test, the   *)
(* other variables are those of Map.                                       *)
(***************************************************************************)
EXTENDS CodeTable, Sequences

CONSTANTS
  Kind,         \* the types whose objects are made
  Lambda, Key, ValueOf(_), MayThrow,          \* those of Map
  MinCapa, MaxFactor, SymbSize,               \* those of all tries
  ValueSize, ChunkSize, ByteBase,             \* those of the labels
  Words, Hash,                                \* those of the plain tries
  Capas, Dsp1Mask, Dsp2Mask, Permutation, PermutationInv    \* the compact ones

\* lambda is positive; the terminator is nowhere else in a legal key;
\* update may throw where the codes can run out; the smallest table has room for the root and a child.
ASSUME MapAssumption ==
  /\ Lambda \in Nat \ {0}
  /\ Key \subseteq Seq(Chars)
  /\ \A k \in Key : k # <<>> /\ k[Len(k)] = 0 => \A i \in 1 .. Len(k) - 1 : k[i] # 0
  /\ Cardinality(Chars) >= CodeMax => MayThrow
  /\ ValueSize \in Nat \ {0} /\ ChunkSize \in Nat \ {0} /\ ByteBase \in Nat \ {0, 1}
  /\ MinCapa \in Nat /\ MaxFactor \in 1 .. 99 /\ MinCapa * MaxFactor >= 200
  /\ SymbSize = (CodeMax + 1) * Lambda

VARIABLES
  kind,
  hash_trie, label_store, size,
  pc, call, key, node_id, match, ret

objectVars == <<is_ready, hash_trie, label_store, codes, num_codes, size,
                pc, call, key, node_id, match, ret>>
vars == <<kind, objectVars>>

PlainBonsai == INSTANCE PlainBonsaiMap
SemiCompactBonsai == INSTANCE SemiCompactBonsaiMap
CompactBonsai == INSTANCE CompactBonsaiMap WITH Hash <- Permutation, HashInv <- PermutationInv
PlainFkhash == INSTANCE PlainFkhashMap
SemiCompactFkhash == INSTANCE SemiCompactFkhashMap
CompactFkhash == INSTANCE CompactFkhashMap WITH Hash <- Permutation, HashInv <- PermutationInv

Init ==
  /\ kind \in Kind
  /\ \/ kind = "plain_bonsai" /\ PlainBonsai!Init
     \/ kind = "semi_compact_bonsai" /\ SemiCompactBonsai!Init
     \/ kind = "compact_bonsai" /\ CompactBonsai!Init
     \/ kind = "plain_fkhash" /\ PlainFkhash!Init
     \/ kind = "semi_compact_fkhash" /\ SemiCompactFkhash!Init
     \/ kind = "compact_fkhash" /\ CompactFkhash!Init

Next ==
  /\ \/ kind = "plain_bonsai" /\ PlainBonsai!Next
     \/ kind = "semi_compact_bonsai" /\ SemiCompactBonsai!Next
     \/ kind = "compact_bonsai" /\ CompactBonsai!Next
     \/ kind = "plain_fkhash" /\ PlainFkhash!Next
     \/ kind = "semi_compact_fkhash" /\ SemiCompactFkhash!Next
     \/ kind = "compact_fkhash" /\ CompactFkhash!Next
  /\ UNCHANGED kind

Spec == Init /\ [][Next]_vars

\* A call is one thread's loop: it goes on as long as it runs.  This is weak
\* fairness of the steps of a call, one of which is enabled when pc # "idle".
Fairness == []<>(pc = "idle") \/ []<><<pc # "idle" /\ Next>>_vars

FairSpec == Spec /\ Fairness

----------------------------------------------------------------------------
\* The operand that belongs to the type of the object.
OfKind(pb, scb, cb, pf, scf, cf) ==
  CASE kind = "plain_bonsai" -> pb
    [] kind = "semi_compact_bonsai" -> scb
    [] kind = "compact_bonsai" -> cb
    [] kind = "plain_fkhash" -> pf
    [] kind = "semi_compact_fkhash" -> scf
    [] kind = "compact_fkhash" -> cf

\* The types of all variables; a walk compares with the label of a node of
\* the trie only, and a step or a branch starts before the end of the key.
TypeOK ==
  OfKind(PlainBonsai!TypeOK, SemiCompactBonsai!TypeOK, CompactBonsai!TypeOK,
         PlainFkhash!TypeOK, SemiCompactFkhash!TypeOK, CompactFkhash!TypeOK)

\* Exactly the nodes that stand for a key have a label: growing the table
\* takes every label along with its node, even when it happens between the
\* insertion of a node and that of its label.
LabelsFollowNodes ==
  OfKind(PlainBonsai!LabelsFollowNodes,
         SemiCompactBonsai!LabelsFollowNodes,
         CompactBonsai!LabelsFollowNodes,
         PlainFkhash!LabelsFollowNodes,
         SemiCompactFkhash!LabelsFollowNodes,
         CompactFkhash!LabelsFollowNodes)

\* Every child branches off inside its parent's label, and with another
\* character than the label has there: no key is on two paths.
BranchesDiffer ==
  OfKind(PlainBonsai!BranchesDiffer, SemiCompactBonsai!BranchesDiffer, CompactBonsai!BranchesDiffer,
         PlainFkhash!BranchesDiffer, SemiCompactFkhash!BranchesDiffer, CompactFkhash!BranchesDiffer)

\* size() is the number of registered keys: no key has two nodes, and what a
\* failed update leaves behind counts for nothing.
SizeIsKeys ==
  OfKind(PlainBonsai!SizeIsKeys, SemiCompactBonsai!SizeIsKeys, CompactBonsai!SizeIsKeys,
         PlainFkhash!SizeIsKeys, SemiCompactFkhash!SizeIsKeys, CompactFkhash!SizeIsKeys)

\* The bytes and labels counted are those that are there: growth takes them
\* along exactly, and each label is found by the lengths of those before it.
LabelsExact ==
  OfKind(PlainBonsai!LabelsExact, SemiCompactBonsai!LabelsExact, CompactBonsai!LabelsExact,
         PlainFkhash!LabelsExact, SemiCompactFkhash!LabelsExact, CompactFkhash!LabelsExact)

\* The assertion in make_symb_: a branch character has a code, and not the
\* one that is kept for step nodes.  It does not depend on the type.
CodeAssigned == PlainBonsai!CodeAssigned

\* The assertion in plain_fkhash_trie::add_child: the key it stores is not 0.
KeyNotZero ==
  kind = "plain_fkhash" /\ pc = "branch" =>
    PlainFkhash!MakeKey(node_id, PlainFkhash!MakeSymb(Head(key), match)) # 0

\* The calls of the trie and of the labels do what the map relies on, at every
\* moment at which it may make them.
PromisesKept ==
  OfKind(PlainBonsai!PromisesKept, SemiCompactBonsai!PromisesKept, CompactBonsai!PromisesKept,
         PlainFkhash!PromisesKept, SemiCompactFkhash!PromisesKept, CompactFkhash!PromisesKept)

\* Every call returns: a walk uses up its key.
CallsReturn == pc # "idle" ~> pc = "idle"

Store ==
  OfKind(PlainBonsai!Store, SemiCompactBonsai!Store, CompactBonsai!Store,
         PlainFkhash!Store, SemiCompactFkhash!Store, CompactFkhash!Store)

RetValue ==
  OfKind(PlainBonsai!RetValue, SemiCompactBonsai!RetValue, CompactBonsai!RetValue,
         PlainFkhash!RetValue, SemiCompactFkhash!RetValue, CompactFkhash!RetValue)

Abstract ==
  INSTANCE AssocArray WITH
    LegalKey <- {k \in Key : k # <<>> /\ k[Len(k)] = 0}, Values <- UNION {ValueOf(k) : k \in Key},
    store <- Store, ret <- [kind |-> ret.kind, value |-> RetValue]

\* The map is the associative array its users are promised, whatever the
\* trie, the labels and the codes go through on the way, growth and
\* exceptions included.
ImplementsAssocArray == Abstract!Spec
=============================================================================
