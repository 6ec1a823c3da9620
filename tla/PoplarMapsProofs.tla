-------------------------- MODULE PoplarMapsProofs --------------------------
(***************************************************************************)
(* The six map types, for all keys, characters and table sizes.  What      *)
(* MapProofs proves of the map over any trie and labels holds for each of  *)
(* them: a type is one instance of MapProofs, and the lemmas of its        *)
(* section say that this instance is the instance of Map that PoplarMaps   *)
(* runs.  As there, the trie and the labels are relied on for what         *)
(* PromisesKept says.                                                      *)
(***************************************************************************)
EXTENDS PoplarMaps, TLAPS

\* One instance of the proofs for each type.
PB == INSTANCE MapProofs WITH
  RootId <- PlainBonsai!RootId, NilId <- PlainBonsai!NilId, EmptyTrie <- PlainBonsai!EmptyTrie,
  EmptyLabels <- PlainBonsai!EmptyLabels, Size <- PlainBonsai!Size, AddRoot <- PlainBonsai!AddRoot,
  FindChild <- PlainBonsai!FindChild, AddChild <- PlainBonsai!AddChild, Nodes <- PlainBonsai!Nodes,
  Parent <- PlainBonsai!Parent, Symb <- PlainBonsai!Symb, Compare <- PlainBonsai!Compare,
  Insert <- PlainBonsai!Insert, InsertStep <- PlainBonsai!InsertStep, Value <- PlainBonsai!Value,
  Write <- PlainBonsai!Write, Labelled <- PlainBonsai!Labelled, LabelAt <- PlainBonsai!LabelAt,
  Exact <- PlainBonsai!Exact, NeedsToExpand <- PlainBonsai!NeedsToExpand,
  Expand <- PlainBonsai!Expand, ExpandLabels <- PlainBonsai!ExpandLabels

SCB == INSTANCE MapProofs WITH
  RootId <- SemiCompactBonsai!RootId, NilId <- SemiCompactBonsai!NilId,
  EmptyTrie <- SemiCompactBonsai!EmptyTrie, EmptyLabels <- SemiCompactBonsai!EmptyLabels,
  Size <- SemiCompactBonsai!Size, AddRoot <- SemiCompactBonsai!AddRoot,
  FindChild <- SemiCompactBonsai!FindChild, AddChild <- SemiCompactBonsai!AddChild,
  Nodes <- SemiCompactBonsai!Nodes, Parent <- SemiCompactBonsai!Parent,
  Symb <- SemiCompactBonsai!Symb, Compare <- SemiCompactBonsai!Compare,
  Insert <- SemiCompactBonsai!Insert, InsertStep <- SemiCompactBonsai!InsertStep,
  Value <- SemiCompactBonsai!Value, Write <- SemiCompactBonsai!Write,
  Labelled <- SemiCompactBonsai!Labelled, LabelAt <- SemiCompactBonsai!LabelAt,
  Exact <- SemiCompactBonsai!Exact, NeedsToExpand <- SemiCompactBonsai!NeedsToExpand,
  Expand <- SemiCompactBonsai!Expand, ExpandLabels <- SemiCompactBonsai!ExpandLabels

CB == INSTANCE MapProofs WITH
  RootId <- CompactBonsai!RootId, NilId <- CompactBonsai!NilId,
  EmptyTrie <- CompactBonsai!EmptyTrie, EmptyLabels <- CompactBonsai!EmptyLabels,
  Size <- CompactBonsai!Size, AddRoot <- CompactBonsai!AddRoot,
  FindChild <- CompactBonsai!FindChild, AddChild <- CompactBonsai!AddChild,
  Nodes <- CompactBonsai!Nodes, Parent <- CompactBonsai!Parent, Symb <- CompactBonsai!Symb,
  Compare <- CompactBonsai!Compare, Insert <- CompactBonsai!Insert,
  InsertStep <- CompactBonsai!InsertStep, Value <- CompactBonsai!Value,
  Write <- CompactBonsai!Write, Labelled <- CompactBonsai!Labelled,
  LabelAt <- CompactBonsai!LabelAt, Exact <- CompactBonsai!Exact,
  NeedsToExpand <- CompactBonsai!NeedsToExpand, Expand <- CompactBonsai!Expand,
  ExpandLabels <- CompactBonsai!ExpandLabels

PF == INSTANCE MapProofs WITH
  RootId <- PlainFkhash!RootId, NilId <- PlainFkhash!NilId, EmptyTrie <- PlainFkhash!EmptyTrie,
  EmptyLabels <- PlainFkhash!EmptyLabels, Size <- PlainFkhash!Size, AddRoot <- PlainFkhash!AddRoot,
  FindChild <- PlainFkhash!FindChild, AddChild <- PlainFkhash!AddChild, Nodes <- PlainFkhash!Nodes,
  Parent <- PlainFkhash!Parent, Symb <- PlainFkhash!Symb, Compare <- PlainFkhash!Compare,
  Insert <- PlainFkhash!Insert, InsertStep <- PlainFkhash!InsertStep, Value <- PlainFkhash!Value,
  Write <- PlainFkhash!Write, Labelled <- PlainFkhash!Labelled, LabelAt <- PlainFkhash!LabelAt,
  Exact <- PlainFkhash!Exact, NeedsToExpand <- PlainFkhash!NeverExpands,
  Expand <- PlainFkhash!NoNodeMap, ExpandLabels <- PlainFkhash!SameLabels

SCF == INSTANCE MapProofs WITH
  RootId <- SemiCompactFkhash!RootId, NilId <- SemiCompactFkhash!NilId,
  EmptyTrie <- SemiCompactFkhash!EmptyTrie, EmptyLabels <- SemiCompactFkhash!EmptyLabels,
  Size <- SemiCompactFkhash!Size, AddRoot <- SemiCompactFkhash!AddRoot,
  FindChild <- SemiCompactFkhash!FindChild, AddChild <- SemiCompactFkhash!AddChild,
  Nodes <- SemiCompactFkhash!Nodes, Parent <- SemiCompactFkhash!Parent,
  Symb <- SemiCompactFkhash!Symb, Compare <- SemiCompactFkhash!Compare,
  Insert <- SemiCompactFkhash!Insert, InsertStep <- SemiCompactFkhash!InsertStep,
  Value <- SemiCompactFkhash!Value, Write <- SemiCompactFkhash!Write,
  Labelled <- SemiCompactFkhash!Labelled, LabelAt <- SemiCompactFkhash!LabelAt,
  Exact <- SemiCompactFkhash!Exact, NeedsToExpand <- SemiCompactFkhash!NeverExpands,
  Expand <- SemiCompactFkhash!NoNodeMap, ExpandLabels <- SemiCompactFkhash!SameLabels

CF == INSTANCE MapProofs WITH
  RootId <- CompactFkhash!RootId, NilId <- CompactFkhash!NilId,
  EmptyTrie <- CompactFkhash!EmptyTrie, EmptyLabels <- CompactFkhash!EmptyLabels,
  Size <- CompactFkhash!Size, AddRoot <- CompactFkhash!AddRoot,
  FindChild <- CompactFkhash!FindChild, AddChild <- CompactFkhash!AddChild,
  Nodes <- CompactFkhash!Nodes, Parent <- CompactFkhash!Parent, Symb <- CompactFkhash!Symb,
  Compare <- CompactFkhash!Compare, Insert <- CompactFkhash!Insert,
  InsertStep <- CompactFkhash!InsertStep, Value <- CompactFkhash!Value,
  Write <- CompactFkhash!Write, Labelled <- CompactFkhash!Labelled,
  LabelAt <- CompactFkhash!LabelAt, Exact <- CompactFkhash!Exact,
  NeedsToExpand <- CompactFkhash!NeverExpands, Expand <- CompactFkhash!NoNodeMap,
  ExpandLabels <- CompactFkhash!SameLabels

\* There are finitely many characters, and at most one more than there are
\* codes to give: then the counter of the codes does not wrap.
Setting == IsFiniteSet(Chars) /\ Cardinality(Chars) <= CodeMax

\* A legal key ends with its only terminator.
LEMMA KeysTerminated ==
  ASSUME NEW k \in Key, k # <<>> /\ k[Len(k)] = 0
  PROVE  k \in Seq(Chars) /\ \A i \in 1 .. Len(k) : (k[i] = 0) = (i = Len(k))
<1>1. k \in Seq(Chars) /\ Len(k) \in Nat /\ \A i \in 1 .. Len(k) - 1 : k[i] # 0
  BY MapAssumption
<1>. QED  BY <1>1

\* Where the codes can run out, update may throw.
LEMMA CodesSuffice == Cardinality(Chars) = CodeMax => MayThrow
  BY MapAssumption, CodeAssumption

----------------------------------------------------------------------------
(* plain_bonsai_map *)

\* It starts as the map that the generic proofs are about,
LEMMA PlainBonsaiInit == PlainBonsai!Init => PB!Init
  BY ZenonT(60) DEF
     PB!Init, PlainBonsai!Init, PB!InitCodes, PlainBonsai!InitCodes, PB!FreshCodes,
     PlainBonsai!FreshCodes, PB!FreshCount, PlainBonsai!FreshCount, PB!NoPtr, PlainBonsai!NoPtr,
     PB!Null, PlainBonsai!Null

\* makes the same steps,
LEMMA PlainBonsaiNext == [PlainBonsai!Next]_objectVars => [PB!Next]_(PB!vars)
  BY ZenonT(60) DEF
     PB!Next, PlainBonsai!Next, PB!Running, PlainBonsai!Running, PB!Call, PlainBonsai!Call,
     PB!Assign, PlainBonsai!Assign, PB!Refuse, PlainBonsai!Refuse, PB!FindNothing,
     PlainBonsai!FindNothing, PB!FirstUpdate, PlainBonsai!FirstUpdate, PB!Descend,
     PlainBonsai!Descend, PB!Match, PlainBonsai!Match, PB!FindStep, PlainBonsai!FindStep,
     PB!FindBranch, PlainBonsai!FindBranch, PB!UpdateStep, PlainBonsai!UpdateStep, PB!Encode,
     PlainBonsai!Encode, PB!UpdateBranch, PlainBonsai!UpdateBranch, PB!Settle, PlainBonsai!Settle,
     PB!SetUpCodes, PlainBonsai!SetUpCodes, PB!GiveCode, PlainBonsai!GiveCode, PB!FreshCodes,
     PlainBonsai!FreshCodes, PB!FreshCount, PlainBonsai!FreshCount, PB!vars, PlainBonsai!vars,
     PB!HasCode, PlainBonsai!HasCode, PB!Legal, PlainBonsai!Legal, PB!Pending, PlainBonsai!Pending,
     PB!Null, PlainBonsai!Null, PB!Thrown, PlainBonsai!Thrown, PB!Pointer, PlainBonsai!Pointer,
     PB!NoPtr, PlainBonsai!NoPtr, PB!Return, PlainBonsai!Return, PB!StepSymb, PlainBonsai!StepSymb,
     PB!MakeSymb, PlainBonsai!MakeSymb, PB!members, PlainBonsai!members, objectVars

\* relies on the same promises,
LEMMA PlainBonsaiPromises == PlainBonsai!PromisesKept => PB!PromisesKept
<1>1. PlainBonsai!NewKept => PB!NewKept
  BY ZenonT(60) DEF
     PB!NewKept, PlainBonsai!NewKept
<1>2. PlainBonsai!FirstKept => PB!FirstKept
  BY ZenonT(60) DEF
     PB!FirstKept, PlainBonsai!FirstKept, PB!AddsRoot, PlainBonsai!AddsRoot, PB!InsertsLabel,
     PlainBonsai!InsertsLabel, PB!SameLabel, PlainBonsai!SameLabel, PB!WellEnded,
     PlainBonsai!WellEnded
<1>3. PlainBonsai!CompareKept => PB!CompareKept
  BY ZenonT(60) DEF
     PB!CompareKept, PlainBonsai!CompareKept, PB!ComparesLabel, PlainBonsai!ComparesLabel,
     PB!WellEnded, PlainBonsai!WellEnded, PB!Rest, PlainBonsai!Rest, PB!BranchChar,
     PlainBonsai!BranchChar, PB!CharOf, PlainBonsai!CharOf
<1>4. PlainBonsai!FindKept => PB!FindKept
  BY ZenonT(60) DEF
     PB!FindKept, PlainBonsai!FindKept, PB!FindsChild, PlainBonsai!FindsChild, PB!ChildrenBy,
     PlainBonsai!ChildrenBy, PB!TrieNodes, PlainBonsai!TrieNodes, PB!StepSymb,
     PlainBonsai!StepSymb, PB!HasCode, PlainBonsai!HasCode, PB!MakeSymb, PlainBonsai!MakeSymb
<1>5. PlainBonsai!AddStepKept => PB!AddStepKept
  BY ZenonT(60) DEF
     PB!AddStepKept, PlainBonsai!AddStepKept, PB!AddingKept, PlainBonsai!AddingKept, PB!AddsChild,
     PlainBonsai!AddsChild, PB!ChildrenBy, PlainBonsai!ChildrenBy, PB!Grows, PlainBonsai!Grows,
     PB!MovesLabels, PlainBonsai!MovesLabels, PB!SameLabel, PlainBonsai!SameLabel, PB!InsertsNone,
     PlainBonsai!InsertsNone, PB!Settle, PlainBonsai!Settle, PB!TrieNodes, PlainBonsai!TrieNodes,
     PB!StepSymb, PlainBonsai!StepSymb
<1>6. PlainBonsai!AddBranchKept => PB!AddBranchKept
  BY ZenonT(60) DEF
     PB!AddBranchKept, PlainBonsai!AddBranchKept, PB!AddingKept, PlainBonsai!AddingKept,
     PB!AddsChild, PlainBonsai!AddsChild, PB!ChildrenBy, PlainBonsai!ChildrenBy, PB!Grows,
     PlainBonsai!Grows, PB!MovesLabels, PlainBonsai!MovesLabels, PB!SameLabel,
     PlainBonsai!SameLabel, PB!InsertsLabel, PlainBonsai!InsertsLabel, PB!Settle,
     PlainBonsai!Settle, PB!TrieNodes, PlainBonsai!TrieNodes, PB!MakeSymb, PlainBonsai!MakeSymb,
     PB!WellEnded, PlainBonsai!WellEnded
<1>7. PlainBonsai!WriteKept => PB!WriteKept
  BY ZenonT(60) DEF
     PB!WriteKept, PlainBonsai!WriteKept, PB!WritesValue, PlainBonsai!WritesValue, PB!SameLabel,
     PlainBonsai!SameLabel
<1>. QED  BY <1>1, <1>2, <1>3, <1>4, <1>5, <1>6, <1>7 DEF PlainBonsai!PromisesKept, PB!PromisesKept

\* is asked the same,
LEMMA PlainBonsaiProperties ==
  PB!TypeOK /\ PB!LabelsFollowNodes /\ PB!BranchesDiffer /\ PB!SizeIsKeys =>
    PlainBonsai!TypeOK /\ PlainBonsai!LabelsFollowNodes /\ PlainBonsai!BranchesDiffer /\ PlainBonsai!SizeIsKeys
  BY ZenonT(60) DEF
     PB!TypeOK, PlainBonsai!TypeOK, PB!LabelsFollowNodes, PlainBonsai!LabelsFollowNodes,
     PB!BranchesDiffer, PlainBonsai!BranchesDiffer, PB!SizeIsKeys, PlainBonsai!SizeIsKeys,
     PB!MatchInKey, PlainBonsai!MatchInKey, PB!KeyLeft, PlainBonsai!KeyLeft, PB!BranchMatch,
     PlainBonsai!BranchMatch, PB!Above, PlainBonsai!Above, PB!KeyAt, PlainBonsai!KeyAt,
     PB!Cardinality, PlainBonsai!Cardinality, PB!TrieNodes, PlainBonsai!TrieNodes, PB!IsStep,
     PlainBonsai!IsStep, PB!KeyNodes, PlainBonsai!KeyNodes, PB!StepSymb, PlainBonsai!StepSymb,
     PB!SymbMatch, PlainBonsai!SymbMatch, PB!CharOf, PlainBonsai!CharOf, PB!BranchChar,
     PlainBonsai!BranchChar, PB!Rest, PlainBonsai!Rest, PB!Places, PlainBonsai!Places, PB!Below,
     PlainBonsai!Below, PB!Place, PlainBonsai!Place

\* and stands for the same array.
LEMMA PlainBonsaiArray ==
  kind = "plain_bonsai" => Store = PB!Store /\ RetValue = PB!RetValue
<1>1. PB!Store = PlainBonsai!Store /\ PB!RetValue = PlainBonsai!RetValue
  BY ZenonT(60) DEF
     PB!Store, PlainBonsai!Store, PB!RetValue, PlainBonsai!RetValue, PB!KeyAt, PlainBonsai!KeyAt,
     PB!StoredAt, PlainBonsai!StoredAt, PB!TrieNodes, PlainBonsai!TrieNodes, PB!IsStep,
     PlainBonsai!IsStep, PB!KeyNodes, PlainBonsai!KeyNodes, PB!StepSymb, PlainBonsai!StepSymb,
     PB!SymbMatch, PlainBonsai!SymbMatch, PB!CharOf, PlainBonsai!CharOf, PB!BranchChar,
     PlainBonsai!BranchChar, PB!Rest, PlainBonsai!Rest, PB!Places, PlainBonsai!Places, PB!Below,
     PlainBonsai!Below, PB!Place, PlainBonsai!Place
<1>. QED  BY <1>1 DEF Store, RetValue, OfKind

\* What is assumed of keys and characters is what the generic proofs assume,
LEMMA PlainBonsaiSetting == Setting => PB!Setting
<1>1. \A k \in Key : PB!Legal(k) => PB!WellEnded(k)
  BY KeysTerminated DEF PB!Legal, PB!WellEnded
<1>. QED  BY <1>1, CodesSuffice, MapAssumption DEF
       Setting, PB!Setting, PB!IsFiniteSet, IsFiniteSet, PB!Cardinality, Cardinality

\* so that they apply to this type:
LEMMA PlainBonsaiKept == kind = "plain_bonsai" /\ Setting /\ PromisesKept => PB!Setting /\ PB!PromisesKept
  BY PlainBonsaiPromises, PlainBonsaiSetting DEF PromisesKept, OfKind

\* to a new object,
LEMMA PlainBonsaiInitial ==
  ASSUME Setting, PromisesKept, kind = "plain_bonsai", PlainBonsai!Init
  PROVE  PB!MapInv /\ Abstract!Init
<1>1. PB!MapInv /\ PB!Abstract!Init
  BY PlainBonsaiKept, PlainBonsaiInit, PB!MapInitial, PB!ArrayInitial, CodeAssumption
<1>. QED  BY <1>1, PlainBonsaiArray DEF
     PB!Abstract!Init, Abstract!Init, PB!Abstract!NoCall, Abstract!NoCall, PB!Abstract!Null,
     Abstract!Null, PB!Abstract!Answer, Abstract!Answer

\* to every step,
LEMMA PlainBonsaiStep ==
  ASSUME Setting, PromisesKept, kind = "plain_bonsai", kind' = kind, PB!MapInv, [PlainBonsai!Next]_objectVars
  PROVE  PB!MapInv' /\ [Abstract!Next]_(Abstract!vars)
<1>1. PB!MapInv' /\ PB!Goes
  BY PlainBonsaiKept, PlainBonsaiNext, PB!MapStep, CodeAssumption
<1>2. (kind = "plain_bonsai" => Store = PB!Store /\ RetValue = PB!RetValue)'
  BY PlainBonsaiArray, PTL
<1>3. PB!Abstract!Next => Abstract!Next
  BY ZenonT(60), <1>2, PlainBonsaiArray DEF
     PB!Abstract!Next, Abstract!Next, PB!Abstract!Invoke, Abstract!Invoke, PB!Abstract!Refuse,
     Abstract!Refuse, PB!Abstract!Find, Abstract!Find, PB!Abstract!Update, Abstract!Update,
     PB!Abstract!Assign, Abstract!Assign, PB!Abstract!Returns, Abstract!Returns,
     PB!Abstract!Registered, Abstract!Registered, PB!Abstract!Answer, Abstract!Answer,
     PB!Abstract!Pending, Abstract!Pending, PB!Abstract!Thrown, Abstract!Thrown, PB!Abstract!Null,
     Abstract!Null, PB!Abstract!Found, Abstract!Found, PB!Legal
<1>. QED  BY <1>1, <1>2, <1>3, PlainBonsaiArray DEF PB!Goes, PB!Abstract!vars, Abstract!vars

\* and to every state.
LEMMA PlainBonsaiSays ==
  ASSUME Setting, PromisesKept, kind = "plain_bonsai", PB!MapInv
  PROVE  TypeOK /\ LabelsFollowNodes /\ BranchesDiffer /\ SizeIsKeys
<1>1. PB!TypeOK /\ PB!LabelsFollowNodes /\ PB!BranchesDiffer /\ PB!SizeIsKeys
  BY PlainBonsaiKept, PB!MapInvSays, CodeAssumption
<1>. QED  BY <1>1, PlainBonsaiProperties DEF TypeOK, LabelsFollowNodes, BranchesDiffer, SizeIsKeys, OfKind

----------------------------------------------------------------------------
(* semi_compact_bonsai_map *)

\* It starts as the map that the generic proofs are about,
LEMMA SemiCompactBonsaiInit == SemiCompactBonsai!Init => SCB!Init
  BY ZenonT(60) DEF
     SCB!Init, SemiCompactBonsai!Init, SCB!InitCodes, SemiCompactBonsai!InitCodes, SCB!FreshCodes,
     SemiCompactBonsai!FreshCodes, SCB!FreshCount, SemiCompactBonsai!FreshCount, SCB!NoPtr,
     SemiCompactBonsai!NoPtr, SCB!Null, SemiCompactBonsai!Null

\* makes the same steps,
LEMMA SemiCompactBonsaiNext == [SemiCompactBonsai!Next]_objectVars => [SCB!Next]_(SCB!vars)
  BY ZenonT(60) DEF
     SCB!Next, SemiCompactBonsai!Next, SCB!Running, SemiCompactBonsai!Running, SCB!Call,
     SemiCompactBonsai!Call, SCB!Assign, SemiCompactBonsai!Assign, SCB!Refuse,
     SemiCompactBonsai!Refuse, SCB!FindNothing, SemiCompactBonsai!FindNothing, SCB!FirstUpdate,
     SemiCompactBonsai!FirstUpdate, SCB!Descend, SemiCompactBonsai!Descend, SCB!Match,
     SemiCompactBonsai!Match, SCB!FindStep, SemiCompactBonsai!FindStep, SCB!FindBranch,
     SemiCompactBonsai!FindBranch, SCB!UpdateStep, SemiCompactBonsai!UpdateStep, SCB!Encode,
     SemiCompactBonsai!Encode, SCB!UpdateBranch, SemiCompactBonsai!UpdateBranch, SCB!Settle,
     SemiCompactBonsai!Settle, SCB!SetUpCodes, SemiCompactBonsai!SetUpCodes, SCB!GiveCode,
     SemiCompactBonsai!GiveCode, SCB!FreshCodes, SemiCompactBonsai!FreshCodes, SCB!FreshCount,
     SemiCompactBonsai!FreshCount, SCB!vars, SemiCompactBonsai!vars, SCB!HasCode,
     SemiCompactBonsai!HasCode, SCB!Legal, SemiCompactBonsai!Legal, SCB!Pending,
     SemiCompactBonsai!Pending, SCB!Null, SemiCompactBonsai!Null, SCB!Thrown,
     SemiCompactBonsai!Thrown, SCB!Pointer, SemiCompactBonsai!Pointer, SCB!NoPtr,
     SemiCompactBonsai!NoPtr, SCB!Return, SemiCompactBonsai!Return, SCB!StepSymb,
     SemiCompactBonsai!StepSymb, SCB!MakeSymb, SemiCompactBonsai!MakeSymb, SCB!members,
     SemiCompactBonsai!members, objectVars

\* relies on the same promises,
LEMMA SemiCompactBonsaiPromises == SemiCompactBonsai!PromisesKept => SCB!PromisesKept
<1>1. SemiCompactBonsai!NewKept => SCB!NewKept
  BY ZenonT(60) DEF
     SCB!NewKept, SemiCompactBonsai!NewKept
<1>2. SemiCompactBonsai!FirstKept => SCB!FirstKept
  BY ZenonT(60) DEF
     SCB!FirstKept, SemiCompactBonsai!FirstKept, SCB!AddsRoot, SemiCompactBonsai!AddsRoot,
     SCB!InsertsLabel, SemiCompactBonsai!InsertsLabel, SCB!SameLabel, SemiCompactBonsai!SameLabel,
     SCB!WellEnded, SemiCompactBonsai!WellEnded
<1>3. SemiCompactBonsai!CompareKept => SCB!CompareKept
  BY ZenonT(60) DEF
     SCB!CompareKept, SemiCompactBonsai!CompareKept, SCB!ComparesLabel,
     SemiCompactBonsai!ComparesLabel, SCB!WellEnded, SemiCompactBonsai!WellEnded, SCB!Rest,
     SemiCompactBonsai!Rest, SCB!BranchChar, SemiCompactBonsai!BranchChar, SCB!CharOf,
     SemiCompactBonsai!CharOf
<1>4. SemiCompactBonsai!FindKept => SCB!FindKept
  BY ZenonT(60) DEF
     SCB!FindKept, SemiCompactBonsai!FindKept, SCB!FindsChild, SemiCompactBonsai!FindsChild,
     SCB!ChildrenBy, SemiCompactBonsai!ChildrenBy, SCB!TrieNodes, SemiCompactBonsai!TrieNodes,
     SCB!StepSymb, SemiCompactBonsai!StepSymb, SCB!HasCode, SemiCompactBonsai!HasCode,
     SCB!MakeSymb, SemiCompactBonsai!MakeSymb
<1>5. SemiCompactBonsai!AddStepKept => SCB!AddStepKept
  BY ZenonT(60) DEF
     SCB!AddStepKept, SemiCompactBonsai!AddStepKept, SCB!AddingKept, SemiCompactBonsai!AddingKept,
     SCB!AddsChild, SemiCompactBonsai!AddsChild, SCB!ChildrenBy, SemiCompactBonsai!ChildrenBy,
     SCB!Grows, SemiCompactBonsai!Grows, SCB!MovesLabels, SemiCompactBonsai!MovesLabels,
     SCB!SameLabel, SemiCompactBonsai!SameLabel, SCB!InsertsNone, SemiCompactBonsai!InsertsNone,
     SCB!Settle, SemiCompactBonsai!Settle, SCB!TrieNodes, SemiCompactBonsai!TrieNodes,
     SCB!StepSymb, SemiCompactBonsai!StepSymb
<1>6. SemiCompactBonsai!AddBranchKept => SCB!AddBranchKept
  BY ZenonT(60) DEF
     SCB!AddBranchKept, SemiCompactBonsai!AddBranchKept, SCB!AddingKept,
     SemiCompactBonsai!AddingKept, SCB!AddsChild, SemiCompactBonsai!AddsChild, SCB!ChildrenBy,
     SemiCompactBonsai!ChildrenBy, SCB!Grows, SemiCompactBonsai!Grows, SCB!MovesLabels,
     SemiCompactBonsai!MovesLabels, SCB!SameLabel, SemiCompactBonsai!SameLabel, SCB!InsertsLabel,
     SemiCompactBonsai!InsertsLabel, SCB!Settle, SemiCompactBonsai!Settle, SCB!TrieNodes,
     SemiCompactBonsai!TrieNodes, SCB!MakeSymb, SemiCompactBonsai!MakeSymb, SCB!WellEnded,
     SemiCompactBonsai!WellEnded
<1>7. SemiCompactBonsai!WriteKept => SCB!WriteKept
  BY ZenonT(60) DEF
     SCB!WriteKept, SemiCompactBonsai!WriteKept, SCB!WritesValue, SemiCompactBonsai!WritesValue,
     SCB!SameLabel, SemiCompactBonsai!SameLabel
<1>. QED  BY <1>1, <1>2, <1>3, <1>4, <1>5, <1>6, <1>7 DEF SemiCompactBonsai!PromisesKept, SCB!PromisesKept

\* is asked the same,
LEMMA SemiCompactBonsaiProperties ==
  SCB!TypeOK /\ SCB!LabelsFollowNodes /\ SCB!BranchesDiffer /\ SCB!SizeIsKeys =>
    SemiCompactBonsai!TypeOK /\ SemiCompactBonsai!LabelsFollowNodes /\ SemiCompactBonsai!BranchesDiffer /\ SemiCompactBonsai!SizeIsKeys
  BY ZenonT(60) DEF
     SCB!TypeOK, SemiCompactBonsai!TypeOK, SCB!LabelsFollowNodes,
     SemiCompactBonsai!LabelsFollowNodes, SCB!BranchesDiffer, SemiCompactBonsai!BranchesDiffer,
     SCB!SizeIsKeys, SemiCompactBonsai!SizeIsKeys, SCB!MatchInKey, SemiCompactBonsai!MatchInKey,
     SCB!KeyLeft, SemiCompactBonsai!KeyLeft, SCB!BranchMatch, SemiCompactBonsai!BranchMatch,
     SCB!Above, SemiCompactBonsai!Above, SCB!KeyAt, SemiCompactBonsai!KeyAt, SCB!Cardinality,
     SemiCompactBonsai!Cardinality, SCB!TrieNodes, SemiCompactBonsai!TrieNodes, SCB!IsStep,
     SemiCompactBonsai!IsStep, SCB!KeyNodes, SemiCompactBonsai!KeyNodes, SCB!StepSymb,
     SemiCompactBonsai!StepSymb, SCB!SymbMatch, SemiCompactBonsai!SymbMatch, SCB!CharOf,
     SemiCompactBonsai!CharOf, SCB!BranchChar, SemiCompactBonsai!BranchChar, SCB!Rest,
     SemiCompactBonsai!Rest, SCB!Places, SemiCompactBonsai!Places, SCB!Below,
     SemiCompactBonsai!Below, SCB!Place, SemiCompactBonsai!Place

\* and stands for the same array.
LEMMA SemiCompactBonsaiArray ==
  kind = "semi_compact_bonsai" => Store = SCB!Store /\ RetValue = SCB!RetValue
<1>1. SCB!Store = SemiCompactBonsai!Store /\ SCB!RetValue = SemiCompactBonsai!RetValue
  BY ZenonT(60) DEF
     SCB!Store, SemiCompactBonsai!Store, SCB!RetValue, SemiCompactBonsai!RetValue, SCB!KeyAt,
     SemiCompactBonsai!KeyAt, SCB!StoredAt, SemiCompactBonsai!StoredAt, SCB!TrieNodes,
     SemiCompactBonsai!TrieNodes, SCB!IsStep, SemiCompactBonsai!IsStep, SCB!KeyNodes,
     SemiCompactBonsai!KeyNodes, SCB!StepSymb, SemiCompactBonsai!StepSymb, SCB!SymbMatch,
     SemiCompactBonsai!SymbMatch, SCB!CharOf, SemiCompactBonsai!CharOf, SCB!BranchChar,
     SemiCompactBonsai!BranchChar, SCB!Rest, SemiCompactBonsai!Rest, SCB!Places,
     SemiCompactBonsai!Places, SCB!Below, SemiCompactBonsai!Below, SCB!Place,
     SemiCompactBonsai!Place
<1>. QED  BY <1>1 DEF Store, RetValue, OfKind

\* What is assumed of keys and characters is what the generic proofs assume,
LEMMA SemiCompactBonsaiSetting == Setting => SCB!Setting
<1>1. \A k \in Key : SCB!Legal(k) => SCB!WellEnded(k)
  BY KeysTerminated DEF SCB!Legal, SCB!WellEnded
<1>. QED  BY <1>1, CodesSuffice, MapAssumption DEF
       Setting, SCB!Setting, SCB!IsFiniteSet, IsFiniteSet, SCB!Cardinality, Cardinality

\* so that they apply to this type:
LEMMA SemiCompactBonsaiKept == kind = "semi_compact_bonsai" /\ Setting /\ PromisesKept => SCB!Setting /\ SCB!PromisesKept
  BY SemiCompactBonsaiPromises, SemiCompactBonsaiSetting DEF PromisesKept, OfKind

\* to a new object,
LEMMA SemiCompactBonsaiInitial ==
  ASSUME Setting, PromisesKept, kind = "semi_compact_bonsai", SemiCompactBonsai!Init
  PROVE  SCB!MapInv /\ Abstract!Init
<1>1. SCB!MapInv /\ SCB!Abstract!Init
  BY SemiCompactBonsaiKept, SemiCompactBonsaiInit, SCB!MapInitial, SCB!ArrayInitial, CodeAssumption
<1>. QED  BY <1>1, SemiCompactBonsaiArray DEF
     SCB!Abstract!Init, Abstract!Init, SCB!Abstract!NoCall, Abstract!NoCall, SCB!Abstract!Null,
     Abstract!Null, SCB!Abstract!Answer, Abstract!Answer

\* to every step,
LEMMA SemiCompactBonsaiStep ==
  ASSUME Setting, PromisesKept, kind = "semi_compact_bonsai", kind' = kind, SCB!MapInv, [SemiCompactBonsai!Next]_objectVars
  PROVE  SCB!MapInv' /\ [Abstract!Next]_(Abstract!vars)
<1>1. SCB!MapInv' /\ SCB!Goes
  BY SemiCompactBonsaiKept, SemiCompactBonsaiNext, SCB!MapStep, CodeAssumption
<1>2. (kind = "semi_compact_bonsai" => Store = SCB!Store /\ RetValue = SCB!RetValue)'
  BY SemiCompactBonsaiArray, PTL
<1>3. SCB!Abstract!Next => Abstract!Next
  BY ZenonT(60), <1>2, SemiCompactBonsaiArray DEF
     SCB!Abstract!Next, Abstract!Next, SCB!Abstract!Invoke, Abstract!Invoke, SCB!Abstract!Refuse,
     Abstract!Refuse, SCB!Abstract!Find, Abstract!Find, SCB!Abstract!Update, Abstract!Update,
     SCB!Abstract!Assign, Abstract!Assign, SCB!Abstract!Returns, Abstract!Returns,
     SCB!Abstract!Registered, Abstract!Registered, SCB!Abstract!Answer, Abstract!Answer,
     SCB!Abstract!Pending, Abstract!Pending, SCB!Abstract!Thrown, Abstract!Thrown,
     SCB!Abstract!Null, Abstract!Null, SCB!Abstract!Found, Abstract!Found, SCB!Legal
<1>. QED  BY <1>1, <1>2, <1>3, SemiCompactBonsaiArray DEF SCB!Goes, SCB!Abstract!vars, Abstract!vars

\* and to every state.
LEMMA SemiCompactBonsaiSays ==
  ASSUME Setting, PromisesKept, kind = "semi_compact_bonsai", SCB!MapInv
  PROVE  TypeOK /\ LabelsFollowNodes /\ BranchesDiffer /\ SizeIsKeys
<1>1. SCB!TypeOK /\ SCB!LabelsFollowNodes /\ SCB!BranchesDiffer /\ SCB!SizeIsKeys
  BY SemiCompactBonsaiKept, SCB!MapInvSays, CodeAssumption
<1>. QED  BY <1>1, SemiCompactBonsaiProperties DEF TypeOK, LabelsFollowNodes, BranchesDiffer, SizeIsKeys, OfKind

----------------------------------------------------------------------------
(* compact_bonsai_map *)

\* It starts as the map that the generic proofs are about,
LEMMA CompactBonsaiInit == CompactBonsai!Init => CB!Init
  BY ZenonT(60) DEF
     CB!Init, CompactBonsai!Init, CB!InitCodes, CompactBonsai!InitCodes, CB!FreshCodes,
     CompactBonsai!FreshCodes, CB!FreshCount, CompactBonsai!FreshCount, CB!NoPtr,
     CompactBonsai!NoPtr, CB!Null, CompactBonsai!Null

\* makes the same steps,
LEMMA CompactBonsaiNext == [CompactBonsai!Next]_objectVars => [CB!Next]_(CB!vars)
  BY ZenonT(60) DEF
     CB!Next, CompactBonsai!Next, CB!Running, CompactBonsai!Running, CB!Call, CompactBonsai!Call,
     CB!Assign, CompactBonsai!Assign, CB!Refuse, CompactBonsai!Refuse, CB!FindNothing,
     CompactBonsai!FindNothing, CB!FirstUpdate, CompactBonsai!FirstUpdate, CB!Descend,
     CompactBonsai!Descend, CB!Match, CompactBonsai!Match, CB!FindStep, CompactBonsai!FindStep,
     CB!FindBranch, CompactBonsai!FindBranch, CB!UpdateStep, CompactBonsai!UpdateStep, CB!Encode,
     CompactBonsai!Encode, CB!UpdateBranch, CompactBonsai!UpdateBranch, CB!Settle,
     CompactBonsai!Settle, CB!SetUpCodes, CompactBonsai!SetUpCodes, CB!GiveCode,
     CompactBonsai!GiveCode, CB!FreshCodes, CompactBonsai!FreshCodes, CB!FreshCount,
     CompactBonsai!FreshCount, CB!vars, CompactBonsai!vars, CB!HasCode, CompactBonsai!HasCode,
     CB!Legal, CompactBonsai!Legal, CB!Pending, CompactBonsai!Pending, CB!Null, CompactBonsai!Null,
     CB!Thrown, CompactBonsai!Thrown, CB!Pointer, CompactBonsai!Pointer, CB!NoPtr,
     CompactBonsai!NoPtr, CB!Return, CompactBonsai!Return, CB!StepSymb, CompactBonsai!StepSymb,
     CB!MakeSymb, CompactBonsai!MakeSymb, CB!members, CompactBonsai!members, objectVars

\* relies on the same promises,
LEMMA CompactBonsaiPromises == CompactBonsai!PromisesKept => CB!PromisesKept
<1>1. CompactBonsai!NewKept => CB!NewKept
  BY ZenonT(60) DEF
     CB!NewKept, CompactBonsai!NewKept
<1>2. CompactBonsai!FirstKept => CB!FirstKept
  BY ZenonT(60) DEF
     CB!FirstKept, CompactBonsai!FirstKept, CB!AddsRoot, CompactBonsai!AddsRoot, CB!InsertsLabel,
     CompactBonsai!InsertsLabel, CB!SameLabel, CompactBonsai!SameLabel, CB!WellEnded,
     CompactBonsai!WellEnded
<1>3. CompactBonsai!CompareKept => CB!CompareKept
  BY ZenonT(60) DEF
     CB!CompareKept, CompactBonsai!CompareKept, CB!ComparesLabel, CompactBonsai!ComparesLabel,
     CB!WellEnded, CompactBonsai!WellEnded, CB!Rest, CompactBonsai!Rest, CB!BranchChar,
     CompactBonsai!BranchChar, CB!CharOf, CompactBonsai!CharOf
<1>4. CompactBonsai!FindKept => CB!FindKept
  BY ZenonT(60) DEF
     CB!FindKept, CompactBonsai!FindKept, CB!FindsChild, CompactBonsai!FindsChild, CB!ChildrenBy,
     CompactBonsai!ChildrenBy, CB!TrieNodes, CompactBonsai!TrieNodes, CB!StepSymb,
     CompactBonsai!StepSymb, CB!HasCode, CompactBonsai!HasCode, CB!MakeSymb, CompactBonsai!MakeSymb
<1>5. CompactBonsai!AddStepKept => CB!AddStepKept
  BY ZenonT(60) DEF
     CB!AddStepKept, CompactBonsai!AddStepKept, CB!AddingKept, CompactBonsai!AddingKept,
     CB!AddsChild, CompactBonsai!AddsChild, CB!ChildrenBy, CompactBonsai!ChildrenBy, CB!Grows,
     CompactBonsai!Grows, CB!MovesLabels, CompactBonsai!MovesLabels, CB!SameLabel,
     CompactBonsai!SameLabel, CB!InsertsNone, CompactBonsai!InsertsNone, CB!Settle,
     CompactBonsai!Settle, CB!TrieNodes, CompactBonsai!TrieNodes, CB!StepSymb,
     CompactBonsai!StepSymb
<1>6. CompactBonsai!AddBranchKept => CB!AddBranchKept
  BY ZenonT(60) DEF
     CB!AddBranchKept, CompactBonsai!AddBranchKept, CB!AddingKept, CompactBonsai!AddingKept,
     CB!AddsChild, CompactBonsai!AddsChild, CB!ChildrenBy, CompactBonsai!ChildrenBy, CB!Grows,
     CompactBonsai!Grows, CB!MovesLabels, CompactBonsai!MovesLabels, CB!SameLabel,
     CompactBonsai!SameLabel, CB!InsertsLabel, CompactBonsai!InsertsLabel, CB!Settle,
     CompactBonsai!Settle, CB!TrieNodes, CompactBonsai!TrieNodes, CB!MakeSymb,
     CompactBonsai!MakeSymb, CB!WellEnded, CompactBonsai!WellEnded
<1>7. CompactBonsai!WriteKept => CB!WriteKept
  BY ZenonT(60) DEF
     CB!WriteKept, CompactBonsai!WriteKept, CB!WritesValue, CompactBonsai!WritesValue,
     CB!SameLabel, CompactBonsai!SameLabel
<1>. QED  BY <1>1, <1>2, <1>3, <1>4, <1>5, <1>6, <1>7 DEF CompactBonsai!PromisesKept, CB!PromisesKept

\* is asked the same,
LEMMA CompactBonsaiProperties ==
  CB!TypeOK /\ CB!LabelsFollowNodes /\ CB!BranchesDiffer /\ CB!SizeIsKeys =>
    CompactBonsai!TypeOK /\ CompactBonsai!LabelsFollowNodes /\ CompactBonsai!BranchesDiffer /\ CompactBonsai!SizeIsKeys
  BY ZenonT(60) DEF
     CB!TypeOK, CompactBonsai!TypeOK, CB!LabelsFollowNodes, CompactBonsai!LabelsFollowNodes,
     CB!BranchesDiffer, CompactBonsai!BranchesDiffer, CB!SizeIsKeys, CompactBonsai!SizeIsKeys,
     CB!MatchInKey, CompactBonsai!MatchInKey, CB!KeyLeft, CompactBonsai!KeyLeft, CB!BranchMatch,
     CompactBonsai!BranchMatch, CB!Above, CompactBonsai!Above, CB!KeyAt, CompactBonsai!KeyAt,
     CB!Cardinality, CompactBonsai!Cardinality, CB!TrieNodes, CompactBonsai!TrieNodes, CB!IsStep,
     CompactBonsai!IsStep, CB!KeyNodes, CompactBonsai!KeyNodes, CB!StepSymb,
     CompactBonsai!StepSymb, CB!SymbMatch, CompactBonsai!SymbMatch, CB!CharOf,
     CompactBonsai!CharOf, CB!BranchChar, CompactBonsai!BranchChar, CB!Rest, CompactBonsai!Rest,
     CB!Places, CompactBonsai!Places, CB!Below, CompactBonsai!Below, CB!Place, CompactBonsai!Place

\* and stands for the same array.
LEMMA CompactBonsaiArray ==
  kind = "compact_bonsai" => Store = CB!Store /\ RetValue = CB!RetValue
<1>1. CB!Store = CompactBonsai!Store /\ CB!RetValue = CompactBonsai!RetValue
  BY ZenonT(60) DEF
     CB!Store, CompactBonsai!Store, CB!RetValue, CompactBonsai!RetValue, CB!KeyAt,
     CompactBonsai!KeyAt, CB!StoredAt, CompactBonsai!StoredAt, CB!TrieNodes,
     CompactBonsai!TrieNodes, CB!IsStep, CompactBonsai!IsStep, CB!KeyNodes, CompactBonsai!KeyNodes,
     CB!StepSymb, CompactBonsai!StepSymb, CB!SymbMatch, CompactBonsai!SymbMatch, CB!CharOf,
     CompactBonsai!CharOf, CB!BranchChar, CompactBonsai!BranchChar, CB!Rest, CompactBonsai!Rest,
     CB!Places, CompactBonsai!Places, CB!Below, CompactBonsai!Below, CB!Place, CompactBonsai!Place
<1>. QED  BY <1>1 DEF Store, RetValue, OfKind

\* What is assumed of keys and characters is what the generic proofs assume,
LEMMA CompactBonsaiSetting == Setting => CB!Setting
<1>1. \A k \in Key : CB!Legal(k) => CB!WellEnded(k)
  BY KeysTerminated DEF CB!Legal, CB!WellEnded
<1>. QED  BY <1>1, CodesSuffice, MapAssumption DEF
       Setting, CB!Setting, CB!IsFiniteSet, IsFiniteSet, CB!Cardinality, Cardinality

\* so that they apply to this type:
LEMMA CompactBonsaiKept == kind = "compact_bonsai" /\ Setting /\ PromisesKept => CB!Setting /\ CB!PromisesKept
  BY CompactBonsaiPromises, CompactBonsaiSetting DEF PromisesKept, OfKind

\* to a new object,
LEMMA CompactBonsaiInitial ==
  ASSUME Setting, PromisesKept, kind = "compact_bonsai", CompactBonsai!Init
  PROVE  CB!MapInv /\ Abstract!Init
<1>1. CB!MapInv /\ CB!Abstract!Init
  BY CompactBonsaiKept, CompactBonsaiInit, CB!MapInitial, CB!ArrayInitial, CodeAssumption
<1>. QED  BY <1>1, CompactBonsaiArray DEF
     CB!Abstract!Init, Abstract!Init, CB!Abstract!NoCall, Abstract!NoCall, CB!Abstract!Null,
     Abstract!Null, CB!Abstract!Answer, Abstract!Answer

\* to every step,
LEMMA CompactBonsaiStep ==
  ASSUME Setting, PromisesKept, kind = "compact_bonsai", kind' = kind, CB!MapInv, [CompactBonsai!Next]_objectVars
  PROVE  CB!MapInv' /\ [Abstract!Next]_(Abstract!vars)
<1>1. CB!MapInv' /\ CB!Goes
  BY CompactBonsaiKept, CompactBonsaiNext, CB!MapStep, CodeAssumption
<1>2. (kind = "compact_bonsai" => Store = CB!Store /\ RetValue = CB!RetValue)'
  BY CompactBonsaiArray, PTL
<1>3. CB!Abstract!Next => Abstract!Next
  BY ZenonT(60), <1>2, CompactBonsaiArray DEF
     CB!Abstract!Next, Abstract!Next, CB!Abstract!Invoke, Abstract!Invoke, CB!Abstract!Refuse,
     Abstract!Refuse, CB!Abstract!Find, Abstract!Find, CB!Abstract!Update, Abstract!Update,
     CB!Abstract!Assign, Abstract!Assign, CB!Abstract!Returns, Abstract!Returns,
     CB!Abstract!Registered, Abstract!Registered, CB!Abstract!Answer, Abstract!Answer,
     CB!Abstract!Pending, Abstract!Pending, CB!Abstract!Thrown, Abstract!Thrown, CB!Abstract!Null,
     Abstract!Null, CB!Abstract!Found, Abstract!Found, CB!Legal
<1>. QED  BY <1>1, <1>2, <1>3, CompactBonsaiArray DEF CB!Goes, CB!Abstract!vars, Abstract!vars

\* and to every state.
LEMMA CompactBonsaiSays ==
  ASSUME Setting, PromisesKept, kind = "compact_bonsai", CB!MapInv
  PROVE  TypeOK /\ LabelsFollowNodes /\ BranchesDiffer /\ SizeIsKeys
<1>1. CB!TypeOK /\ CB!LabelsFollowNodes /\ CB!BranchesDiffer /\ CB!SizeIsKeys
  BY CompactBonsaiKept, CB!MapInvSays, CodeAssumption
<1>. QED  BY <1>1, CompactBonsaiProperties DEF TypeOK, LabelsFollowNodes, BranchesDiffer, SizeIsKeys, OfKind

----------------------------------------------------------------------------
(* plain_fkhash_map *)

\* It starts as the map that the generic proofs are about,
LEMMA PlainFkhashInit == PlainFkhash!Init => PF!Init
  BY ZenonT(60) DEF
     PF!Init, PlainFkhash!Init, PF!InitCodes, PlainFkhash!InitCodes, PF!FreshCodes,
     PlainFkhash!FreshCodes, PF!FreshCount, PlainFkhash!FreshCount, PF!NoPtr, PlainFkhash!NoPtr,
     PF!Null, PlainFkhash!Null

\* makes the same steps,
LEMMA PlainFkhashNext == [PlainFkhash!Next]_objectVars => [PF!Next]_(PF!vars)
  BY ZenonT(60) DEF
     PF!Next, PlainFkhash!Next, PF!Running, PlainFkhash!Running, PF!Call, PlainFkhash!Call,
     PF!Assign, PlainFkhash!Assign, PF!Refuse, PlainFkhash!Refuse, PF!FindNothing,
     PlainFkhash!FindNothing, PF!FirstUpdate, PlainFkhash!FirstUpdate, PF!Descend,
     PlainFkhash!Descend, PF!Match, PlainFkhash!Match, PF!FindStep, PlainFkhash!FindStep,
     PF!FindBranch, PlainFkhash!FindBranch, PF!UpdateStep, PlainFkhash!UpdateStep, PF!Encode,
     PlainFkhash!Encode, PF!UpdateBranch, PlainFkhash!UpdateBranch, PF!Settle, PlainFkhash!Settle,
     PF!SetUpCodes, PlainFkhash!SetUpCodes, PF!GiveCode, PlainFkhash!GiveCode, PF!FreshCodes,
     PlainFkhash!FreshCodes, PF!FreshCount, PlainFkhash!FreshCount, PF!vars, PlainFkhash!vars,
     PF!HasCode, PlainFkhash!HasCode, PF!Legal, PlainFkhash!Legal, PF!Pending, PlainFkhash!Pending,
     PF!Null, PlainFkhash!Null, PF!Thrown, PlainFkhash!Thrown, PF!Pointer, PlainFkhash!Pointer,
     PF!NoPtr, PlainFkhash!NoPtr, PF!Return, PlainFkhash!Return, PF!StepSymb, PlainFkhash!StepSymb,
     PF!MakeSymb, PlainFkhash!MakeSymb, PF!members, PlainFkhash!members, objectVars

\* relies on the same promises,
LEMMA PlainFkhashPromises == PlainFkhash!PromisesKept => PF!PromisesKept
<1>1. PlainFkhash!NewKept => PF!NewKept
  BY ZenonT(60) DEF
     PF!NewKept, PlainFkhash!NewKept
<1>2. PlainFkhash!FirstKept => PF!FirstKept
  BY ZenonT(60) DEF
     PF!FirstKept, PlainFkhash!FirstKept, PF!AddsRoot, PlainFkhash!AddsRoot, PF!InsertsLabel,
     PlainFkhash!InsertsLabel, PF!SameLabel, PlainFkhash!SameLabel, PF!WellEnded,
     PlainFkhash!WellEnded
<1>3. PlainFkhash!CompareKept => PF!CompareKept
  BY ZenonT(60) DEF
     PF!CompareKept, PlainFkhash!CompareKept, PF!ComparesLabel, PlainFkhash!ComparesLabel,
     PF!WellEnded, PlainFkhash!WellEnded, PF!Rest, PlainFkhash!Rest, PF!BranchChar,
     PlainFkhash!BranchChar, PF!CharOf, PlainFkhash!CharOf
<1>4. PlainFkhash!FindKept => PF!FindKept
  BY ZenonT(60) DEF
     PF!FindKept, PlainFkhash!FindKept, PF!FindsChild, PlainFkhash!FindsChild, PF!ChildrenBy,
     PlainFkhash!ChildrenBy, PF!TrieNodes, PlainFkhash!TrieNodes, PF!StepSymb,
     PlainFkhash!StepSymb, PF!HasCode, PlainFkhash!HasCode, PF!MakeSymb, PlainFkhash!MakeSymb
<1>5. PlainFkhash!AddStepKept => PF!AddStepKept
  BY ZenonT(60) DEF
     PF!AddStepKept, PlainFkhash!AddStepKept, PF!AddingKept, PlainFkhash!AddingKept, PF!AddsChild,
     PlainFkhash!AddsChild, PF!ChildrenBy, PlainFkhash!ChildrenBy, PF!Grows, PlainFkhash!Grows,
     PF!MovesLabels, PlainFkhash!MovesLabels, PF!SameLabel, PlainFkhash!SameLabel, PF!InsertsNone,
     PlainFkhash!InsertsNone, PF!Settle, PlainFkhash!Settle, PF!TrieNodes, PlainFkhash!TrieNodes,
     PF!StepSymb, PlainFkhash!StepSymb
<1>6. PlainFkhash!AddBranchKept => PF!AddBranchKept
  BY ZenonT(60) DEF
     PF!AddBranchKept, PlainFkhash!AddBranchKept, PF!AddingKept, PlainFkhash!AddingKept,
     PF!AddsChild, PlainFkhash!AddsChild, PF!ChildrenBy, PlainFkhash!ChildrenBy, PF!Grows,
     PlainFkhash!Grows, PF!MovesLabels, PlainFkhash!MovesLabels, PF!SameLabel,
     PlainFkhash!SameLabel, PF!InsertsLabel, PlainFkhash!InsertsLabel, PF!Settle,
     PlainFkhash!Settle, PF!TrieNodes, PlainFkhash!TrieNodes, PF!MakeSymb, PlainFkhash!MakeSymb,
     PF!WellEnded, PlainFkhash!WellEnded
<1>7. PlainFkhash!WriteKept => PF!WriteKept
  BY ZenonT(60) DEF
     PF!WriteKept, PlainFkhash!WriteKept, PF!WritesValue, PlainFkhash!WritesValue, PF!SameLabel,
     PlainFkhash!SameLabel
<1>. QED  BY <1>1, <1>2, <1>3, <1>4, <1>5, <1>6, <1>7 DEF PlainFkhash!PromisesKept, PF!PromisesKept

\* is asked the same,
LEMMA PlainFkhashProperties ==
  PF!TypeOK /\ PF!LabelsFollowNodes /\ PF!BranchesDiffer /\ PF!SizeIsKeys =>
    PlainFkhash!TypeOK /\ PlainFkhash!LabelsFollowNodes /\ PlainFkhash!BranchesDiffer /\ PlainFkhash!SizeIsKeys
  BY ZenonT(60) DEF
     PF!TypeOK, PlainFkhash!TypeOK, PF!LabelsFollowNodes, PlainFkhash!LabelsFollowNodes,
     PF!BranchesDiffer, PlainFkhash!BranchesDiffer, PF!SizeIsKeys, PlainFkhash!SizeIsKeys,
     PF!MatchInKey, PlainFkhash!MatchInKey, PF!KeyLeft, PlainFkhash!KeyLeft, PF!BranchMatch,
     PlainFkhash!BranchMatch, PF!Above, PlainFkhash!Above, PF!KeyAt, PlainFkhash!KeyAt,
     PF!Cardinality, PlainFkhash!Cardinality, PF!TrieNodes, PlainFkhash!TrieNodes, PF!IsStep,
     PlainFkhash!IsStep, PF!KeyNodes, PlainFkhash!KeyNodes, PF!StepSymb, PlainFkhash!StepSymb,
     PF!SymbMatch, PlainFkhash!SymbMatch, PF!CharOf, PlainFkhash!CharOf, PF!BranchChar,
     PlainFkhash!BranchChar, PF!Rest, PlainFkhash!Rest, PF!Places, PlainFkhash!Places, PF!Below,
     PlainFkhash!Below, PF!Place, PlainFkhash!Place

\* and stands for the same array.
LEMMA PlainFkhashArray ==
  kind = "plain_fkhash" => Store = PF!Store /\ RetValue = PF!RetValue
<1>1. PF!Store = PlainFkhash!Store /\ PF!RetValue = PlainFkhash!RetValue
  BY ZenonT(60) DEF
     PF!Store, PlainFkhash!Store, PF!RetValue, PlainFkhash!RetValue, PF!KeyAt, PlainFkhash!KeyAt,
     PF!StoredAt, PlainFkhash!StoredAt, PF!TrieNodes, PlainFkhash!TrieNodes, PF!IsStep,
     PlainFkhash!IsStep, PF!KeyNodes, PlainFkhash!KeyNodes, PF!StepSymb, PlainFkhash!StepSymb,
     PF!SymbMatch, PlainFkhash!SymbMatch, PF!CharOf, PlainFkhash!CharOf, PF!BranchChar,
     PlainFkhash!BranchChar, PF!Rest, PlainFkhash!Rest, PF!Places, PlainFkhash!Places, PF!Below,
     PlainFkhash!Below, PF!Place, PlainFkhash!Place
<1>. QED  BY <1>1 DEF Store, RetValue, OfKind

\* What is assumed of keys and characters is what the generic proofs assume,
LEMMA PlainFkhashSetting == Setting => PF!Setting
<1>1. \A k \in Key : PF!Legal(k) => PF!WellEnded(k)
  BY KeysTerminated DEF PF!Legal, PF!WellEnded
<1>. QED  BY <1>1, CodesSuffice, MapAssumption DEF
       Setting, PF!Setting, PF!IsFiniteSet, IsFiniteSet, PF!Cardinality, Cardinality

\* so that they apply to this type:
LEMMA PlainFkhashKept == kind = "plain_fkhash" /\ Setting /\ PromisesKept => PF!Setting /\ PF!PromisesKept
  BY PlainFkhashPromises, PlainFkhashSetting DEF PromisesKept, OfKind

\* to a new object,
LEMMA PlainFkhashInitial ==
  ASSUME Setting, PromisesKept, kind = "plain_fkhash", PlainFkhash!Init
  PROVE  PF!MapInv /\ Abstract!Init
<1>1. PF!MapInv /\ PF!Abstract!Init
  BY PlainFkhashKept, PlainFkhashInit, PF!MapInitial, PF!ArrayInitial, CodeAssumption
<1>. QED  BY <1>1, PlainFkhashArray DEF
     PF!Abstract!Init, Abstract!Init, PF!Abstract!NoCall, Abstract!NoCall, PF!Abstract!Null,
     Abstract!Null, PF!Abstract!Answer, Abstract!Answer

\* to every step,
LEMMA PlainFkhashStep ==
  ASSUME Setting, PromisesKept, kind = "plain_fkhash", kind' = kind, PF!MapInv, [PlainFkhash!Next]_objectVars
  PROVE  PF!MapInv' /\ [Abstract!Next]_(Abstract!vars)
<1>1. PF!MapInv' /\ PF!Goes
  BY PlainFkhashKept, PlainFkhashNext, PF!MapStep, CodeAssumption
<1>2. (kind = "plain_fkhash" => Store = PF!Store /\ RetValue = PF!RetValue)'
  BY PlainFkhashArray, PTL
<1>3. PF!Abstract!Next => Abstract!Next
  BY ZenonT(60), <1>2, PlainFkhashArray DEF
     PF!Abstract!Next, Abstract!Next, PF!Abstract!Invoke, Abstract!Invoke, PF!Abstract!Refuse,
     Abstract!Refuse, PF!Abstract!Find, Abstract!Find, PF!Abstract!Update, Abstract!Update,
     PF!Abstract!Assign, Abstract!Assign, PF!Abstract!Returns, Abstract!Returns,
     PF!Abstract!Registered, Abstract!Registered, PF!Abstract!Answer, Abstract!Answer,
     PF!Abstract!Pending, Abstract!Pending, PF!Abstract!Thrown, Abstract!Thrown, PF!Abstract!Null,
     Abstract!Null, PF!Abstract!Found, Abstract!Found, PF!Legal
<1>. QED  BY <1>1, <1>2, <1>3, PlainFkhashArray DEF PF!Goes, PF!Abstract!vars, Abstract!vars

\* and to every state.
LEMMA PlainFkhashSays ==
  ASSUME Setting, PromisesKept, kind = "plain_fkhash", PF!MapInv
  PROVE  TypeOK /\ LabelsFollowNodes /\ BranchesDiffer /\ SizeIsKeys
<1>1. PF!TypeOK /\ PF!LabelsFollowNodes /\ PF!BranchesDiffer /\ PF!SizeIsKeys
  BY PlainFkhashKept, PF!MapInvSays, CodeAssumption
<1>. QED  BY <1>1, PlainFkhashProperties DEF TypeOK, LabelsFollowNodes, BranchesDiffer, SizeIsKeys, OfKind

----------------------------------------------------------------------------
(* semi_compact_fkhash_map *)

\* It starts as the map that the generic proofs are about,
LEMMA SemiCompactFkhashInit == SemiCompactFkhash!Init => SCF!Init
  BY ZenonT(60) DEF
     SCF!Init, SemiCompactFkhash!Init, SCF!InitCodes, SemiCompactFkhash!InitCodes, SCF!FreshCodes,
     SemiCompactFkhash!FreshCodes, SCF!FreshCount, SemiCompactFkhash!FreshCount, SCF!NoPtr,
     SemiCompactFkhash!NoPtr, SCF!Null, SemiCompactFkhash!Null

\* makes the same steps,
LEMMA SemiCompactFkhashNext == [SemiCompactFkhash!Next]_objectVars => [SCF!Next]_(SCF!vars)
  BY ZenonT(60) DEF
     SCF!Next, SemiCompactFkhash!Next, SCF!Running, SemiCompactFkhash!Running, SCF!Call,
     SemiCompactFkhash!Call, SCF!Assign, SemiCompactFkhash!Assign, SCF!Refuse,
     SemiCompactFkhash!Refuse, SCF!FindNothing, SemiCompactFkhash!FindNothing, SCF!FirstUpdate,
     SemiCompactFkhash!FirstUpdate, SCF!Descend, SemiCompactFkhash!Descend, SCF!Match,
     SemiCompactFkhash!Match, SCF!FindStep, SemiCompactFkhash!FindStep, SCF!FindBranch,
     SemiCompactFkhash!FindBranch, SCF!UpdateStep, SemiCompactFkhash!UpdateStep, SCF!Encode,
     SemiCompactFkhash!Encode, SCF!UpdateBranch, SemiCompactFkhash!UpdateBranch, SCF!Settle,
     SemiCompactFkhash!Settle, SCF!SetUpCodes, SemiCompactFkhash!SetUpCodes, SCF!GiveCode,
     SemiCompactFkhash!GiveCode, SCF!FreshCodes, SemiCompactFkhash!FreshCodes, SCF!FreshCount,
     SemiCompactFkhash!FreshCount, SCF!vars, SemiCompactFkhash!vars, SCF!HasCode,
     SemiCompactFkhash!HasCode, SCF!Legal, SemiCompactFkhash!Legal, SCF!Pending,
     SemiCompactFkhash!Pending, SCF!Null, SemiCompactFkhash!Null, SCF!Thrown,
     SemiCompactFkhash!Thrown, SCF!Pointer, SemiCompactFkhash!Pointer, SCF!NoPtr,
     SemiCompactFkhash!NoPtr, SCF!Return, SemiCompactFkhash!Return, SCF!StepSymb,
     SemiCompactFkhash!StepSymb, SCF!MakeSymb, SemiCompactFkhash!MakeSymb, SCF!members,
     SemiCompactFkhash!members, objectVars

\* relies on the same promises,
LEMMA SemiCompactFkhashPromises == SemiCompactFkhash!PromisesKept => SCF!PromisesKept
<1>1. SemiCompactFkhash!NewKept => SCF!NewKept
  BY ZenonT(60) DEF
     SCF!NewKept, SemiCompactFkhash!NewKept
<1>2. SemiCompactFkhash!FirstKept => SCF!FirstKept
  BY ZenonT(60) DEF
     SCF!FirstKept, SemiCompactFkhash!FirstKept, SCF!AddsRoot, SemiCompactFkhash!AddsRoot,
     SCF!InsertsLabel, SemiCompactFkhash!InsertsLabel, SCF!SameLabel, SemiCompactFkhash!SameLabel,
     SCF!WellEnded, SemiCompactFkhash!WellEnded
<1>3. SemiCompactFkhash!CompareKept => SCF!CompareKept
  BY ZenonT(60) DEF
     SCF!CompareKept, SemiCompactFkhash!CompareKept, SCF!ComparesLabel,
     SemiCompactFkhash!ComparesLabel, SCF!WellEnded, SemiCompactFkhash!WellEnded, SCF!Rest,
     SemiCompactFkhash!Rest, SCF!BranchChar, SemiCompactFkhash!BranchChar, SCF!CharOf,
     SemiCompactFkhash!CharOf
<1>4. SemiCompactFkhash!FindKept => SCF!FindKept
  BY ZenonT(60) DEF
     SCF!FindKept, SemiCompactFkhash!FindKept, SCF!FindsChild, SemiCompactFkhash!FindsChild,
     SCF!ChildrenBy, SemiCompactFkhash!ChildrenBy, SCF!TrieNodes, SemiCompactFkhash!TrieNodes,
     SCF!StepSymb, SemiCompactFkhash!StepSymb, SCF!HasCode, SemiCompactFkhash!HasCode,
     SCF!MakeSymb, SemiCompactFkhash!MakeSymb
<1>5. SemiCompactFkhash!AddStepKept => SCF!AddStepKept
  BY ZenonT(60) DEF
     SCF!AddStepKept, SemiCompactFkhash!AddStepKept, SCF!AddingKept, SemiCompactFkhash!AddingKept,
     SCF!AddsChild, SemiCompactFkhash!AddsChild, SCF!ChildrenBy, SemiCompactFkhash!ChildrenBy,
     SCF!Grows, SemiCompactFkhash!Grows, SCF!MovesLabels, SemiCompactFkhash!MovesLabels,
     SCF!SameLabel, SemiCompactFkhash!SameLabel, SCF!InsertsNone, SemiCompactFkhash!InsertsNone,
     SCF!Settle, SemiCompactFkhash!Settle, SCF!TrieNodes, SemiCompactFkhash!TrieNodes,
     SCF!StepSymb, SemiCompactFkhash!StepSymb
<1>6. SemiCompactFkhash!AddBranchKept => SCF!AddBranchKept
  BY ZenonT(60) DEF
     SCF!AddBranchKept, SemiCompactFkhash!AddBranchKept, SCF!AddingKept,
     SemiCompactFkhash!AddingKept, SCF!AddsChild, SemiCompactFkhash!AddsChild, SCF!ChildrenBy,
     SemiCompactFkhash!ChildrenBy, SCF!Grows, SemiCompactFkhash!Grows, SCF!MovesLabels,
     SemiCompactFkhash!MovesLabels, SCF!SameLabel, SemiCompactFkhash!SameLabel, SCF!InsertsLabel,
     SemiCompactFkhash!InsertsLabel, SCF!Settle, SemiCompactFkhash!Settle, SCF!TrieNodes,
     SemiCompactFkhash!TrieNodes, SCF!MakeSymb, SemiCompactFkhash!MakeSymb, SCF!WellEnded,
     SemiCompactFkhash!WellEnded
<1>7. SemiCompactFkhash!WriteKept => SCF!WriteKept
  BY ZenonT(60) DEF
     SCF!WriteKept, SemiCompactFkhash!WriteKept, SCF!WritesValue, SemiCompactFkhash!WritesValue,
     SCF!SameLabel, SemiCompactFkhash!SameLabel
<1>. QED  BY <1>1, <1>2, <1>3, <1>4, <1>5, <1>6, <1>7 DEF SemiCompactFkhash!PromisesKept, SCF!PromisesKept

\* is asked the same,
LEMMA SemiCompactFkhashProperties ==
  SCF!TypeOK /\ SCF!LabelsFollowNodes /\ SCF!BranchesDiffer /\ SCF!SizeIsKeys =>
    SemiCompactFkhash!TypeOK /\ SemiCompactFkhash!LabelsFollowNodes /\ SemiCompactFkhash!BranchesDiffer /\ SemiCompactFkhash!SizeIsKeys
  BY ZenonT(60) DEF
     SCF!TypeOK, SemiCompactFkhash!TypeOK, SCF!LabelsFollowNodes,
     SemiCompactFkhash!LabelsFollowNodes, SCF!BranchesDiffer, SemiCompactFkhash!BranchesDiffer,
     SCF!SizeIsKeys, SemiCompactFkhash!SizeIsKeys, SCF!MatchInKey, SemiCompactFkhash!MatchInKey,
     SCF!KeyLeft, SemiCompactFkhash!KeyLeft, SCF!BranchMatch, SemiCompactFkhash!BranchMatch,
     SCF!Above, SemiCompactFkhash!Above, SCF!KeyAt, SemiCompactFkhash!KeyAt, SCF!Cardinality,
     SemiCompactFkhash!Cardinality, SCF!TrieNodes, SemiCompactFkhash!TrieNodes, SCF!IsStep,
     SemiCompactFkhash!IsStep, SCF!KeyNodes, SemiCompactFkhash!KeyNodes, SCF!StepSymb,
     SemiCompactFkhash!StepSymb, SCF!SymbMatch, SemiCompactFkhash!SymbMatch, SCF!CharOf,
     SemiCompactFkhash!CharOf, SCF!BranchChar, SemiCompactFkhash!BranchChar, SCF!Rest,
     SemiCompactFkhash!Rest, SCF!Places, SemiCompactFkhash!Places, SCF!Below,
     SemiCompactFkhash!Below, SCF!Place, SemiCompactFkhash!Place

\* and stands for the same array.
LEMMA SemiCompactFkhashArray ==
  kind = "semi_compact_fkhash" => Store = SCF!Store /\ RetValue = SCF!RetValue
<1>1. SCF!Store = SemiCompactFkhash!Store /\ SCF!RetValue = SemiCompactFkhash!RetValue
  BY ZenonT(60) DEF
     SCF!Store, SemiCompactFkhash!Store, SCF!RetValue, SemiCompactFkhash!RetValue, SCF!KeyAt,
     SemiCompactFkhash!KeyAt, SCF!StoredAt, SemiCompactFkhash!StoredAt, SCF!TrieNodes,
     SemiCompactFkhash!TrieNodes, SCF!IsStep, SemiCompactFkhash!IsStep, SCF!KeyNodes,
     SemiCompactFkhash!KeyNodes, SCF!StepSymb, SemiCompactFkhash!StepSymb, SCF!SymbMatch,
     SemiCompactFkhash!SymbMatch, SCF!CharOf, SemiCompactFkhash!CharOf, SCF!BranchChar,
     SemiCompactFkhash!BranchChar, SCF!Rest, SemiCompactFkhash!Rest, SCF!Places,
     SemiCompactFkhash!Places, SCF!Below, SemiCompactFkhash!Below, SCF!Place,
     SemiCompactFkhash!Place
<1>. QED  BY <1>1 DEF Store, RetValue, OfKind

\* What is assumed of keys and characters is what the generic proofs assume,
LEMMA SemiCompactFkhashSetting == Setting => SCF!Setting
<1>1. \A k \in Key : SCF!Legal(k) => SCF!WellEnded(k)
  BY KeysTerminated DEF SCF!Legal, SCF!WellEnded
<1>. QED  BY <1>1, CodesSuffice, MapAssumption DEF
       Setting, SCF!Setting, SCF!IsFiniteSet, IsFiniteSet, SCF!Cardinality, Cardinality

\* so that they apply to this type:
LEMMA SemiCompactFkhashKept == kind = "semi_compact_fkhash" /\ Setting /\ PromisesKept => SCF!Setting /\ SCF!PromisesKept
  BY SemiCompactFkhashPromises, SemiCompactFkhashSetting DEF PromisesKept, OfKind

\* to a new object,
LEMMA SemiCompactFkhashInitial ==
  ASSUME Setting, PromisesKept, kind = "semi_compact_fkhash", SemiCompactFkhash!Init
  PROVE  SCF!MapInv /\ Abstract!Init
<1>1. SCF!MapInv /\ SCF!Abstract!Init
  BY SemiCompactFkhashKept, SemiCompactFkhashInit, SCF!MapInitial, SCF!ArrayInitial, CodeAssumption
<1>. QED  BY <1>1, SemiCompactFkhashArray DEF
     SCF!Abstract!Init, Abstract!Init, SCF!Abstract!NoCall, Abstract!NoCall, SCF!Abstract!Null,
     Abstract!Null, SCF!Abstract!Answer, Abstract!Answer

\* to every step,
LEMMA SemiCompactFkhashStep ==
  ASSUME Setting, PromisesKept, kind = "semi_compact_fkhash", kind' = kind, SCF!MapInv, [SemiCompactFkhash!Next]_objectVars
  PROVE  SCF!MapInv' /\ [Abstract!Next]_(Abstract!vars)
<1>1. SCF!MapInv' /\ SCF!Goes
  BY SemiCompactFkhashKept, SemiCompactFkhashNext, SCF!MapStep, CodeAssumption
<1>2. (kind = "semi_compact_fkhash" => Store = SCF!Store /\ RetValue = SCF!RetValue)'
  BY SemiCompactFkhashArray, PTL
<1>3. SCF!Abstract!Next => Abstract!Next
  BY ZenonT(60), <1>2, SemiCompactFkhashArray DEF
     SCF!Abstract!Next, Abstract!Next, SCF!Abstract!Invoke, Abstract!Invoke, SCF!Abstract!Refuse,
     Abstract!Refuse, SCF!Abstract!Find, Abstract!Find, SCF!Abstract!Update, Abstract!Update,
     SCF!Abstract!Assign, Abstract!Assign, SCF!Abstract!Returns, Abstract!Returns,
     SCF!Abstract!Registered, Abstract!Registered, SCF!Abstract!Answer, Abstract!Answer,
     SCF!Abstract!Pending, Abstract!Pending, SCF!Abstract!Thrown, Abstract!Thrown,
     SCF!Abstract!Null, Abstract!Null, SCF!Abstract!Found, Abstract!Found, SCF!Legal
<1>. QED  BY <1>1, <1>2, <1>3, SemiCompactFkhashArray DEF SCF!Goes, SCF!Abstract!vars, Abstract!vars

\* and to every state.
LEMMA SemiCompactFkhashSays ==
  ASSUME Setting, PromisesKept, kind = "semi_compact_fkhash", SCF!MapInv
  PROVE  TypeOK /\ LabelsFollowNodes /\ BranchesDiffer /\ SizeIsKeys
<1>1. SCF!TypeOK /\ SCF!LabelsFollowNodes /\ SCF!BranchesDiffer /\ SCF!SizeIsKeys
  BY SemiCompactFkhashKept, SCF!MapInvSays, CodeAssumption
<1>. QED  BY <1>1, SemiCompactFkhashProperties DEF TypeOK, LabelsFollowNodes, BranchesDiffer, SizeIsKeys, OfKind

----------------------------------------------------------------------------
(* compact_fkhash_map *)

\* It starts as the map that the generic proofs are about,
LEMMA CompactFkhashInit == CompactFkhash!Init => CF!Init
  BY ZenonT(60) DEF
     CF!Init, CompactFkhash!Init, CF!InitCodes, CompactFkhash!InitCodes, CF!FreshCodes,
     CompactFkhash!FreshCodes, CF!FreshCount, CompactFkhash!FreshCount, CF!NoPtr,
     CompactFkhash!NoPtr, CF!Null, CompactFkhash!Null

\* makes the same steps,
LEMMA CompactFkhashNext == [CompactFkhash!Next]_objectVars => [CF!Next]_(CF!vars)
  BY ZenonT(60) DEF
     CF!Next, CompactFkhash!Next, CF!Running, CompactFkhash!Running, CF!Call, CompactFkhash!Call,
     CF!Assign, CompactFkhash!Assign, CF!Refuse, CompactFkhash!Refuse, CF!FindNothing,
     CompactFkhash!FindNothing, CF!FirstUpdate, CompactFkhash!FirstUpdate, CF!Descend,
     CompactFkhash!Descend, CF!Match, CompactFkhash!Match, CF!FindStep, CompactFkhash!FindStep,
     CF!FindBranch, CompactFkhash!FindBranch, CF!UpdateStep, CompactFkhash!UpdateStep, CF!Encode,
     CompactFkhash!Encode, CF!UpdateBranch, CompactFkhash!UpdateBranch, CF!Settle,
     CompactFkhash!Settle, CF!SetUpCodes, CompactFkhash!SetUpCodes, CF!GiveCode,
     CompactFkhash!GiveCode, CF!FreshCodes, CompactFkhash!FreshCodes, CF!FreshCount,
     CompactFkhash!FreshCount, CF!vars, CompactFkhash!vars, CF!HasCode, CompactFkhash!HasCode,
     CF!Legal, CompactFkhash!Legal, CF!Pending, CompactFkhash!Pending, CF!Null, CompactFkhash!Null,
     CF!Thrown, CompactFkhash!Thrown, CF!Pointer, CompactFkhash!Pointer, CF!NoPtr,
     CompactFkhash!NoPtr, CF!Return, CompactFkhash!Return, CF!StepSymb, CompactFkhash!StepSymb,
     CF!MakeSymb, CompactFkhash!MakeSymb, CF!members, CompactFkhash!members, objectVars

\* relies on the same promises,
LEMMA CompactFkhashPromises == CompactFkhash!PromisesKept => CF!PromisesKept
<1>1. CompactFkhash!NewKept => CF!NewKept
  BY ZenonT(60) DEF
     CF!NewKept, CompactFkhash!NewKept
<1>2. CompactFkhash!FirstKept => CF!FirstKept
  BY ZenonT(60) DEF
     CF!FirstKept, CompactFkhash!FirstKept, CF!AddsRoot, CompactFkhash!AddsRoot, CF!InsertsLabel,
     CompactFkhash!InsertsLabel, CF!SameLabel, CompactFkhash!SameLabel, CF!WellEnded,
     CompactFkhash!WellEnded
<1>3. CompactFkhash!CompareKept => CF!CompareKept
  BY ZenonT(60) DEF
     CF!CompareKept, CompactFkhash!CompareKept, CF!ComparesLabel, CompactFkhash!ComparesLabel,
     CF!WellEnded, CompactFkhash!WellEnded, CF!Rest, CompactFkhash!Rest, CF!BranchChar,
     CompactFkhash!BranchChar, CF!CharOf, CompactFkhash!CharOf
<1>4. CompactFkhash!FindKept => CF!FindKept
  BY ZenonT(60) DEF
     CF!FindKept, CompactFkhash!FindKept, CF!FindsChild, CompactFkhash!FindsChild, CF!ChildrenBy,
     CompactFkhash!ChildrenBy, CF!TrieNodes, CompactFkhash!TrieNodes, CF!StepSymb,
     CompactFkhash!StepSymb, CF!HasCode, CompactFkhash!HasCode, CF!MakeSymb, CompactFkhash!MakeSymb
<1>5. CompactFkhash!AddStepKept => CF!AddStepKept
  BY ZenonT(60) DEF
     CF!AddStepKept, CompactFkhash!AddStepKept, CF!AddingKept, CompactFkhash!AddingKept,
     CF!AddsChild, CompactFkhash!AddsChild, CF!ChildrenBy, CompactFkhash!ChildrenBy, CF!Grows,
     CompactFkhash!Grows, CF!MovesLabels, CompactFkhash!MovesLabels, CF!SameLabel,
     CompactFkhash!SameLabel, CF!InsertsNone, CompactFkhash!InsertsNone, CF!Settle,
     CompactFkhash!Settle, CF!TrieNodes, CompactFkhash!TrieNodes, CF!StepSymb,
     CompactFkhash!StepSymb
<1>6. CompactFkhash!AddBranchKept => CF!AddBranchKept
  BY ZenonT(60) DEF
     CF!AddBranchKept, CompactFkhash!AddBranchKept, CF!AddingKept, CompactFkhash!AddingKept,
     CF!AddsChild, CompactFkhash!AddsChild, CF!ChildrenBy, CompactFkhash!ChildrenBy, CF!Grows,
     CompactFkhash!Grows, CF!MovesLabels, CompactFkhash!MovesLabels, CF!SameLabel,
     CompactFkhash!SameLabel, CF!InsertsLabel, CompactFkhash!InsertsLabel, CF!Settle,
     CompactFkhash!Settle, CF!TrieNodes, CompactFkhash!TrieNodes, CF!MakeSymb,
     CompactFkhash!MakeSymb, CF!WellEnded, CompactFkhash!WellEnded
<1>7. CompactFkhash!WriteKept => CF!WriteKept
  BY ZenonT(60) DEF
     CF!WriteKept, CompactFkhash!WriteKept, CF!WritesValue, CompactFkhash!WritesValue,
     CF!SameLabel, CompactFkhash!SameLabel
<1>. QED  BY <1>1, <1>2, <1>3, <1>4, <1>5, <1>6, <1>7 DEF CompactFkhash!PromisesKept, CF!PromisesKept

\* is asked the same,
LEMMA CompactFkhashProperties ==
  CF!TypeOK /\ CF!LabelsFollowNodes /\ CF!BranchesDiffer /\ CF!SizeIsKeys =>
    CompactFkhash!TypeOK /\ CompactFkhash!LabelsFollowNodes /\ CompactFkhash!BranchesDiffer /\ CompactFkhash!SizeIsKeys
  BY ZenonT(60) DEF
     CF!TypeOK, CompactFkhash!TypeOK, CF!LabelsFollowNodes, CompactFkhash!LabelsFollowNodes,
     CF!BranchesDiffer, CompactFkhash!BranchesDiffer, CF!SizeIsKeys, CompactFkhash!SizeIsKeys,
     CF!MatchInKey, CompactFkhash!MatchInKey, CF!KeyLeft, CompactFkhash!KeyLeft, CF!BranchMatch,
     CompactFkhash!BranchMatch, CF!Above, CompactFkhash!Above, CF!KeyAt, CompactFkhash!KeyAt,
     CF!Cardinality, CompactFkhash!Cardinality, CF!TrieNodes, CompactFkhash!TrieNodes, CF!IsStep,
     CompactFkhash!IsStep, CF!KeyNodes, CompactFkhash!KeyNodes, CF!StepSymb,
     CompactFkhash!StepSymb, CF!SymbMatch, CompactFkhash!SymbMatch, CF!CharOf,
     CompactFkhash!CharOf, CF!BranchChar, CompactFkhash!BranchChar, CF!Rest, CompactFkhash!Rest,
     CF!Places, CompactFkhash!Places, CF!Below, CompactFkhash!Below, CF!Place, CompactFkhash!Place

\* and stands for the same array.
LEMMA CompactFkhashArray ==
  kind = "compact_fkhash" => Store = CF!Store /\ RetValue = CF!RetValue
<1>1. CF!Store = CompactFkhash!Store /\ CF!RetValue = CompactFkhash!RetValue
  BY ZenonT(60) DEF
     CF!Store, CompactFkhash!Store, CF!RetValue, CompactFkhash!RetValue, CF!KeyAt,
     CompactFkhash!KeyAt, CF!StoredAt, CompactFkhash!StoredAt, CF!TrieNodes,
     CompactFkhash!TrieNodes, CF!IsStep, CompactFkhash!IsStep, CF!KeyNodes, CompactFkhash!KeyNodes,
     CF!StepSymb, CompactFkhash!StepSymb, CF!SymbMatch, CompactFkhash!SymbMatch, CF!CharOf,
     CompactFkhash!CharOf, CF!BranchChar, CompactFkhash!BranchChar, CF!Rest, CompactFkhash!Rest,
     CF!Places, CompactFkhash!Places, CF!Below, CompactFkhash!Below, CF!Place, CompactFkhash!Place
<1>. QED  BY <1>1 DEF Store, RetValue, OfKind

\* What is assumed of keys and characters is what the generic proofs assume,
LEMMA CompactFkhashSetting == Setting => CF!Setting
<1>1. \A k \in Key : CF!Legal(k) => CF!WellEnded(k)
  BY KeysTerminated DEF CF!Legal, CF!WellEnded
<1>. QED  BY <1>1, CodesSuffice, MapAssumption DEF
       Setting, CF!Setting, CF!IsFiniteSet, IsFiniteSet, CF!Cardinality, Cardinality

\* so that they apply to this type:
LEMMA CompactFkhashKept == kind = "compact_fkhash" /\ Setting /\ PromisesKept => CF!Setting /\ CF!PromisesKept
  BY CompactFkhashPromises, CompactFkhashSetting DEF PromisesKept, OfKind

\* to a new object,
LEMMA CompactFkhashInitial ==
  ASSUME Setting, PromisesKept, kind = "compact_fkhash", CompactFkhash!Init
  PROVE  CF!MapInv /\ Abstract!Init
<1>1. CF!MapInv /\ CF!Abstract!Init
  BY CompactFkhashKept, CompactFkhashInit, CF!MapInitial, CF!ArrayInitial, CodeAssumption
<1>. QED  BY <1>1, CompactFkhashArray DEF
     CF!Abstract!Init, Abstract!Init, CF!Abstract!NoCall, Abstract!NoCall, CF!Abstract!Null,
     Abstract!Null, CF!Abstract!Answer, Abstract!Answer

\* to every step,
LEMMA CompactFkhashStep ==
  ASSUME Setting, PromisesKept, kind = "compact_fkhash", kind' = kind, CF!MapInv, [CompactFkhash!Next]_objectVars
  PROVE  CF!MapInv' /\ [Abstract!Next]_(Abstract!vars)
<1>1. CF!MapInv' /\ CF!Goes
  BY CompactFkhashKept, CompactFkhashNext, CF!MapStep, CodeAssumption
<1>2. (kind = "compact_fkhash" => Store = CF!Store /\ RetValue = CF!RetValue)'
  BY CompactFkhashArray, PTL
<1>3. CF!Abstract!Next => Abstract!Next
  BY ZenonT(60), <1>2, CompactFkhashArray DEF
     CF!Abstract!Next, Abstract!Next, CF!Abstract!Invoke, Abstract!Invoke, CF!Abstract!Refuse,
     Abstract!Refuse, CF!Abstract!Find, Abstract!Find, CF!Abstract!Update, Abstract!Update,
     CF!Abstract!Assign, Abstract!Assign, CF!Abstract!Returns, Abstract!Returns,
     CF!Abstract!Registered, Abstract!Registered, CF!Abstract!Answer, Abstract!Answer,
     CF!Abstract!Pending, Abstract!Pending, CF!Abstract!Thrown, Abstract!Thrown, CF!Abstract!Null,
     Abstract!Null, CF!Abstract!Found, Abstract!Found, CF!Legal
<1>. QED  BY <1>1, <1>2, <1>3, CompactFkhashArray DEF CF!Goes, CF!Abstract!vars, Abstract!vars

\* and to every state.
LEMMA CompactFkhashSays ==
  ASSUME Setting, PromisesKept, kind = "compact_fkhash", CF!MapInv
  PROVE  TypeOK /\ LabelsFollowNodes /\ BranchesDiffer /\ SizeIsKeys
<1>1. CF!TypeOK /\ CF!LabelsFollowNodes /\ CF!BranchesDiffer /\ CF!SizeIsKeys
  BY CompactFkhashKept, CF!MapInvSays, CodeAssumption
<1>. QED  BY <1>1, CompactFkhashProperties DEF TypeOK, LabelsFollowNodes, BranchesDiffer, SizeIsKeys, OfKind

----------------------------------------------------------------------------
\* The inductive invariant: that of MapProofs, for the type of the object.
MapInv ==
  \/ kind = "plain_bonsai" /\ PB!MapInv
  \/ kind = "semi_compact_bonsai" /\ SCB!MapInv
  \/ kind = "compact_bonsai" /\ CB!MapInv
  \/ kind = "plain_fkhash" /\ PF!MapInv
  \/ kind = "semi_compact_fkhash" /\ SCF!MapInv
  \/ kind = "compact_fkhash" /\ CF!MapInv

\* It holds of a new object, which is the empty array,
LEMMA MapInitial ==
  ASSUME Setting, Init, PromisesKept
  PROVE  MapInv /\ Abstract!Init
  BY PlainBonsaiInitial, SemiCompactBonsaiInitial, CompactBonsaiInitial, PlainFkhashInitial,
     SemiCompactFkhashInitial, CompactFkhashInitial DEF Init, MapInv

\* every step keeps it and is a step of the array or none,
LEMMA MapStep ==
  ASSUME Setting, MapInv, PromisesKept, [Next]_vars
  PROVE  MapInv' /\ [Abstract!Next]_(Abstract!vars)
  BY PlainBonsaiStep, SemiCompactBonsaiStep, CompactBonsaiStep, PlainFkhashStep,
     SemiCompactFkhashStep, CompactFkhashStep DEF MapInv, Next, vars

\* and it says what is asked of every state.
LEMMA MapInvSays ==
  ASSUME Setting, MapInv, PromisesKept
  PROVE  TypeOK /\ LabelsFollowNodes /\ BranchesDiffer /\ SizeIsKeys
  BY PlainBonsaiSays, SemiCompactBonsaiSays, CompactBonsaiSays, PlainFkhashSays,
     SemiCompactFkhashSays, CompactFkhashSays DEF MapInv

\* So it always holds.
LEMMA MapInvAlways ==
  ASSUME Setting
  PROVE  Spec /\ []PromisesKept => []MapInv /\ Abstract!Init /\ [][Abstract!Next]_(Abstract!vars)
<1>1. Init /\ PromisesKept => MapInv /\ Abstract!Init
  BY MapInitial
<1>2. MapInv /\ PromisesKept /\ [Next]_vars => MapInv' /\ [Abstract!Next]_(Abstract!vars)
  BY MapStep
<1>. QED  BY <1>1, <1>2, PTL DEF Spec

\* The types of all variables; and a walk compares with the label of a node of
\* the trie only and stops before the end of its key.
THEOREM TypesCorrect ==
  ASSUME Setting
  PROVE  Spec /\ []PromisesKept => []TypeOK
<1>1. MapInv /\ PromisesKept => TypeOK
  BY MapInvSays
<1>. QED  BY <1>1, MapInvAlways, PTL

\* Exactly the nodes that stand for a key have a label, whenever and however
\* often the table grows.
THEOREM LabelsFollow ==
  ASSUME Setting
  PROVE  Spec /\ []PromisesKept => []LabelsFollowNodes
<1>1. MapInv /\ PromisesKept => LabelsFollowNodes
  BY MapInvSays
<1>. QED  BY <1>1, MapInvAlways, PTL

\* Every child branches off inside its parent's label, with another character
\* than the label has there.
THEOREM BranchesCorrect ==
  ASSUME Setting
  PROVE  Spec /\ []PromisesKept => []BranchesDiffer
<1>1. MapInv /\ PromisesKept => BranchesDiffer
  BY MapInvSays
<1>. QED  BY <1>1, MapInvAlways, PTL

\* size() is the number of keys, and no key has two nodes.
THEOREM SizeCorrect ==
  ASSUME Setting
  PROVE  Spec /\ []PromisesKept => []SizeIsKeys
<1>1. MapInv /\ PromisesKept => SizeIsKeys
  BY MapInvSays
<1>. QED  BY <1>1, MapInvAlways, PTL

\* Each of the six types is the associative array that its users are promised:
\* growth, codes and exceptions are steps of the array or change nothing of it.
THEOREM MapImplements ==
  ASSUME Setting
  PROVE  Spec /\ []PromisesKept => ImplementsAssocArray
BY MapInvAlways, PTL DEF ImplementsAssocArray, Abstract!Spec
=============================================================================
