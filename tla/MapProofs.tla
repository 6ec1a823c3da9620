----------------------------- MODULE MapProofs -----------------------------
(***************************************************************************)
(* Proofs about map, for every trie, every node label map and every number *)
(* of characters that a byte has codes for.  First the codes, which need   *)
(* nothing of the trie and the labels; then, for a trie and labels that    *)
(* keep their promises (PromisesKept), the path decomposition the map      *)
(* builds, the walks of find and update in it, and the associative array   *)
(* that it implements.                                                     *)
(***************************************************************************)
EXTENDS Map, FiniteSetTheorems, SequenceTheorems, WellFoundedInduction, TLAPS

\* The characters that have a code.
Coded == {c \in Chars : HasCode(c)}

\* The counter is the number of characters that have a code, and those are
\* numbered below it; a walk runs, and a branch is tried, only with a table and
\* a code.
CodeInv ==
  /\ is_ready \in BOOLEAN /\ num_codes \in Nat /\ codes \in [Chars -> 0 .. CodeMax]
  /\ is_ready =>
       /\ num_codes = Cardinality(Coded)
       /\ \A c \in Coded : codes[c] < num_codes
       /\ \A c, d \in Coded : codes[c] = codes[d] => c = d
  /\ pc \in {"compare", "step", "branch"} => is_ready
  /\ CodeAssigned

CodeVars == <<is_ready, codes, num_codes>>

\* A table that is set up gives one code, to the terminator.
LEMMA FreshTable ==
  ASSUME codes' = FreshCodes, num_codes' = FreshCount
  PROVE  /\ num_codes' \in Nat /\ codes' \in [Chars -> 0 .. CodeMax]
         /\ num_codes' = Cardinality(Coded')
         /\ \A c \in Coded' : codes'[c] < num_codes'
         /\ \A c, d \in Coded' : codes'[c] = codes'[d] => c = d
<1>1. Coded' = {0}
  BY CodeAssumption DEF Coded, HasCode, FreshCodes
<1>2. Cardinality(Coded') = 1
  BY <1>1, FS_Singleton
<1>. QED
  BY <1>1, <1>2, CodeAssumption DEF FreshCodes, FreshCount

\* The next code is free, and it is a code: there are as many as characters.
LEMMA NextCode ==
  ASSUME IsFiniteSet(Chars), Cardinality(Chars) <= CodeMax,
         CodeInv, is_ready, NEW c \in Chars, ~HasCode(c), GiveCode(c)
  PROVE  /\ num_codes' \in Nat /\ codes' \in [Chars -> 0 .. CodeMax]
         /\ num_codes' = Cardinality(Coded')
         /\ \A d \in Coded' : codes'[d] < num_codes'
         /\ \A d, e \in Coded' : codes'[d] = codes'[e] => d = e
         /\ codes'[c] # CodeMax
<1>1. IsFiniteSet(Coded) /\ c \notin Coded
  BY FS_Subset DEF Coded
<1>2. IsFiniteSet(Coded \cup {c}) /\ Cardinality(Coded \cup {c}) = num_codes + 1
  BY <1>1, FS_AddElement DEF CodeInv
<1>3. Cardinality(Coded \cup {c}) <= Cardinality(Chars)
  BY <1>2, FS_Subset DEF Coded
<1>4. num_codes < CodeMax
  BY <1>2, <1>3, FS_CardinalityType, CodeAssumption DEF CodeInv
<1>5. num_codes % (CodeMax + 1) = num_codes
  BY <1>4, CodeAssumption DEF CodeInv
<1>6. codes' = [codes EXCEPT ![c] = num_codes] /\ num_codes' = num_codes + 1
  BY <1>5 DEF GiveCode
<1>7. Coded' = Coded \cup {c}
  BY <1>4, <1>6, CodeAssumption DEF Coded, HasCode, CodeInv
<1>8. codes' \in [Chars -> 0 .. CodeMax] /\ codes'[c] = num_codes
  BY <1>4, <1>6, CodeAssumption DEF CodeInv
<1>9. \A d \in Coded : codes'[d] = codes[d] /\ codes[d] < num_codes /\ codes[d] \in Nat
  BY <1>1, <1>6 DEF CodeInv, Coded
<1>. QED
  BY <1>2, <1>4, <1>6, <1>7, <1>8, <1>9, CodeAssumption DEF CodeInv

\* Initially no walk runs, and a table that is there is a fresh one.
LEMMA CodesInitial == Init => CodeInv
<1>. SUFFICES ASSUME Init PROVE CodeInv
  OBVIOUS
<1>1. CASE is_ready
  <2>1. Coded = {0}
    BY <1>1, CodeAssumption DEF Init, InitCodes, Coded, HasCode, FreshCodes
  <2>2. Cardinality(Coded) = 1
    BY <2>1, FS_Singleton
  <2>. QED
    BY <1>1, <2>1, <2>2, CodeAssumption
    DEF Init, InitCodes, CodeInv, CodeAssigned, FreshCodes, FreshCount
<1>2. CASE ~is_ready
  BY <1>2, CodeAssumption DEF Init, InitCodes, CodeInv, CodeAssigned
<1>. QED  BY <1>1, <1>2

\* A step that gives no code keeps the table in order.
LEMMA TableKept ==
  ASSUME CodeInv, UNCHANGED CodeVars,
         pc' \in {"compare", "step", "branch"} => is_ready,
         pc' # "branch"
  PROVE  CodeInv'
<1>1. Coded' = Coded
  BY DEF Coded, HasCode, CodeVars
<1>. QED
  BY <1>1 DEF CodeInv, CodeVars, CodeAssigned

\* The steps other than those of the first update and of Encode give no code.
LEMMA OtherSteps ==
  ASSUME CodeInv, [Next]_vars, ~FirstUpdate, ~Encode, pc # "branch" \/ ~UNCHANGED vars
  PROVE  CodeInv'
<1>1. ASSUME NEW op \in {"find", "update"}, NEW k \in Key, Call(op, k)
      PROVE  CodeInv'
  BY <1>1, TableKept DEF Call, members, CodeVars
<1>2. ASSUME NEW v \in UNION {ValueOf(k) : k \in Key}, Assign(v)
      PROVE  CodeInv'
  BY <1>2, TableKept DEF Assign, CodeVars
<1>3. CASE Refuse
  BY <1>3, TableKept DEF Refuse, Return, members, CodeVars
<1>4. CASE FindNothing
  BY <1>4, TableKept DEF FindNothing, Return, members, CodeVars
<1>5. CASE Descend
  BY <1>5, TableKept DEF Descend, members, CodeVars
<1>6. CASE Match
  <2>1. is_ready /\ pc' \in {"idle", "step"}
    BY <1>6 DEF Match, Return, CodeInv
  <2>. QED
    BY <1>6, <2>1, TableKept DEF Match, members, CodeVars
<1>7. CASE FindStep
  <2>1. is_ready /\ pc' \in {"idle", "step"}
    BY <1>7 DEF FindStep, Return, CodeInv
  <2>. QED
    BY <1>7, <2>1, TableKept DEF FindStep, members, CodeVars
<1>8. CASE FindBranch
  <2>1. is_ready /\ pc' \in {"idle", "compare"}
    BY <1>8 DEF FindBranch, Return, CodeInv
  <2>. QED
    BY <1>8, <2>1, TableKept DEF FindBranch, members, CodeVars
<1>9. CASE UpdateStep
  BY <1>9, TableKept DEF UpdateStep, CodeVars, CodeInv
<1>10. CASE UpdateBranch
  <2>1. is_ready /\ pc' \in {"idle", "compare"}
    BY <1>10 DEF UpdateBranch, Return, CodeInv
  <2>. QED
    BY <1>10, <2>1, TableKept DEF UpdateBranch, CodeVars
<1>11. CASE UNCHANGED vars
  BY <1>11, TableKept DEF vars, CodeVars, CodeInv
<1>. QED
  BY <1>1, <1>2, <1>3, <1>4, <1>5, <1>6, <1>7, <1>8, <1>9, <1>10, <1>11 DEF Next, Running

\* The table is set up by the first update only if no constructor did it.
LEMMA FirstUpdateStep ==
  ASSUME CodeInv, FirstUpdate
  PROVE  CodeInv'
<1>1. pc' = "idle" /\ is_ready' /\ is_ready' \in BOOLEAN
  BY DEF FirstUpdate, Return, SetUpCodes
<1>2. CASE is_ready
  <2>1. UNCHANGED CodeVars
    BY <1>1, <1>2 DEF FirstUpdate, SetUpCodes, CodeVars, CodeInv
  <2>. QED
    BY <1>1, <2>1, TableKept
<1>3. CASE ~is_ready
  <2>1. codes' = FreshCodes /\ num_codes' = FreshCount
    BY <1>3 DEF FirstUpdate, SetUpCodes
  <2>. QED
    BY <1>1, <2>1, FreshTable DEF CodeInv, CodeAssigned
<1>. QED
  BY <1>2, <1>3

\* A branch is tried only once its character has a code.
LEMMA EncodeStep ==
  ASSUME IsFiniteSet(Chars), Cardinality(Chars) <= CodeMax,
         CodeInv, KeyLeft, Encode
  PROVE  CodeInv'
<1>1. is_ready /\ is_ready' = is_ready /\ Head(key) \in Chars
  BY DEF Encode, CodeInv, KeyLeft
<1>2. pc' \in {"idle", "branch"} /\ (pc' = "branch" => key' = key)
  BY DEF Encode, Return
<1>3. CASE HasCode(Head(key))
  <2>1. UNCHANGED CodeVars /\ Coded' = Coded
    BY <1>1, <1>3 DEF Encode, CodeVars, Coded, HasCode
  <2>2. CodeAssigned'
    BY <1>2, <1>3, <2>1 DEF CodeAssigned, HasCode, CodeVars
  <2>. QED
    BY <1>1, <2>1, <2>2 DEF CodeInv, CodeVars
<1>4. CASE ~HasCode(Head(key))
  <2>1. GiveCode(Head(key))
    BY <1>4 DEF Encode
  <2>2. /\ num_codes' \in Nat /\ codes' \in [Chars -> 0 .. CodeMax]
        /\ num_codes' = Cardinality(Coded')
        /\ \A d \in Coded' : codes'[d] < num_codes'
        /\ \A d, e \in Coded' : codes'[d] = codes'[e] => d = e
        /\ codes'[Head(key)] # CodeMax
    BY <1>1, <1>4, <2>1, NextCode
  <2>3. CodeAssigned'
    BY <1>2, <2>2 DEF CodeAssigned, HasCode
  <2>. QED
    BY <1>1, <2>2, <2>3 DEF CodeInv
<1>. QED
  BY <1>3, <1>4

\* Every step keeps the codes in order.
LEMMA CodesStep ==
  ASSUME IsFiniteSet(Chars), Cardinality(Chars) <= CodeMax,
         CodeInv, KeyLeft, [Next]_vars
  PROVE  CodeInv'
<1>1. CASE pc = "branch" /\ UNCHANGED vars
  <2>1. Coded' = Coded
    BY <1>1 DEF vars, Coded, HasCode
  <2>. QED
    BY <1>1, <2>1 DEF vars, CodeInv, CodeAssigned, HasCode
<1>2. CASE pc # "branch" \/ ~UNCHANGED vars
  BY <1>2, OtherSteps, FirstUpdateStep, EncodeStep
<1>. QED
  BY <1>1, <1>2

----------------------------------------------------------------------------
\* The rest of a key is empty or ends with the terminator, and it is not empty
\* where a character of it is read.
Terminated(k) == k \in Seq(Chars) /\ (k # <<>> => k[Len(k)] = 0)

KeyInv ==
  /\ key \in Seq(Chars)
  /\ pc # "start" => Terminated(key)
  /\ pc \in {"step", "branch"} => key # <<>>

\* What is left of a terminated key behind a position in it is terminated.
LEMMA RestTerminated ==
  ASSUME NEW k, Terminated(k), NEW j \in 0 .. Len(k) - 1
  PROVE  LET r == SubSeq(k, j + 1, Len(k)) IN Terminated(r) /\ r # <<>>
<1>. DEFINE r == SubSeq(k, j + 1, Len(k))
<1>1. Len(k) \in Nat /\ j \in Nat /\ j < Len(k)
  BY DEF Terminated
<1>2. r \in Seq(Chars) /\ Len(r) = Len(k) - j
  BY <1>1, SubSeqProperties DEF Terminated
<1>3. r[Len(r)] = k[Len(k)]
  BY <1>1, <1>2, SubSeqProperties DEF Terminated
<1>. HIDE DEF r
<1>4. Len(k) # 0 /\ Len(r) # 0
  BY <1>1, <1>2
<1>5. k # <<>> /\ r # <<>>
  BY <1>4, EmptySeq
<1>6. Terminated(r) /\ r # <<>>
  BY <1>2, <1>3, <1>5 DEF Terminated
<1>. QED
  BY <1>6 DEF r

\* What a walk still has to match keeps its terminator.
LEMMA TailTerminated ==
  ASSUME NEW k, Terminated(k), k # <<>>
  PROVE  Terminated(Tail(k))
<1>1. /\ Tail(k) \in Seq(Chars) /\ Len(Tail(k)) = Len(k) - 1
      /\ \A i \in 1 .. Len(Tail(k)) : Tail(k)[i] = k[i + 1]
  BY HeadTailProperties DEF Terminated
<1>2. ASSUME Tail(k) # <<>>
      PROVE  Tail(k)[Len(Tail(k))] = 0
  <2>1. Len(Tail(k)) \in Nat /\ Len(Tail(k)) # 0
    BY <1>1, <1>2, EmptySeq
  <2>2. Tail(k)[Len(Tail(k))] = k[Len(k)]
    BY <1>1, <2>1 DEF Terminated
  <2>. QED
    BY <2>2 DEF Terminated
<1>. QED
  BY <1>1, <1>2 DEF Terminated

\* A call that returns, or has nothing to match, leaves an empty key behind.
LEMMA EmptyTerminated == Terminated(<<>>)
  BY EmptySeq DEF Terminated

\* Every step keeps the key terminated if compare stops before its end.
LEMMA KeyStep ==
  ASSUME Key \subseteq Seq(Chars), KeyInv, MatchInKey, [Next]_vars
  PROVE  KeyInv'
<1>0. ASSUME NEW r, Return(r)
      PROVE  KeyInv'
  BY <1>0, EmptyTerminated DEF Return, KeyInv, Terminated
<1>1. ASSUME NEW op \in {"find", "update"}, NEW k \in Key, Call(op, k)
      PROVE  KeyInv'
  BY <1>1 DEF Call, KeyInv
<1>2. ASSUME NEW v \in UNION {ValueOf(k) : k \in Key}, Assign(v)
      PROVE  KeyInv'
  BY <1>2 DEF Assign, KeyInv, Terminated
<1>3. CASE Refuse \/ FindNothing \/ FirstUpdate
  BY <1>0, <1>3 DEF Refuse, FindNothing, FirstUpdate
<1>4. CASE Descend
  BY <1>4 DEF Descend, Legal, KeyInv, Terminated
<1>5. CASE Match
  <2>. DEFINE r == Compare(label_store, node_id, key)
  <2>1. CASE r.found
    BY <1>0, <1>5, <2>1 DEF Match
  <2>2. CASE ~r.found
    <3>1. Terminated(key) /\ r.match \in 0 .. Len(key) - 1
      BY <1>5, <2>2 DEF Match, KeyInv, MatchInKey
    <3>2. key' = SubSeq(key, r.match + 1, Len(key))
      BY <1>5, <2>2 DEF Match
    <3>3. Terminated(key') /\ key' # <<>>
      BY <3>1, <3>2, RestTerminated
    <3>. QED
      BY <3>3 DEF KeyInv, Terminated
  <2>. QED
    BY <2>1, <2>2
<1>6. CASE FindStep
  BY <1>0, <1>6 DEF FindStep, KeyInv, Terminated
<1>7. CASE FindBranch
  <2>1. CASE pc' = "compare" /\ key' = Tail(key)
    BY <1>7, <2>1, TailTerminated DEF FindBranch, KeyInv, Terminated
  <2>. QED
    BY <1>0, <1>7, <2>1 DEF FindBranch
<1>8. CASE UpdateStep
  BY <1>8 DEF UpdateStep, KeyInv, Terminated
<1>9. CASE Encode
  <2>1. CASE key' = key /\ pc' = "branch"
    BY <1>9, <2>1 DEF Encode, KeyInv, Terminated
  <2>. QED
    BY <1>0, <1>9, <2>1 DEF Encode
<1>10. CASE UpdateBranch
  <2>1. CASE pc' = "compare" /\ key' = Tail(key)
    BY <1>10, <2>1, TailTerminated DEF UpdateBranch, KeyInv, Terminated
  <2>. QED
    BY <1>0, <1>10, <2>1 DEF UpdateBranch
<1>11. CASE UNCHANGED vars
  BY <1>11 DEF vars, KeyInv, Terminated
<1>. QED
  BY <1>1, <1>2, <1>3, <1>4, <1>5, <1>6, <1>7, <1>8, <1>9, <1>10, <1>11 DEF Next, Running

\* A character that is read belongs to the key.
LEMMA KeyInvLeft == KeyInv => KeyLeft
<1>. SUFFICES ASSUME KeyInv, pc \in {"step", "branch"} PROVE key # <<>> /\ Head(key) \in Chars
  BY DEF KeyLeft
<1>1. key \in Seq(Chars) /\ key # <<>>
  BY DEF KeyInv
<1>. QED
  BY <1>1, HeadTailProperties

----------------------------------------------------------------------------
Inv == KeyInv /\ CodeInv

\* The codes and what is left of the key, with a compare that stops in the key.
LEMMA InvAlways ==
  ASSUME IsFiniteSet(Chars), Cardinality(Chars) <= CodeMax, Key \subseteq Seq(Chars)
  PROVE  Spec /\ []MatchInKey => []Inv
<1>1. Init => Inv
  BY CodesInitial, EmptyTerminated DEF Init, Inv, KeyInv, Terminated
<1>2. Inv /\ MatchInKey /\ [Next]_vars => Inv'
  BY KeyInvLeft, KeyStep, CodesStep DEF Inv
<1>. QED
  BY <1>1, <1>2, PTL DEF Spec

\* No two characters share a code, whatever the trie and the labels, as long as
\* keys use no more characters than there are codes and compare keeps its
\* promise.
THEOREM CodesCorrect ==
  ASSUME IsFiniteSet(Chars), Cardinality(Chars) <= CodeMax, Key \subseteq Seq(Chars)
  PROVE  Spec /\ []MatchInKey => []CodesDiffer
<1>1. Inv => CodesDiffer
  BY DEF Inv, CodeInv, CodesDiffer, Coded, HasCode
<1>. QED
  BY <1>1, InvAlways, PTL

\* A branch is tried only with a character that has a code other than the one
\* of step nodes, under the same assumptions: it is what make_symb_ asserts.
THEOREM CodesUsed ==
  ASSUME IsFiniteSet(Chars), Cardinality(Chars) <= CodeMax, Key \subseteq Seq(Chars)
  PROVE  Spec /\ []MatchInKey => []CodeAssigned
<1>1. Inv => CodeAssigned
  BY DEF Inv, CodeInv
<1>. QED
  BY <1>1, InvAlways, PTL

\* A step or a branch reads a character of the key, never one behind its end.
THEOREM KeyLeftAlways ==
  ASSUME IsFiniteSet(Chars), Cardinality(Chars) <= CodeMax, Key \subseteq Seq(Chars)
  PROVE  Spec /\ []MatchInKey => []KeyLeft
<1>1. Inv => KeyLeft
  BY KeyInvLeft DEF Inv
<1>. QED
  BY <1>1, InvAlways, PTL

----------------------------------------------------------------------------
\* A set of nodes has one for which a measure is smallest.
LEMMA Smallest ==
  ASSUME NEW T, T # {}, NEW m, \A x \in T : m[x] \in Nat
  PROVE  \E x \in T : \A y \in T : m[x] <= m[y]
<1>. DEFINE M == {m[x] : x \in T}
<1>1. M \subseteq Nat /\ M # {}
  OBVIOUS
<1>2. PICK d \in M : \A e \in M : <<e, d>> \notin OpToRel(<, Nat)
  <2>. HIDE DEF M
  <2>. QED  BY <1>1, NatLessThanWellFounded, WFMin
<1>3. \A e \in M : d <= e
  <2>. TAKE e \in M
  <2>1. d \in Nat /\ e \in Nat /\ ~(e < d)
    BY <1>1, <1>2 DEF OpToRel
  <2>. QED  BY <2>1
<1>. QED  BY <1>2, <1>3

----------------------------------------------------------------------------
(***************************************************************************)
(* A path decomposition D: nodes, those among them that are step nodes,    *)
(* of each node its parent and its place, of each key node the rest of its *)
(* key and, unless it is the root, the match and the character of its      *)
(* branch.                                                                 *)
(***************************************************************************)
NodesIn(D) == D.nodes
StepsIn(D) == D.steps
Up(D, n) == D.parent[n]
Off(D, n) == D.match[n]
By(D, n) == D.char[n]
RestIn(D, n) == D.rest[n]
BaseIn(D, n) == D.place[n].base
SkippedIn(D, n) == D.place[n].skipped
PathIn(D, n) == D.place[n].path

Bases(D) == NodesIn(D) \ StepsIn(D)
Branches(D) == Bases(D) \ {RootId}

\* The key node that n branches off, and where.
Under(D, n) == BaseIn(D, Up(D, n))
At(D, n) == SkippedIn(D, Up(D, n)) + Off(D, n)

IsTree(D) ==
  /\ IsFiniteSet(NodesIn(D)) /\ NodesIn(D) \subseteq Nat
  /\ NodesIn(D) # {} => RootId \in NodesIn(D)
  /\ StepsIn(D) \subseteq NodesIn(D) \ {RootId}
  /\ \A n \in NodesIn(D) \ {RootId} : Up(D, n) \in NodesIn(D)
  /\ \A n \in Bases(D) : WellEnded(RestIn(D, n))
  /\ RootId \in NodesIn(D) => RestIn(D, RootId) # <<>>
  /\ \A n \in Branches(D) :
       /\ Off(D, n) \in 0 .. Lambda - 1 /\ By(D, n) \in Chars
       /\ (RestIn(D, n) = <<>>) = (By(D, n) = 0)

\* No two edges from a node are alike.
EdgesDiffer(D) ==
  \A m, n \in NodesIn(D) \ {RootId} :
    Up(D, m) = Up(D, n) =>
      /\ m \in StepsIn(D) /\ n \in StepsIn(D) => m = n
      /\ m \notin StepsIn(D) /\ n \notin StepsIn(D) /\ Off(D, m) = Off(D, n) /\ By(D, m) = By(D, n) => m = n

PlaceTypes(D) ==
  \A n \in NodesIn(D) : BaseIn(D, n) \in Bases(D) /\ SkippedIn(D, n) \in Nat /\ PathIn(D, n) \in Seq(Chars)

\* The place of n follows from that of its parent.
PlacedAt(D, n) ==
  IF n = RootId THEN BaseIn(D, n) = n /\ SkippedIn(D, n) = 0 /\ PathIn(D, n) = <<>>
  ELSE IF n \in StepsIn(D)
  THEN BaseIn(D, n) = Under(D, n) /\ SkippedIn(D, n) = SkippedIn(D, Up(D, n)) + Lambda /\ PathIn(D, n) = PathIn(D, Up(D, n))
  ELSE BaseIn(D, n) = n /\ SkippedIn(D, n) = 0 /\
       PathIn(D, n) = Append(PathIn(D, Up(D, n)) \o SubSeq(RestIn(D, Under(D, n)), 1, At(D, n)), By(D, n))

Placed(D) == PlaceTypes(D) /\ \A n \in NodesIn(D) : PlacedAt(D, n)

OffAt(D, n) == At(D, n) < Len(RestIn(D, Under(D, n))) /\ RestIn(D, Under(D, n))[At(D, n) + 1] # By(D, n)

BranchesOff(D) == \A n \in Branches(D) : OffAt(D, n)

Good(D) == IsTree(D) /\ EdgesDiffer(D) /\ Placed(D) /\ BranchesOff(D)

KeyIn(D, n) == PathIn(D, n) \o RestIn(D, n)

\* Places grow with every edge.
Depth(D, n) == Len(PathIn(D, n)) + SkippedIn(D, n)

\* k begins with s.
Begins(k, s) == Len(s) <= Len(k) /\ \A i \in 1 .. Len(s) : k[i] = s[i]

\* What the place of a node of a good tree is made of.
LEMMA NodePlace ==
  ASSUME NEW D, Good(D), NEW n \in NodesIn(D)
  PROVE  /\ BaseIn(D, n) \in Bases(D) /\ BaseIn(D, n) \in NodesIn(D)
         /\ SkippedIn(D, n) \in Nat /\ PathIn(D, n) \in Seq(Chars)
         /\ Len(PathIn(D, n)) \in Nat /\ Depth(D, n) \in Nat
  BY DEF Good, Placed, PlaceTypes, Bases, Depth

\* The rest of the key of a key node is terminated.
LEMMA BaseRest ==
  ASSUME NEW D, Good(D), NEW n \in Bases(D)
  PROVE  /\ n \in NodesIn(D) /\ WellEnded(RestIn(D, n))
         /\ RestIn(D, n) \in Seq(Chars) /\ Len(RestIn(D, n)) \in Nat
  BY DEF Good, IsTree, WellEnded, Bases

\* A sequence and one more element.
LEMMA OneMore ==
  ASSUME NEW t \in Seq(Chars), NEW c \in Chars, NEW s, s = Append(t, c)
  PROVE  /\ s \in Seq(Chars) /\ Len(s) = Len(t) + 1
         /\ \A j \in 1 .. Len(t) : s[j] = t[j]
         /\ s[Len(t) + 1] = c
  BY AppendProperties

\* The first elements of a sequence.
LEMMA PrefixIs ==
  ASSUME NEW t \in Seq(Chars), NEW l \in 0 .. Len(t)
  PROVE  /\ SubSeq(t, 1, l) \in Seq(Chars) /\ Len(SubSeq(t, 1, l)) = l
         /\ \A x \in 1 .. l : SubSeq(t, 1, l)[x] = t[x]
<1>1. l \in Nat /\ 1 \in Int /\ l \in Int /\ \A x \in 1 .. l : t[x] \in Chars
  OBVIOUS
<1>2. /\ SubSeq(t, 1, l) \in Seq(Chars)
      /\ Len(SubSeq(t, 1, l)) = IF 1 <= l THEN l - 1 + 1 ELSE 0
      /\ \A x \in 1 .. l - 1 + 1 : SubSeq(t, 1, l)[x] = t[1 + x - 1]
  BY <1>1, SubSeqProperties
<1>3. l - 1 + 1 = l /\ \A x \in 1 .. l : 1 + x - 1 = x
  BY <1>1
<1>. QED  BY <1>1, <1>2, <1>3

\* A prefix of a sequence, and one more element.
LEMMA PrefixThen ==
  ASSUME NEW p \in Seq(Chars), NEW r \in Seq(Chars), NEW i \in Nat, i <= Len(r), NEW c \in Chars,
         NEW s, s = Append(p \o SubSeq(r, 1, i), c)
  PROVE  /\ s \in Seq(Chars) /\ Len(s) = Len(p) + i + 1
         /\ \A j \in 1 .. Len(p) : s[j] = p[j]
         /\ \A j \in 1 .. i : s[Len(p) + j] = r[j]
         /\ s[Len(p) + i + 1] = c
<1>. DEFINE q == SubSeq(r, 1, i)
            t == p \o q
<1>1. q \in Seq(Chars) /\ Len(q) = i /\ \A j \in 1 .. i : q[j] = r[j]
  BY PrefixIs
<1>. HIDE DEF q
<1>2. t \in Seq(Chars) /\ Len(t) = Len(p) + i
      /\ \A j \in 1 .. Len(p) + i : t[j] = IF j <= Len(p) THEN p[j] ELSE q[j - Len(p)]
  BY <1>1, ConcatProperties
<1>3. s = Append(t, c)
  BY DEF q
<1>. HIDE DEF t
<1>4. s \in Seq(Chars) /\ Len(s) = Len(p) + i + 1 /\ s[Len(p) + i + 1] = c
      /\ \A j \in 1 .. Len(p) + i : s[j] = t[j]
  <2>1. t \in Seq(Chars) /\ Len(t) \in Nat /\ Len(t) = Len(p) + i
    BY <1>2
  <2>2. /\ s \in Seq(Chars) /\ Len(s) = Len(t) + 1
        /\ \A j \in 1 .. Len(t) : s[j] = t[j]
        /\ s[Len(t) + 1] = c
    BY <1>3, <2>1, OneMore
  <2>. QED  BY <2>1, <2>2
<1>5. \A j \in 1 .. Len(p) : s[j] = p[j]
  BY <1>2, <1>4
<1>6. ASSUME NEW j \in 1 .. i PROVE s[Len(p) + j] = r[j]
  <2>1. Len(p) + j \in 1 .. Len(p) + i /\ ~(Len(p) + j <= Len(p)) /\ Len(p) + j - Len(p) = j
    OBVIOUS
  <2>. QED  BY <1>1, <1>2, <1>4, <2>1
<1>. QED  BY <1>4, <1>5, <1>6

\* What the path of a branch node consists of.
LEMMA BranchPath ==
  ASSUME NEW D, Good(D), NEW n \in Branches(D)
  PROVE  LET u == Up(D, n)
             l == Len(PathIn(D, u))
         IN /\ u \in NodesIn(D) /\ Under(D, n) \in Bases(D) /\ At(D, n) \in Nat
            /\ BaseIn(D, n) = n /\ SkippedIn(D, n) = 0
            /\ Off(D, n) \in 0 .. Lambda - 1 /\ By(D, n) \in Chars
            /\ l \in Nat /\ Len(PathIn(D, n)) = l + At(D, n) + 1
            /\ \A j \in 1 .. l : PathIn(D, n)[j] = PathIn(D, u)[j]
            /\ \A j \in 1 .. At(D, n) : PathIn(D, n)[l + j] = RestIn(D, Under(D, n))[j]
            /\ PathIn(D, n)[l + At(D, n) + 1] = By(D, n)
            /\ At(D, n) < Len(RestIn(D, Under(D, n)))
            /\ RestIn(D, Under(D, n))[At(D, n) + 1] # By(D, n)
<1>1. n \in NodesIn(D) /\ n \notin StepsIn(D) /\ n # RootId /\ Up(D, n) \in NodesIn(D)
  BY DEF Branches, Bases, Good, IsTree
<1>2. Off(D, n) \in 0 .. Lambda - 1 /\ By(D, n) \in Chars /\ OffAt(D, n)
  BY DEF Good, IsTree, BranchesOff
<1>3. Under(D, n) \in Bases(D) /\ SkippedIn(D, Up(D, n)) \in Nat /\ PathIn(D, Up(D, n)) \in Seq(Chars)
  BY <1>1, NodePlace DEF Under
<1>4. At(D, n) \in Nat
  BY <1>2, <1>3 DEF At
<1>5. /\ BaseIn(D, n) = n /\ SkippedIn(D, n) = 0
      /\ PathIn(D, n) = Append(PathIn(D, Up(D, n)) \o SubSeq(RestIn(D, Under(D, n)), 1, At(D, n)), By(D, n))
  BY <1>1 DEF Good, Placed, PlacedAt
<1>6. RestIn(D, Under(D, n)) \in Seq(Chars) /\ At(D, n) <= Len(RestIn(D, Under(D, n)))
  BY <1>2, <1>3, <1>4, BaseRest DEF OffAt
<1>7. /\ Len(PathIn(D, n)) = Len(PathIn(D, Up(D, n))) + At(D, n) + 1
      /\ \A j \in 1 .. Len(PathIn(D, Up(D, n))) : PathIn(D, n)[j] = PathIn(D, Up(D, n))[j]
      /\ \A j \in 1 .. At(D, n) : PathIn(D, n)[Len(PathIn(D, Up(D, n))) + j] = RestIn(D, Under(D, n))[j]
      /\ PathIn(D, n)[Len(PathIn(D, Up(D, n))) + At(D, n) + 1] = By(D, n)
  BY <1>2, <1>3, <1>4, <1>5, <1>6, PrefixThen
<1>. QED  BY <1>1, <1>2, <1>3, <1>4, <1>5, <1>7 DEF OffAt

\* The place of a step node is its parent's, with lambda characters more,
LEMMA StepPlace ==
  ASSUME NEW D, Good(D), NEW n \in StepsIn(D)
  PROVE  /\ n \in NodesIn(D) \ {RootId} /\ Up(D, n) \in NodesIn(D)
         /\ BaseIn(D, n) = BaseIn(D, Up(D, n)) /\ SkippedIn(D, n) = SkippedIn(D, Up(D, n)) + Lambda
         /\ PathIn(D, n) = PathIn(D, Up(D, n))
<1>1. n \in NodesIn(D) \ {RootId} /\ Up(D, n) \in NodesIn(D)
  BY DEF Good, IsTree
<1>. QED  BY <1>1 DEF Good, Placed, PlacedAt, Under

\* and a key node is its own base.
LEMMA BasePlace ==
  ASSUME NEW D, Good(D), NEW n \in Bases(D)
  PROVE  n \in NodesIn(D) /\ BaseIn(D, n) = n /\ SkippedIn(D, n) = 0
  BY DEF Good, Placed, PlacedAt, Bases

\* lambda is positive: every edge leads deeper.
LEMMA Deeper ==
  ASSUME Lambda \in Nat \ {0}, NEW D, Good(D), NEW n \in NodesIn(D) \ {RootId}
  PROVE  Up(D, n) \in NodesIn(D) /\ Depth(D, Up(D, n)) < Depth(D, n)
<1>1. Up(D, n) \in NodesIn(D)
  BY DEF Good, IsTree
<1>2. SkippedIn(D, Up(D, n)) \in Nat /\ Len(PathIn(D, Up(D, n))) \in Nat
  BY <1>1, NodePlace
<1>3. CASE n \in StepsIn(D)
  BY <1>2, <1>3, StepPlace DEF Depth
<1>4. CASE n \notin StepsIn(D)
  <2>1. n \in Branches(D)
    BY <1>4 DEF Branches, Bases
  <2>2. /\ SkippedIn(D, n) = 0 /\ Len(PathIn(D, n)) = Len(PathIn(D, Up(D, n))) + At(D, n) + 1
        /\ Off(D, n) \in Nat
    BY <2>1, BranchPath
  <2>3. At(D, n) \in Nat /\ At(D, n) >= SkippedIn(D, Up(D, n))
    BY <1>2, <2>2 DEF At
  <2>4. Depth(D, n) = Len(PathIn(D, n))
    <3>1. Len(PathIn(D, n)) \in Nat
      BY <1>2, <2>2, <2>3
    <3>. QED  BY <2>2, <3>1 DEF Depth
  <2>. QED  BY <1>1, <1>2, <2>2, <2>3, <2>4 DEF Depth
<1>. QED  BY <1>1, <1>3, <1>4

\* The nodes with one base share its path.
LEMMA BasePath ==
  ASSUME Lambda \in Nat \ {0}, NEW D, Good(D)
  PROVE  \A n \in NodesIn(D) : PathIn(D, n) = PathIn(D, BaseIn(D, n))
<1>. DEFINE T == {n \in NodesIn(D) : PathIn(D, n) # PathIn(D, BaseIn(D, n))}
            m == [n \in NodesIn(D) |-> Depth(D, n)]
<1>1. ASSUME T # {} PROVE FALSE
  <2>1. PICK n \in T : \A k \in T : m[n] <= m[k]
    <3>1. \A x \in T : m[x] \in Nat
      BY NodePlace
    <3>. HIDE DEF T, m
    <3>. QED  BY <1>1, <3>1, Smallest
  <2>2. n \in NodesIn(D) /\ PathIn(D, n) # PathIn(D, BaseIn(D, n))
    OBVIOUS
  <2>3. n \in StepsIn(D)
    BY <2>2, BasePlace DEF Bases
  <2>4. Up(D, n) \in NodesIn(D) /\ Depth(D, Up(D, n)) < Depth(D, n)
        /\ Depth(D, Up(D, n)) \in Nat /\ Depth(D, n) \in Nat
    BY <2>2, <2>3, StepPlace, Deeper, NodePlace
  <2>5. Up(D, n) \notin T
    BY <2>1, <2>4
  <2>. QED  BY <2>2, <2>3, <2>4, <2>5, StepPlace
<1>. QED  BY <1>1

\* The nodes with one base are a chain of step nodes.
LEMMA Chain ==
  ASSUME Lambda \in Nat \ {0}, NEW D, Good(D)
  PROVE  \A m, n \in NodesIn(D) :
           BaseIn(D, m) = BaseIn(D, n) =>
             /\ SkippedIn(D, m) = SkippedIn(D, n) => m = n
             /\ SkippedIn(D, m) < SkippedIn(D, n) => SkippedIn(D, m) + Lambda <= SkippedIn(D, n)
<1>. DEFINE Holds(m, n) ==
              BaseIn(D, m) = BaseIn(D, n) =>
                /\ SkippedIn(D, m) = SkippedIn(D, n) => m = n
                /\ SkippedIn(D, m) < SkippedIn(D, n) => SkippedIn(D, m) + Lambda <= SkippedIn(D, n)
            T == {n \in NodesIn(D) : \E m \in NodesIn(D) : ~Holds(m, n)}
            d == [n \in NodesIn(D) |-> Depth(D, n)]
<1>1. ASSUME T # {} PROVE FALSE
  <2>1. PICK n \in T : \A k \in T : d[n] <= d[k]
    <3>1. \A x \in T : d[x] \in Nat
      BY NodePlace
    <3>. HIDE DEF T, d
    <3>. QED  BY <1>1, <3>1, Smallest
  <2>2. n \in NodesIn(D)
    OBVIOUS
  <2>3. PICK m \in NodesIn(D) : ~Holds(m, n)
    BY <2>1
  <2>4. SkippedIn(D, m) \in Nat /\ SkippedIn(D, n) \in Nat
    BY <2>2, <2>3, NodePlace
  <2>5. CASE n \in Bases(D)
    <3>1. BaseIn(D, n) = n /\ SkippedIn(D, n) = 0
      BY <2>5, BasePlace
    <3>2. CASE m \in Bases(D)
      BY <2>3, <2>4, <3>1, <3>2, BasePlace
    <3>3. CASE m \in StepsIn(D)
      <4>1. SkippedIn(D, m) = SkippedIn(D, Up(D, m)) + Lambda /\ SkippedIn(D, Up(D, m)) \in Nat
        BY <3>3, StepPlace, NodePlace
      <4>. QED  BY <2>3, <2>4, <3>1, <4>1
    <3>. QED  BY <2>3, <3>2, <3>3 DEF Bases
  <2>6. CASE n \in StepsIn(D)
    <3>. DEFINE q == Up(D, n)
    <3>1. /\ q \in NodesIn(D) /\ n # RootId /\ BaseIn(D, n) = BaseIn(D, q)
          /\ SkippedIn(D, n) = SkippedIn(D, q) + Lambda /\ SkippedIn(D, q) \in Nat
      BY <2>6, StepPlace, NodePlace
    <3>2. q \notin T
      <4>1. Depth(D, q) < Depth(D, n) /\ Depth(D, q) \in Nat /\ Depth(D, n) \in Nat
        BY <2>2, <3>1, Deeper, NodePlace
      <4>. QED  BY <2>1, <3>1, <4>1
    <3>. HIDE DEF T, d
    <3>3. CASE m \in Bases(D)
      <4>1. SkippedIn(D, m) = 0
        BY <3>3, BasePlace
      <4>. QED  BY <2>3, <3>1, <4>1
    <3>4. CASE m \in StepsIn(D)
      <4>. DEFINE p == Up(D, m)
      <4>1. /\ p \in NodesIn(D) /\ m # RootId /\ BaseIn(D, m) = BaseIn(D, p)
            /\ SkippedIn(D, m) = SkippedIn(D, p) + Lambda /\ SkippedIn(D, p) \in Nat
        BY <3>4, StepPlace, NodePlace
      <4>2. Holds(p, q)
        BY <3>1, <3>2, <4>1 DEF T
      <4>3. p = q => m = n
        BY <2>6, <3>1, <3>4, <4>1, <2>2, <2>3 DEF Good, EdgesDiffer
      <4>. HIDE DEF p, q
      <4>4. BaseIn(D, m) = BaseIn(D, n) /\ BaseIn(D, p) = BaseIn(D, q)
        BY <2>3, <3>1, <4>1
      <4>5. CASE SkippedIn(D, m) = SkippedIn(D, n)
        <5>1. SkippedIn(D, p) = SkippedIn(D, q)
          BY <3>1, <4>1, <4>5
        <5>. QED  BY <2>3, <2>4, <4>2, <4>3, <4>4, <4>5, <5>1
      <4>6. CASE SkippedIn(D, m) < SkippedIn(D, n)
        BY <2>3, <2>4, <3>1, <4>1, <4>2, <4>4, <4>6
      <4>. QED  BY <2>3, <4>5, <4>6
    <3>. QED  BY <3>3, <3>4 DEF Bases
  <2>. QED  BY <2>2, <2>5, <2>6 DEF Bases
<1>. QED  BY <1>1

\* Below a node that is not the last of its chain is a step node.
LEMMA StepChild ==
  ASSUME Lambda \in Nat \ {0}, NEW D, Good(D), NEW z \in NodesIn(D),
         NEW w \in NodesIn(D), BaseIn(D, w) = BaseIn(D, z), SkippedIn(D, z) < SkippedIn(D, w)
  PROVE  \E s \in StepsIn(D) : Up(D, s) = z
<1>. DEFINE T == {n \in NodesIn(D) : BaseIn(D, n) = BaseIn(D, z) /\ SkippedIn(D, z) < SkippedIn(D, n)}
            d == [n \in NodesIn(D) |-> SkippedIn(D, n)]
<1>1. PICK n \in T : \A k \in T : d[n] <= d[k]
  <2>1. (\A x \in T : d[x] \in Nat) /\ T # {}
    BY NodePlace
  <2>. HIDE DEF T, d
  <2>. QED  BY <2>1, Smallest
<1>2. n \in NodesIn(D) /\ BaseIn(D, n) = BaseIn(D, z) /\ SkippedIn(D, z) < SkippedIn(D, n)
  OBVIOUS
<1>3. SkippedIn(D, n) \in Nat /\ SkippedIn(D, z) \in Nat
  BY <1>2, NodePlace
<1>4. n \in StepsIn(D)
  BY <1>2, <1>3, BasePlace DEF Bases
<1>5. /\ Up(D, n) \in NodesIn(D) /\ BaseIn(D, Up(D, n)) = BaseIn(D, n)
      /\ SkippedIn(D, n) = SkippedIn(D, Up(D, n)) + Lambda /\ SkippedIn(D, Up(D, n)) \in Nat
  BY <1>4, StepPlace, NodePlace
<1>6. Up(D, n) \notin T
  BY <1>1, <1>2, <1>5
<1>7. ~(SkippedIn(D, z) < SkippedIn(D, Up(D, n)))
  BY <1>2, <1>5, <1>6
<1>8. SkippedIn(D, z) + Lambda <= SkippedIn(D, n)
  BY <1>2, Chain
<1>9. SkippedIn(D, Up(D, n)) = SkippedIn(D, z)
  BY <1>3, <1>5, <1>7, <1>8
<1>10. Up(D, n) = z
  BY <1>2, <1>5, <1>9, Chain
<1>. QED  BY <1>4, <1>10

\* Where the chain of base nodes has a node for a match, it is one.
LEMMA SameStep ==
  ASSUME Lambda \in Nat \ {0}, NEW D, Good(D), NEW u \in NodesIn(D), NEW v \in NodesIn(D),
         BaseIn(D, u) = BaseIn(D, v), NEW a \in 0 .. Lambda - 1, NEW b \in 0 .. Lambda - 1,
         SkippedIn(D, u) + a = SkippedIn(D, v) + b
  PROVE  u = v /\ a = b
<1>1. SkippedIn(D, u) \in Nat /\ SkippedIn(D, v) \in Nat
  BY NodePlace
<1>2. /\ SkippedIn(D, u) = SkippedIn(D, v) => u = v
      /\ SkippedIn(D, u) < SkippedIn(D, v) => SkippedIn(D, u) + Lambda <= SkippedIn(D, v)
      /\ SkippedIn(D, v) < SkippedIn(D, u) => SkippedIn(D, v) + Lambda <= SkippedIn(D, u)
  BY Chain
<1>. QED  BY <1>1, <1>2

\* The same, seen from the key node that n branches off.
LEMMA BranchReads ==
  ASSUME Lambda \in Nat \ {0}, NEW D, Good(D), NEW n \in Branches(D)
  PROVE  LET b == Under(D, n)
             l == Len(PathIn(D, b))
             i == At(D, n)
         IN /\ b \in Bases(D) /\ l \in Nat /\ i \in Nat /\ Len(PathIn(D, n)) = l + i + 1
            /\ \A x \in 1 .. l : PathIn(D, n)[x] = PathIn(D, b)[x]
            /\ \A x \in 1 .. i : PathIn(D, n)[l + x] = RestIn(D, b)[x]
            /\ PathIn(D, n)[l + i + 1] = By(D, n)
            /\ i < Len(RestIn(D, b)) /\ RestIn(D, b)[i + 1] # By(D, n)
<1>1. Up(D, n) \in NodesIn(D)
  BY BranchPath
<1>2. PathIn(D, Up(D, n)) = PathIn(D, Under(D, n))
  BY <1>1, BasePath DEF Under
<1>. QED  BY <1>2, BranchPath, SMTT(30)

\* A sequence k begins with the path of a branch node.
LEMMA BranchBegins ==
  ASSUME Lambda \in Nat \ {0}, NEW D, Good(D), NEW n \in Branches(D), NEW k, Begins(k, PathIn(D, n)), Len(k) \in Nat
  PROVE  LET b == Under(D, n)
             l == Len(PathIn(D, b))
             i == At(D, n)
         IN /\ Begins(k, PathIn(D, b)) /\ l + i + 1 <= Len(k)
            /\ \A x \in 1 .. i : k[l + x] = RestIn(D, b)[x]
            /\ k[l + i + 1] = By(D, n)
<1>. DEFINE b == Under(D, n)
            l == Len(PathIn(D, b))
            i == At(D, n)
<1>1. /\ l \in Nat /\ i \in Nat /\ Len(PathIn(D, n)) = l + i + 1
      /\ \A x \in 1 .. l : PathIn(D, n)[x] = PathIn(D, b)[x]
      /\ \A x \in 1 .. i : PathIn(D, n)[l + x] = RestIn(D, b)[x]
      /\ PathIn(D, n)[l + i + 1] = By(D, n)
  BY BranchReads
<1>2. l = Len(PathIn(D, b))
  OBVIOUS
<1>. HIDE DEF b, l, i
<1>3. l + i + 1 <= Len(k) /\ \A x \in 1 .. l + i + 1 : k[x] = PathIn(D, n)[x]
  BY <1>1 DEF Begins
<1>4. Begins(k, PathIn(D, b))
  <2>1. Len(PathIn(D, b)) <= Len(k)
    BY <1>1, <1>2, <1>3
  <2>2. ASSUME NEW x \in 1 .. Len(PathIn(D, b)) PROVE k[x] = PathIn(D, b)[x]
    <3>1. x \in 1 .. l /\ x \in 1 .. l + i + 1
      BY <1>1, <1>2
    <3>. QED  BY <1>1, <1>3, <3>1
  <2>. QED  BY <2>1, <2>2 DEF Begins
<1>5. ASSUME NEW x \in 1 .. i PROVE k[l + x] = RestIn(D, b)[x]
  <2>1. l + x \in 1 .. l + i + 1
    BY <1>1
  <2>. QED  BY <1>1, <1>3, <2>1
<1>6. k[l + i + 1] = By(D, n)
  <2>1. l + i + 1 \in 1 .. l + i + 1
    BY <1>1
  <2>. QED  BY <1>1, <1>3, <2>1
<1>. QED  BY <1>3, <1>4, <1>5, <1>6 DEF b, l, i

\* One branch of a key node, at most, leads to k.
LEMMA SameBranch ==
  ASSUME Lambda \in Nat \ {0}, NEW D, Good(D), NEW m \in Branches(D), NEW n \in Branches(D),
         Under(D, m) = Under(D, n), NEW k, Begins(k, PathIn(D, m)), Begins(k, PathIn(D, n)), Len(k) \in Nat
  PROVE  m = n
<1>. DEFINE b == Under(D, m)
            l == Len(PathIn(D, b))
            i == At(D, m)
            j == At(D, n)
            r == RestIn(D, b)
<1>1. l \in Nat /\ i \in Nat /\ j \in Nat /\ r[i + 1] # By(D, m) /\ r[j + 1] # By(D, n)
  BY BranchReads
<1>2. (\A x \in 1 .. i : k[l + x] = r[x]) /\ k[l + i + 1] = By(D, m)
  BY BranchBegins
<1>3. (\A x \in 1 .. j : k[l + x] = r[x]) /\ k[l + j + 1] = By(D, n)
  BY BranchBegins
<1>. HIDE DEF b, l, i, j, r
<1>4. i = j
  <2>1. ~(i < j)
    <3>1. i < j => i + 1 \in 1 .. j /\ l + (i + 1) = l + i + 1
      BY <1>1
    <3>. QED  BY <1>1, <1>2, <1>3, <3>1
  <2>2. ~(j < i)
    <3>1. j < i => j + 1 \in 1 .. i /\ l + (j + 1) = l + j + 1
      BY <1>1
    <3>. QED  BY <1>1, <1>2, <1>3, <3>1
  <2>. QED  BY <1>1, <2>1, <2>2
<1>5. By(D, m) = By(D, n)
  BY <1>2, <1>3, <1>4
<1>6. /\ Up(D, m) \in NodesIn(D) /\ Off(D, m) \in 0 .. Lambda - 1
      /\ Up(D, n) \in NodesIn(D) /\ Off(D, n) \in 0 .. Lambda - 1
  BY BranchPath
<1>7. Up(D, m) = Up(D, n) /\ Off(D, m) = Off(D, n)
  BY <1>4, <1>6, SameStep DEF i, j, At, Under
<1>. QED  BY <1>5, <1>7 DEF Good, EdgesDiffer, Branches, Bases

\* Of two key nodes whose paths lead to k one is on the way to the other: they
\* are the same or a branch of the upper one leads to k.
LEMMA Comparable ==
  ASSUME Lambda \in Nat \ {0}, NEW D, Good(D), NEW k, Len(k) \in Nat
  PROVE  \A m, n \in Bases(D) :
           Begins(k, PathIn(D, m)) /\ Begins(k, PathIn(D, n)) /\ Len(PathIn(D, m)) <= Len(PathIn(D, n)) =>
             m = n \/ \E c \in Branches(D) : Under(D, c) = m /\ Begins(k, PathIn(D, c))
<1>. DEFINE L(n) == Len(PathIn(D, n))
            On == {n \in Bases(D) : Begins(k, PathIn(D, n))}
            Leads(m, n) == \E c \in Branches(D) : /\ Under(D, c) = m /\ Begins(k, PathIn(D, c))
                                                 /\ L(c) <= L(n) /\ (L(c) = L(n) => c = n)
            Holds(m, n) == L(m) <= L(n) => m = n \/ Leads(m, n)
            T == {e \in On \X On : ~Holds(e[1], e[2])}
            d == [e \in On \X On |-> L(e[1]) + L(e[2])]
<1>1. \A n \in On : n \in Bases(D) /\ n \in NodesIn(D) /\ L(n) \in Nat /\ Begins(k, PathIn(D, n))
  BY NodePlace DEF Bases
<1>2. ASSUME T # {} PROVE FALSE
  <2>1. PICK e \in T : \A x \in T : d[e] <= d[x]
    <3>1. \A x \in T : d[x] \in Nat
      <4>. HIDE DEF L, On, Holds
      <4>. QED  BY <1>1
    <3>. HIDE DEF T, d
    <3>. QED  BY <1>2, <3>1, Smallest
  <2>. DEFINE m == e[1]
              n == e[2]
  <2>2. m \in On /\ n \in On /\ ~Holds(m, n)
    BY <2>1
  <2>3. ASSUME NEW x \in On, NEW y \in On, L(x) + L(y) < L(m) + L(n) PROVE Holds(x, y)
    <3>. HIDE DEF On, L, Holds
    <3>1. d[<<x, y>>] = L(x) + L(y) /\ d[e] = L(m) + L(n)
      OBVIOUS
    <3>2. L(x) + L(y) \in Nat /\ L(m) + L(n) \in Nat
      BY <1>1, <2>2
    <3>3. <<x, y>> \notin T
      BY <2>1, <2>3, <3>1, <3>2
    <3>. QED  BY <3>3
  <2>. HIDE DEF T, d, On, L, Leads, m, n
  <2>4. m \in Bases(D) /\ n \in Bases(D) /\ L(m) \in Nat /\ L(n) \in Nat /\ L(m) <= L(n) /\ m # n /\ ~Leads(m, n)
    BY <1>1, <2>2
  <2>5. n \in Branches(D)
    <3>1. L(RootId) = 0 \/ RootId \notin NodesIn(D)
      BY EmptySeq DEF L, Good, Placed, PlacedAt
    <3>2. m \in Branches(D) => L(m) > 0
      BY BranchReads DEF L
    <3>. QED  BY <1>1, <2>2, <2>4, <3>1, <3>2 DEF Branches
  <2>. DEFINE b == Under(D, n)
  <2>6. b \in On /\ L(n) = L(b) + At(D, n) + 1 /\ L(b) \in Nat /\ At(D, n) \in Nat
    BY <1>1, <2>2, <2>5, BranchReads, BranchBegins DEF On, L
  <2>7. CASE L(m) <= L(b)
    <3>1. L(m) + L(b) < L(m) + L(n)
      BY <2>4, <2>6
    <3>2. Holds(m, b)
      BY <2>2, <2>3, <2>6, <3>1
    <3>3. CASE m = b
      <4>1. Leads(m, n)
        BY <1>1, <2>2, <2>4, <2>5, <3>3 DEF Leads
      <4>. QED  BY <2>4, <4>1
    <3>4. CASE m # b
      <4>1. PICK c \in Branches(D) : Under(D, c) = m /\ Begins(k, PathIn(D, c)) /\ L(c) <= L(b)
        BY <2>7, <3>2, <3>4 DEF Leads
      <4>2. L(c) \in Nat
        BY NodePlace DEF Branches, Bases, L
      <4>3. L(c) < L(n)
        BY <2>4, <2>6, <4>1, <4>2
      <4>4. Leads(m, n)
        BY <2>4, <4>1, <4>2, <4>3 DEF Leads
      <4>. QED  BY <2>4, <4>4
    <3>. QED  BY <3>3, <3>4
  <2>8. CASE ~(L(m) <= L(b))
    <3>1. L(b) + L(m) < L(m) + L(n)
      BY <2>4, <2>6
    <3>2. Holds(b, m)
      BY <2>2, <2>3, <2>6, <3>1
    <3>3. L(b) <= L(m) /\ m # b
      BY <2>4, <2>6, <2>8
    <3>4. PICK c \in Branches(D) : /\ Under(D, c) = b /\ Begins(k, PathIn(D, c))
                                   /\ L(c) <= L(m) /\ (L(c) = L(m) => c = m)
      BY <3>2, <3>3 DEF Leads
    <3>5. c = n
      BY <1>1, <2>2, <2>5, <3>4, SameBranch
    <3>6. L(n) = L(m)
      BY <2>4, <3>4, <3>5
    <3>. QED  BY <2>4, <3>4, <3>5, <3>6
  <2>. QED  BY <2>7, <2>8
<1>3. ASSUME NEW m \in Bases(D), NEW n \in Bases(D),
             Begins(k, PathIn(D, m)), Begins(k, PathIn(D, n)), Len(PathIn(D, m)) <= Len(PathIn(D, n))
      PROVE  m = n \/ \E c \in Branches(D) : Under(D, c) = m /\ Begins(k, PathIn(D, c))
  <2>1. m \in On /\ n \in On
    BY <1>3
  <2>2. <<m, n>> \notin T
    BY <1>2
  <2>3. Holds(m, n)
    BY <2>1, <2>2
  <2>. QED  BY <1>3, <2>3
<1>. QED  BY <1>3

\* A key is a path and a rest.
LEMMA KeyParts ==
  ASSUME NEW D, Good(D), NEW n \in Bases(D)
  PROVE  /\ KeyIn(D, n) \in Seq(Chars) /\ Len(PathIn(D, n)) \in Nat /\ Len(RestIn(D, n)) \in Nat
         /\ Len(KeyIn(D, n)) = Len(PathIn(D, n)) + Len(RestIn(D, n)) /\ Len(KeyIn(D, n)) \in Nat
         /\ Begins(KeyIn(D, n), PathIn(D, n))
         /\ \A x \in 1 .. Len(RestIn(D, n)) : KeyIn(D, n)[Len(PathIn(D, n)) + x] = RestIn(D, n)[x]
<1>. DEFINE p == PathIn(D, n)
            r == RestIn(D, n)
            k == p \o r
<1>1. p \in Seq(Chars) /\ r \in Seq(Chars) /\ Len(p) \in Nat /\ Len(r) \in Nat
  BY NodePlace, BaseRest
<1>. HIDE DEF p, r
<1>2. /\ k \in Seq(Chars) /\ Len(k) = Len(p) + Len(r)
      /\ \A x \in 1 .. Len(p) + Len(r) : k[x] = IF x <= Len(p) THEN p[x] ELSE r[x - Len(p)]
  BY <1>1, ConcatProperties
<1>3. k = KeyIn(D, n)
  BY DEF p, r, KeyIn
<1>. HIDE DEF k
<1>4. Begins(k, p)
  BY <1>1, <1>2 DEF Begins
<1>5. ASSUME NEW x \in 1 .. Len(r) PROVE k[Len(p) + x] = r[x]
  <2>1. Len(p) + x \in 1 .. Len(p) + Len(r) /\ ~(Len(p) + x <= Len(p)) /\ Len(p) + x - Len(p) = x
    BY <1>1
  <2>. QED  BY <1>2, <2>1
<1>. QED  BY <1>1, <1>2, <1>3, <1>4, <1>5 DEF p, r

\* No branch leads to the key of the node it branches off.
LEMMA OffOwn ==
  ASSUME Lambda \in Nat \ {0}, NEW D, Good(D), NEW n \in Branches(D)
  PROVE  ~Begins(KeyIn(D, Under(D, n)), PathIn(D, n))
<1>. DEFINE b == Under(D, n)
            k == KeyIn(D, b)
            l == Len(PathIn(D, b))
            i == At(D, n)
            r == RestIn(D, b)
<1>1. b \in Bases(D) /\ l \in Nat /\ i \in Nat /\ i < Len(r) /\ r[i + 1] # By(D, n)
  BY BranchReads
<1>2. Len(k) \in Nat /\ Len(r) \in Nat /\ \A x \in 1 .. Len(r) : k[l + x] = r[x]
  BY <1>1, KeyParts
<1>3. Begins(k, PathIn(D, n)) => k[l + i + 1] = By(D, n)
  BY <1>2, BranchBegins
<1>. HIDE DEF b, k, l, i, r
<1>4. i + 1 \in 1 .. Len(r) /\ l + (i + 1) = l + i + 1
  BY <1>1, <1>2
<1>5. k[l + i + 1] = r[i + 1]
  BY <1>2, <1>4
<1>. QED  BY <1>1, <1>3, <1>5 DEF b, k

\* No key has two nodes.
LEMMA KeysDiffer ==
  ASSUME Lambda \in Nat \ {0}, NEW D, Good(D), NEW m \in Bases(D), NEW n \in Bases(D), KeyIn(D, m) = KeyIn(D, n)
  PROVE  m = n
<1>1. ASSUME NEW x \in Bases(D), NEW y \in Bases(D), KeyIn(D, x) = KeyIn(D, y),
             Len(PathIn(D, x)) <= Len(PathIn(D, y))
      PROVE  x = y
  <2>1. Len(KeyIn(D, x)) \in Nat /\ Begins(KeyIn(D, x), PathIn(D, x)) /\ Begins(KeyIn(D, x), PathIn(D, y))
    BY <1>1, KeyParts
  <2>2. \A c \in Branches(D) : Under(D, c) = x => ~Begins(KeyIn(D, x), PathIn(D, c))
    BY OffOwn
  <2>. QED  BY <1>1, <2>1, <2>2, Comparable
<1>2. Len(PathIn(D, m)) \in Nat /\ Len(PathIn(D, n)) \in Nat
  BY KeyParts
<1>. QED  BY <1>1, <1>2

----------------------------------------------------------------------------
\* A walk for k has come to the mismatch behind i characters of the rest of the
\* key node b.
Differs(D, k, b, i) ==
  LET l == Len(PathIn(D, b))
  IN /\ i \in Nat /\ l + i < Len(k) /\ Begins(k, PathIn(D, b)) /\ i < Len(RestIn(D, b))
     /\ \A x \in 1 .. i : k[l + x] = RestIn(D, b)[x]
     /\ k[l + i + 1] # RestIn(D, b)[i + 1]

\* Then k is a key of the trie only if a branch takes the walk on from there.
LEMMA BranchMissing ==
  ASSUME Lambda \in Nat \ {0}, NEW D, Good(D), NEW b \in Bases(D), NEW i,
         NEW n \in Bases(D), Differs(D, KeyIn(D, n), b, i)
  PROVE  \E c \in Branches(D) :
           Under(D, c) = b /\ At(D, c) = i /\ By(D, c) = KeyIn(D, n)[Len(PathIn(D, b)) + i + 1]
<1>. DEFINE k == KeyIn(D, n)
            l == Len(PathIn(D, b))
            r == RestIn(D, b)
<1>1. /\ i \in Nat /\ Begins(k, PathIn(D, b)) /\ i < Len(r)
      /\ \A x \in 1 .. i : k[l + x] = r[x]
      /\ k[l + i + 1] # r[i + 1]
  BY DEF Differs
<1>2. Len(k) \in Nat /\ Begins(k, PathIn(D, n)) /\ l \in Nat /\ Len(r) \in Nat /\ Len(PathIn(D, n)) \in Nat
  BY KeyParts
<1>3. b # n
  <2>1. ASSUME b = n PROVE k[l + (i + 1)] = r[i + 1]
    <3>1. \A x \in 1 .. Len(r) : k[l + x] = r[x]
      BY <2>1, KeyParts
    <3>. HIDE DEF k, l, r
    <3>2. i + 1 \in 1 .. Len(r)
      BY <1>1, <1>2
    <3>. QED  BY <3>1, <3>2
  <2>2. l + (i + 1) = l + i + 1
    BY <1>1, <1>2
  <2>. QED  BY <1>1, <2>1, <2>2
<1>4. \A c \in Branches(D) : Under(D, c) = n => ~Begins(k, PathIn(D, c))
  BY OffOwn
<1>5. PICK c \in Branches(D) : Under(D, c) = b /\ Begins(k, PathIn(D, c))
  BY <1>1, <1>2, <1>3, <1>4, Comparable
<1>. DEFINE j == At(D, c)
<1>6. /\ j \in Nat /\ j < Len(r) /\ r[j + 1] # By(D, c)
      /\ \A x \in 1 .. j : k[l + x] = r[x]
      /\ k[l + j + 1] = By(D, c)
  BY <1>2, <1>5, BranchReads, BranchBegins, SMTT(30)
<1>. HIDE DEF k, l, r, j
<1>7. i = j
  <2>1. ~(i < j)
    <3>1. i < j => i + 1 \in 1 .. j /\ l + (i + 1) = l + i + 1
      BY <1>1, <1>2, <1>6
    <3>. QED  BY <1>1, <1>6, <3>1
  <2>2. ~(j < i)
    <3>1. j < i => j + 1 \in 1 .. i /\ l + (j + 1) = l + j + 1
      BY <1>1, <1>2, <1>6
    <3>. QED  BY <1>1, <1>6, <3>1
  <2>. QED  BY <1>1, <1>6, <2>1, <2>2
<1>. QED  BY <1>5, <1>6, <1>7 DEF j, k, l

\* From node z, in the chain of its base, the walk goes on to a step node where m
\* characters of the match are left and m is lambda or more,
LEMMA StepMissing ==
  ASSUME Lambda \in Nat \ {0}, NEW D, Good(D), NEW z \in NodesIn(D), NEW m \in Nat, m >= Lambda,
         NEW c \in Branches(D), Under(D, c) = BaseIn(D, z), At(D, c) = SkippedIn(D, z) + m
  PROVE  \E s \in StepsIn(D) : Up(D, s) = z
<1>1. Up(D, c) \in NodesIn(D) /\ BaseIn(D, Up(D, c)) = BaseIn(D, z) /\ Off(D, c) \in 0 .. Lambda - 1
  BY BranchPath DEF Under
<1>2. SkippedIn(D, z) \in Nat /\ SkippedIn(D, Up(D, c)) \in Nat
  BY <1>1, NodePlace
<1>3. SkippedIn(D, z) < SkippedIn(D, Up(D, c))
  BY <1>1, <1>2 DEF At
<1>. QED  BY <1>1, <1>3, StepChild

\* and to the child itself where m is less.
LEMMA ChildMissing ==
  ASSUME Lambda \in Nat \ {0}, NEW D, Good(D), NEW z \in NodesIn(D), NEW m \in 0 .. Lambda - 1,
         NEW c \in Branches(D), Under(D, c) = BaseIn(D, z), At(D, c) = SkippedIn(D, z) + m
  PROVE  Up(D, c) = z /\ Off(D, c) = m
<1>1. Up(D, c) \in NodesIn(D) /\ BaseIn(D, Up(D, c)) = BaseIn(D, z) /\ Off(D, c) \in 0 .. Lambda - 1
  BY BranchPath DEF Under
<1>. QED  BY <1>1, SameStep DEF At

----------------------------------------------------------------------------
\* E has the nodes of D under the names that g gives them, with their edges,
\* rests and places.
Moves(D, E, g) ==
  /\ \A m, n \in NodesIn(D) : g[m] = g[n] => m = n
  /\ g[RootId] = RootId
  /\ \A n \in NodesIn(D) :
       /\ g[n] \in NodesIn(E) /\ (g[n] \in StepsIn(E)) = (n \in StepsIn(D))
       /\ BaseIn(E, g[n]) = g[BaseIn(D, n)] /\ SkippedIn(E, g[n]) = SkippedIn(D, n) /\ PathIn(E, g[n]) = PathIn(D, n)
  /\ \A n \in NodesIn(D) \ {RootId} : Up(E, g[n]) = g[Up(D, n)]
  /\ \A n \in Branches(D) : Off(E, g[n]) = Off(D, n) /\ By(E, g[n]) = By(D, n)
  /\ \A n \in Bases(D) : RestIn(E, g[n]) = RestIn(D, n)

\* What a node of E has to be besides.
Fits(E, x) ==
  /\ x \in Nat /\ x # RootId /\ Up(E, x) \in NodesIn(E)
  /\ BaseIn(E, x) \in Bases(E) /\ SkippedIn(E, x) \in Nat /\ PathIn(E, x) \in Seq(Chars)
  /\ PlacedAt(E, x)
  /\ x \notin StepsIn(E) =>
       /\ WellEnded(RestIn(E, x)) /\ Off(E, x) \in 0 .. Lambda - 1 /\ By(E, x) \in Chars
       /\ (RestIn(E, x) = <<>>) = (By(E, x) = 0)
       /\ OffAt(E, x)

\* The edge of x is unlike that of n.
Unlike(E, x, n) ==
  Up(E, x) = Up(E, n) =>
    /\ ~(x \in StepsIn(E) /\ n \in StepsIn(E))
    /\ ~(x \notin StepsIn(E) /\ n \notin StepsIn(E) /\ Off(E, x) = Off(E, n) /\ By(E, x) = By(E, n))

\* A node that moves takes its place and its edge along.
LEMMA MovedNode ==
  ASSUME NEW D, NEW E, NEW g, Good(D), Moves(D, E, g), NEW n \in NodesIn(D)
  PROVE  /\ g[n] \in NodesIn(E) /\ (n \in Bases(D) => g[n] \in Bases(E))
         /\ (n = RootId) = (g[n] = RootId)
         /\ BaseIn(E, g[n]) \in Bases(E) /\ SkippedIn(E, g[n]) \in Nat /\ PathIn(E, g[n]) \in Seq(Chars)
         /\ n # RootId => /\ Up(D, n) \in NodesIn(D) /\ Up(E, g[n]) = g[Up(D, n)] /\ Up(E, g[n]) \in NodesIn(E)
                          /\ Under(E, g[n]) = g[Under(D, n)]
                          /\ SkippedIn(E, Up(E, g[n])) = SkippedIn(D, Up(D, n))
                          /\ PathIn(E, Up(E, g[n])) = PathIn(D, Up(D, n))
         /\ n \in Branches(D) => /\ g[n] \in Branches(E) /\ At(E, g[n]) = At(D, n)
                                 /\ RestIn(E, Under(E, g[n])) = RestIn(D, Under(D, n))
<1>1. RootId \in NodesIn(D)
  BY DEF Good, IsTree
<1>2. \A m \in NodesIn(D) : g[m] \in NodesIn(E) /\ (m \in Bases(D) => g[m] \in Bases(E))
  BY DEF Moves, Bases
<1>3. (n = RootId) = (g[n] = RootId)
  BY <1>1 DEF Moves
<1>4. BaseIn(D, n) \in NodesIn(D) /\ BaseIn(D, n) \in Bases(D) /\ SkippedIn(D, n) \in Nat /\ PathIn(D, n) \in Seq(Chars)
  BY NodePlace
<1>5. BaseIn(E, g[n]) \in Bases(E) /\ SkippedIn(E, g[n]) \in Nat /\ PathIn(E, g[n]) \in Seq(Chars)
  BY <1>2, <1>4 DEF Moves
<1>6. n # RootId => Up(D, n) \in NodesIn(D) /\ Up(E, g[n]) = g[Up(D, n)]
  BY DEF Moves, Good, IsTree
<1>7. n # RootId => /\ Under(E, g[n]) = g[Under(D, n)]
                    /\ SkippedIn(E, Up(E, g[n])) = SkippedIn(D, Up(D, n))
                    /\ PathIn(E, Up(E, g[n])) = PathIn(D, Up(D, n))
  BY <1>6 DEF Moves, Under
<1>8. n \in Branches(D) => n # RootId /\ Under(D, n) \in Bases(D) /\ n \in Bases(D)
  BY BranchPath DEF Branches
<1>9. n \in Branches(D) => /\ g[n] \in Branches(E) /\ At(E, g[n]) = At(D, n)
                           /\ RestIn(E, Under(E, g[n])) = RestIn(D, Under(D, n))
  BY <1>2, <1>3, <1>7, <1>8 DEF Moves, At, Branches
<1>. QED  BY <1>2, <1>3, <1>5, <1>6, <1>7, <1>9

\* Then E is as good as D, if the other nodes X fit in.
LEMMA StaysGood ==
  ASSUME NEW D, NEW E, NEW g, NEW X, Good(D), RootId \in NodesIn(D), Moves(D, E, g),
         NodesIn(E) = {g[n] : n \in NodesIn(D)} \cup X, NodesIn(E) \subseteq Nat, StepsIn(E) \subseteq NodesIn(E),
         IsFiniteSet(X),
         \A x \in X : Fits(E, x),
         \A x \in X, n \in NodesIn(E) \ {RootId} : x # n => Unlike(E, x, n)
  PROVE  Good(E)
<1>1. \A y \in NodesIn(E) : y \in X \/ \E n \in NodesIn(D) : y = g[n]
  OBVIOUS
<1>2. \A n \in NodesIn(D) : g[n] \in StepsIn(E) <=> n \in StepsIn(D)
  BY DEF Moves
<1>3. IsTree(E)
  <2>1. IsFiniteSet(NodesIn(E))
    <3>1. IsFiniteSet({g[n] : n \in NodesIn(D)})
      <4>1. [n \in NodesIn(D) |-> g[n]] \in Surjection(NodesIn(D), {g[n] : n \in NodesIn(D)})
        BY DEF Surjection
      <4>. QED  BY <4>1, FS_Surjection DEF Good, IsTree
    <3>. QED  BY <3>1, FS_Union
  <2>2. RootId \in NodesIn(E) /\ RootId \notin StepsIn(E) /\ RestIn(E, RootId) # <<>>
    <3>1. RootId \in Bases(D) /\ RestIn(D, RootId) # <<>>
      BY DEF Good, IsTree, Bases
    <3>. QED  BY <3>1 DEF Moves, Bases
  <2>3. \A n \in NodesIn(E) \ {RootId} : Up(E, n) \in NodesIn(E)
    BY <1>1, MovedNode DEF Fits
  <2>4. \A n \in Bases(E) : WellEnded(RestIn(E, n))
    <3>. TAKE n \in Bases(E)
    <3>1. CASE n \in X
      BY <3>1 DEF Fits, Bases
    <3>2. CASE n \notin X
      <4>1. PICK m \in NodesIn(D) : n = g[m]
        BY <3>2, <1>1 DEF Bases
      <4>2. m \in Bases(D)
        BY <1>2, <4>1 DEF Bases
      <4>3. RestIn(E, n) = RestIn(D, m)
        BY <4>1, <4>2 DEF Moves
      <4>. QED  BY <4>2, <4>3, BaseRest
    <3>. QED  BY <3>1, <3>2
  <2>5. \A n \in Branches(E) :
          /\ Off(E, n) \in 0 .. Lambda - 1 /\ By(E, n) \in Chars
          /\ (RestIn(E, n) = <<>>) = (By(E, n) = 0)
    <3>. TAKE n \in Branches(E)
    <3>1. CASE n \in X
      BY <3>1 DEF Fits, Branches, Bases
    <3>2. CASE n \notin X
      <4>1. PICK m \in NodesIn(D) : n = g[m]
        BY <3>2, <1>1 DEF Bases, Branches
      <4>2. m \in Branches(D) /\ m \in Bases(D)
        BY <1>2, <4>1 DEF Bases, Branches, Moves
      <4>3. RestIn(E, n) = RestIn(D, m) /\ Off(E, n) = Off(D, m) /\ By(E, n) = By(D, m)
        BY <4>1, <4>2 DEF Moves
      <4>. QED  BY <4>2, <4>3 DEF Good, IsTree
    <3>. QED  BY <3>1, <3>2
  <2>. QED  BY <2>1, <2>2, <2>3, <2>4, <2>5 DEF IsTree
<1>4. EdgesDiffer(E)
  <2>. SUFFICES ASSUME NEW m \in NodesIn(E) \ {RootId}, NEW n \in NodesIn(E) \ {RootId}, Up(E, m) = Up(E, n), m # n
       PROVE  Unlike(E, m, n)
    BY DEF EdgesDiffer, Unlike
  <2>1. CASE m \in X \/ n \in X
    BY <2>1 DEF Unlike
  <2>2. CASE m \notin X /\ n \notin X
    <3>1. PICK p \in NodesIn(D) : m = g[p]
      BY <2>2, <1>1
    <3>2. PICK q \in NodesIn(D) : n = g[q]
      BY <2>2, <1>1
    <3>3. /\ p # RootId /\ q # RootId /\ p # q
          /\ Up(D, p) \in NodesIn(D) /\ Up(D, q) \in NodesIn(D) /\ g[Up(D, p)] = g[Up(D, q)]
      BY <3>1, <3>2, MovedNode
    <3>4. Up(D, p) = Up(D, q)
      BY <3>3 DEF Moves
    <3>5. Unlike(D, p, q)
      BY <3>3, <3>4 DEF Good, EdgesDiffer, Unlike
    <3>6. p \notin StepsIn(D) => Off(E, m) = Off(D, p) /\ By(E, m) = By(D, p)
      BY <3>1, <3>3 DEF Moves, Branches, Bases
    <3>7. q \notin StepsIn(D) => Off(E, n) = Off(D, q) /\ By(E, n) = By(D, q)
      BY <3>2, <3>3 DEF Moves, Branches, Bases
    <3>. QED  BY <1>2, <3>1, <3>2, <3>4, <3>5, <3>6, <3>7 DEF Unlike
  <2>. QED  BY <2>1, <2>2
<1>5. PlaceTypes(E)
  BY <1>1, MovedNode, SMTT(30) DEF PlaceTypes, Fits
<1>6. \A n \in NodesIn(E) : PlacedAt(E, n)
  <2>. TAKE n \in NodesIn(E)
  <2>1. CASE n \in X
    BY <2>1 DEF Fits
  <2>2. CASE n \notin X
    <3>1. PICK m \in NodesIn(D) : n = g[m]
      BY <2>2, <1>1
    <3>2. PlacedAt(D, m)
      BY DEF Good, Placed
    <3>3. BaseIn(E, n) = g[BaseIn(D, m)] /\ SkippedIn(E, n) = SkippedIn(D, m) /\ PathIn(E, n) = PathIn(D, m)
      BY <3>1 DEF Moves
    <3>4. CASE m = RootId
      BY <3>1, <3>2, <3>3, <3>4 DEF PlacedAt, Moves
    <3>5. CASE m # RootId /\ m \in StepsIn(D)
      BY <1>2, <3>1, <3>2, <3>3, <3>5, MovedNode DEF PlacedAt
    <3>6. CASE m # RootId /\ m \notin StepsIn(D)
      <4>1. m \in Branches(D)
        BY <3>6 DEF Branches, Bases
      <4>2. /\ n # RootId /\ n \notin StepsIn(E) /\ At(E, n) = At(D, m) /\ By(E, n) = By(D, m)
            /\ RestIn(E, Under(E, n)) = RestIn(D, Under(D, m))
            /\ PathIn(E, Up(E, n)) = PathIn(D, Up(D, m))
        <5>1. By(E, n) = By(D, m)
          BY <3>1, <4>1 DEF Moves
        <5>. QED  BY <1>2, <3>1, <3>6, <4>1, <5>1, MovedNode
      <4>3. BaseIn(D, m) = m /\ SkippedIn(D, m) = 0
            /\ PathIn(D, m) = Append(PathIn(D, Up(D, m)) \o SubSeq(RestIn(D, Under(D, m)), 1, At(D, m)), By(D, m))
        BY <3>2, <3>6 DEF PlacedAt
      <4>. QED  BY <3>1, <3>3, <4>2, <4>3 DEF PlacedAt
    <3>. QED  BY <3>4, <3>5, <3>6
  <2>. QED  BY <2>1, <2>2
<1>7. BranchesOff(E)
  <2>. SUFFICES ASSUME NEW n \in Branches(E) PROVE OffAt(E, n)
    BY DEF BranchesOff
  <2>1. CASE n \in X
    BY <2>1 DEF Fits, Branches, Bases
  <2>2. CASE n \notin X
    <3>1. PICK m \in NodesIn(D) : n = g[m]
      BY <2>2, <1>1 DEF Bases, Branches
    <3>2. m \in Branches(D)
      BY <1>2, <3>1 DEF Bases, Branches, Moves
    <3>3. OffAt(D, m) /\ By(E, n) = By(D, m)
      BY <3>1, <3>2 DEF Good, BranchesOff, Moves
    <3>. QED  BY <3>1, <3>2, <3>3, MovedNode DEF OffAt
  <2>. QED  BY <2>1, <2>2
<1>. QED  BY <1>3, <1>4, <1>5, <1>6, <1>7 DEF Good, Placed

----------------------------------------------------------------------------
\* What k has behind its first i characters.
Behind(k, i) == SubSeq(k, i + 1, Len(k))

\* What is behind the first i elements of a sequence,
LEMMA BehindIs ==
  ASSUME NEW k \in Seq(Chars), NEW i \in 0 .. Len(k)
  PROVE  /\ Behind(k, i) \in Seq(Chars) /\ Len(Behind(k, i)) = Len(k) - i
         /\ \A x \in 1 .. Len(k) - i : Behind(k, i)[x] = k[i + x]
         /\ (Behind(k, i) = <<>>) = (i = Len(k))
<1>1. Len(k) \in Nat /\ i \in Nat /\ i <= Len(k)
  OBVIOUS
<1>2. /\ SubSeq(k, i + 1, Len(k)) \in Seq(Chars) /\ Len(SubSeq(k, i + 1, Len(k))) = Len(k) - i
      /\ \A x \in 1 .. Len(k) - i : SubSeq(k, i + 1, Len(k))[x] = k[i + x]
  <2>1. \A x \in i + 1 .. Len(k) : k[x] \in Chars
    OBVIOUS
  <2>. QED  BY <1>1, <2>1, SubSeqProperties
<1>3. (Behind(k, i) = <<>>) = (Len(Behind(k, i)) = 0)
  BY <1>2, EmptySeq DEF Behind
<1>4. Len(Behind(k, i)) = Len(k) - i
  BY <1>2 DEF Behind
<1>5. (Behind(k, i) = <<>>) = (i = Len(k))
  BY <1>1, <1>3, <1>4
<1>. QED  BY <1>2, <1>5 DEF Behind

\* behind j elements of that,
LEMMA BehindBehind ==
  ASSUME NEW k \in Seq(Chars), NEW i \in 0 .. Len(k), NEW j \in 0 .. Len(k) - i
  PROVE  Behind(Behind(k, i), j) = Behind(k, i + j)
<1>. DEFINE s == Behind(k, i)
            t == Behind(s, j)
            u == Behind(k, i + j)
<1>1. i \in Nat /\ j \in Nat /\ Len(k) \in Nat /\ i + j \in 0 .. Len(k)
  OBVIOUS
<1>2. s \in Seq(Chars) /\ Len(s) = Len(k) - i /\ \A x \in 1 .. Len(k) - i : s[x] = k[i + x]
  BY BehindIs
<1>. HIDE DEF s
<1>3. t \in Seq(Chars) /\ Len(t) = Len(k) - i - j /\ \A x \in 1 .. Len(k) - i - j : t[x] = s[j + x]
  <2>1. j \in 0 .. Len(s) /\ Len(s) - j = Len(k) - i - j
    BY <1>1, <1>2
  <2>2. t \in Seq(Chars) /\ Len(t) = Len(s) - j /\ \A x \in 1 .. Len(s) - j : t[x] = s[j + x]
    BY <1>2, <2>1, BehindIs
  <2>. QED  BY <2>1, <2>2
<1>4. u \in Seq(Chars) /\ Len(u) = Len(k) - (i + j) /\ \A x \in 1 .. Len(k) - (i + j) : u[x] = k[(i + j) + x]
  BY <1>1, BehindIs
<1>. HIDE DEF t, u
<1>5. ASSUME NEW x \in 1 .. Len(t) PROVE t[x] = u[x]
  <2>1. x \in 1 .. Len(k) - i - j /\ x \in 1 .. Len(k) - (i + j) /\ j + x \in 1 .. Len(k) - i
        /\ i + (j + x) = (i + j) + x
    BY <1>1, <1>3
  <2>. QED  BY <1>2, <1>3, <1>4, <2>1
<1>6. Len(t) = Len(u)
  BY <1>1, <1>3, <1>4
<1>7. t = u
  BY <1>3, <1>4, <1>5, <1>6, SeqEqual
<1>. QED  BY <1>7 DEF t, u, s

\* and its head and tail.
LEMMA TailBehind ==
  ASSUME NEW k \in Seq(Chars), NEW i \in 0 .. Len(k) - 1
  PROVE  /\ Behind(k, i) # <<>> /\ Head(Behind(k, i)) = k[i + 1] /\ k[i + 1] \in Chars
         /\ Tail(Behind(k, i)) = Behind(k, i + 1)
<1>. DEFINE s == Behind(k, i)
            u == Behind(k, i + 1)
<1>1. i \in Nat /\ Len(k) \in Nat /\ i \in 0 .. Len(k) /\ i + 1 \in 0 .. Len(k) /\ i + 1 \in 1 .. Len(k)
  OBVIOUS
<1>2. /\ s \in Seq(Chars) /\ Len(s) = Len(k) - i /\ (\A x \in 1 .. Len(k) - i : s[x] = k[i + x])
      /\ (s = <<>>) = (i = Len(k))
  BY <1>1, BehindIs
<1>3. u \in Seq(Chars) /\ Len(u) = Len(k) - (i + 1) /\ \A x \in 1 .. Len(k) - (i + 1) : u[x] = k[(i + 1) + x]
  BY <1>1, BehindIs
<1>. HIDE DEF s, u
<1>4. s # <<>> /\ s[1] = k[i + 1] /\ k[i + 1] \in Chars
  BY <1>1, <1>2
<1>5. Head(s) = s[1] /\ Tail(s) \in Seq(Chars) /\ Len(Tail(s)) = Len(s) - 1
      /\ \A x \in 1 .. Len(Tail(s)) : Tail(s)[x] = s[x + 1]
  BY <1>2, <1>4, HeadTailProperties
<1>6. ASSUME NEW x \in 1 .. Len(Tail(s)) PROVE Tail(s)[x] = u[x]
  <2>1. x \in 1 .. Len(k) - (i + 1) /\ x + 1 \in 1 .. Len(k) - i /\ i + (x + 1) = (i + 1) + x
    BY <1>1, <1>2, <1>5
  <2>. QED  BY <1>2, <1>3, <1>5, <2>1
<1>7. Len(Tail(s)) = Len(u)
  BY <1>1, <1>2, <1>3, <1>5
<1>8. Tail(s) = u
  BY <1>3, <1>5, <1>6, <1>7, SeqEqual
<1>. QED  BY <1>4, <1>5, <1>8 DEF s, u

\* What is left of a terminated key is terminated.
LEMMA BehindEnded ==
  ASSUME NEW k, WellEnded(k), NEW i \in 0 .. Len(k)
  PROVE  WellEnded(Behind(k, i))
<1>1. k \in Seq(Chars) /\ Len(k) \in Nat /\ i \in Nat
  BY DEF WellEnded
<1>2. /\ Behind(k, i) \in Seq(Chars) /\ Len(Behind(k, i)) = Len(k) - i
      /\ \A x \in 1 .. Len(k) - i : Behind(k, i)[x] = k[i + x]
  BY <1>1, BehindIs
<1>3. ASSUME NEW x \in 1 .. Len(Behind(k, i))
      PROVE  (Behind(k, i)[x] = 0) = (x = Len(Behind(k, i)))
  <2>1. x \in 1 .. Len(k) - i /\ i + x \in 1 .. Len(k)
    BY <1>1, <1>2
  <2>2. (i + x = Len(k)) = (x = Len(k) - i)
    BY <1>1, <1>2
  <2>. QED  BY <1>2, <2>1, <2>2 DEF WellEnded
<1>. QED  BY <1>2, <1>3 DEF WellEnded

\* A sequence is a prefix and what it has behind it.
LEMMA PrefixAndBehind ==
  ASSUME NEW k \in Seq(Chars), NEW p \in Seq(Chars), Begins(k, p)
  PROVE  p \o Behind(k, Len(p)) = k
<1>. DEFINE s == Behind(k, Len(p))
            t == p \o s
<1>1. Len(p) \in Nat /\ Len(k) \in Nat /\ Len(p) \in 0 .. Len(k) /\ \A x \in 1 .. Len(p) : k[x] = p[x]
  BY DEF Begins
<1>2. s \in Seq(Chars) /\ Len(s) = Len(k) - Len(p) /\ \A x \in 1 .. Len(k) - Len(p) : s[x] = k[Len(p) + x]
  BY <1>1, BehindIs
<1>. HIDE DEF s
<1>3. /\ t \in Seq(Chars) /\ Len(t) = Len(p) + Len(s)
      /\ \A x \in 1 .. Len(p) + Len(s) : t[x] = IF x <= Len(p) THEN p[x] ELSE s[x - Len(p)]
  BY <1>2, ConcatProperties
<1>. HIDE DEF t
<1>4. Len(t) = Len(k)
  BY <1>1, <1>2, <1>3
<1>5. ASSUME NEW x \in 1 .. Len(t) PROVE t[x] = k[x]
  <2>1. CASE x <= Len(p)
    <3>1. x \in 1 .. Len(p) /\ x \in 1 .. Len(p) + Len(s)
      BY <1>1, <1>2, <1>3, <2>1
    <3>. QED  BY <1>1, <1>3, <2>1, <3>1
  <2>2. CASE ~(x <= Len(p))
    <3>1. x - Len(p) \in 1 .. Len(k) - Len(p) /\ x \in 1 .. Len(p) + Len(s) /\ Len(p) + (x - Len(p)) = x
      BY <1>1, <1>2, <1>3, <2>2
    <3>. QED  BY <1>2, <1>3, <2>2, <3>1
  <2>. QED  BY <2>1, <2>2
<1>6. t = k
  BY <1>3, <1>4, <1>5, SeqEqual
<1>. QED  BY <1>6 DEF t, s

----------------------------------------------------------------------------
\* A walk for k that has r left to match is about to compare r with the label of
\* n, or is at n with m more characters of the label above it to pass.
AtLabel(D, k, n, r) ==
  n \in Bases(D) /\ Begins(k, PathIn(D, n)) /\ r = Behind(k, Len(PathIn(D, n)))

AtMatch(D, k, n, m, r) ==
  /\ n \in NodesIn(D) /\ m \in Nat
  /\ Differs(D, k, BaseIn(D, n), SkippedIn(D, n) + m)
  /\ r = Behind(k, Len(PathIn(D, BaseIn(D, n))) + (SkippedIn(D, n) + m))

\* A walk at a label: the rest is what the key has behind the node's path.
LEMMA AtLabelFacts ==
  ASSUME NEW D, Good(D), NEW k \in Seq(Chars), NEW n, NEW r, AtLabel(D, k, n, r)
  PROVE  /\ n \in Bases(D) /\ n \in NodesIn(D) /\ BaseIn(D, n) = n /\ SkippedIn(D, n) = 0
         /\ PathIn(D, n) \in Seq(Chars) /\ Len(PathIn(D, n)) \in 0 .. Len(k) /\ Len(k) \in Nat
         /\ r \in Seq(Chars) /\ Len(r) = Len(k) - Len(PathIn(D, n))
         /\ \A x \in 1 .. Len(r) : r[x] = k[Len(PathIn(D, n)) + x]
<1>1. n \in Bases(D) /\ Begins(k, PathIn(D, n)) /\ r = Behind(k, Len(PathIn(D, n)))
  BY DEF AtLabel
<1>2. n \in NodesIn(D) /\ BaseIn(D, n) = n /\ SkippedIn(D, n) = 0
  BY <1>1, BasePlace
<1>3. PathIn(D, n) \in Seq(Chars) /\ Len(PathIn(D, n)) \in Nat
  BY <1>2, NodePlace
<1>4. Len(PathIn(D, n)) \in 0 .. Len(k) /\ Len(k) \in Nat
  BY <1>1, <1>3 DEF Begins
<1>5. r \in Seq(Chars) /\ Len(r) = Len(k) - Len(PathIn(D, n))
      /\ \A x \in 1 .. Len(k) - Len(PathIn(D, n)) : r[x] = k[Len(PathIn(D, n)) + x]
  BY <1>1, <1>4, BehindIs
<1>. QED  BY <1>1, <1>2, <1>3, <1>4, <1>5

\* What is compared is terminated on both sides or empty on both.
LEMMA LabelEnds ==
  ASSUME NEW D, Good(D), Lambda \in Nat \ {0}, NEW k, WellEnded(k), k # <<>>,
         NEW n, NEW r, AtLabel(D, k, n, r)
  PROVE  WellEnded(r) /\ WellEnded(RestIn(D, n)) /\ (r = <<>>) = (RestIn(D, n) = <<>>)
<1>1. /\ n \in Bases(D) /\ n \in NodesIn(D) /\ PathIn(D, n) \in Seq(Chars)
      /\ Len(PathIn(D, n)) \in 0 .. Len(k) /\ Len(k) \in Nat /\ k \in Seq(Chars)
  BY AtLabelFacts DEF WellEnded
<1>2. r = Behind(k, Len(PathIn(D, n))) /\ Begins(k, PathIn(D, n))
  BY DEF AtLabel
<1>3. WellEnded(r) /\ WellEnded(RestIn(D, n)) /\ (r = <<>>) = (Len(PathIn(D, n)) = Len(k))
  BY <1>1, <1>2, BehindEnded, BehindIs, BaseRest
<1>4. CASE n = RootId
  <2>1. PathIn(D, n) = <<>> /\ RestIn(D, n) # <<>>
    BY <1>1, <1>4 DEF Good, Placed, PlacedAt, IsTree
  <2>2. Len(PathIn(D, n)) = 0 /\ Len(k) # 0
    BY <1>1, <2>1, EmptySeq
  <2>. QED  BY <1>3, <2>1, <2>2
<1>5. CASE n # RootId
  <2>1. n \in Branches(D)
    BY <1>1, <1>5 DEF Branches
  <2>2. (RestIn(D, n) = <<>>) = (By(D, n) = 0)
    BY <2>1 DEF Good, IsTree
  <2>3. k[Len(PathIn(D, n))] = By(D, n) /\ Len(PathIn(D, n)) \in 1 .. Len(k)
    <3>1. Len(PathIn(D, n)) >= 1 /\ PathIn(D, n)[Len(PathIn(D, n))] = By(D, n)
      BY <2>1, BranchReads
    <3>. QED  BY <1>1, <1>2, <3>1 DEF Begins
  <2>4. (k[Len(PathIn(D, n))] = 0) = (Len(PathIn(D, n)) = Len(k))
    BY <2>3 DEF WellEnded
  <2>. QED  BY <1>3, <2>2, <2>3, <2>4
<1>. QED  BY <1>3, <1>4, <1>5

\* compare found the rest: the node has the key.
LEMMA FoundHere ==
  ASSUME NEW D, Good(D), NEW k \in Seq(Chars), NEW n, NEW r, AtLabel(D, k, n, r), r = RestIn(D, n)
  PROVE  n \in Bases(D) /\ KeyIn(D, n) = k
  BY AtLabelFacts, PrefixAndBehind DEF AtLabel, KeyIn

\* compare found a mismatch.
LEMMA MismatchHere ==
  ASSUME NEW D, Good(D), NEW k \in Seq(Chars), NEW n, NEW r, AtLabel(D, k, n, r),
         NEW i \in 0 .. Len(r) - 1, i < Len(RestIn(D, n)),
         \A x \in 1 .. i : r[x] = RestIn(D, n)[x], r[i + 1] # RestIn(D, n)[i + 1]
  PROVE  AtMatch(D, k, n, i, Behind(r, i))
<1>. DEFINE l == Len(PathIn(D, n))
<1>1. /\ n \in NodesIn(D) /\ BaseIn(D, n) = n /\ SkippedIn(D, n) = 0
      /\ l \in 0 .. Len(k) /\ Len(k) \in Nat /\ r \in Seq(Chars) /\ Len(r) = Len(k) - l
      /\ \A x \in 1 .. Len(r) : r[x] = k[l + x]
  BY AtLabelFacts
<1>2. Begins(k, PathIn(D, n)) /\ r = Behind(k, l)
  BY DEF AtLabel
<1>3. i \in Nat /\ l \in Nat /\ l + i < Len(k) /\ i + 1 \in 1 .. Len(r) /\ l + (i + 1) = l + i + 1
      /\ i \in 0 .. Len(k) - l
  BY <1>1, SMTT(30)
<1>4. Behind(r, i) = Behind(k, l + i)
  BY <1>1, <1>2, <1>3, BehindBehind
<1>5. ASSUME NEW x \in 1 .. i PROVE k[l + x] = RestIn(D, n)[x]
  <2>1. x \in 1 .. Len(r)
    BY <1>3
  <2>. QED  BY <1>1, <2>1
<1>6. k[l + i + 1] # RestIn(D, n)[i + 1]
  BY <1>1, <1>3
<1>7. Differs(D, k, n, i)
  BY <1>2, <1>3, <1>5, <1>6 DEF Differs
<1>8. SkippedIn(D, n) + i = i
  BY <1>1, <1>3
<1>. QED  BY <1>1, <1>3, <1>4, <1>7, <1>8 DEF AtMatch

\* A walk behind a mismatch: node, match and rest, measured on the key.
LEMMA AtMatchFacts ==
  ASSUME NEW D, Good(D), NEW k \in Seq(Chars), NEW n, NEW m, NEW r, AtMatch(D, k, n, m, r)
  PROVE  LET b == BaseIn(D, n)
             i == SkippedIn(D, n) + m
             l == Len(PathIn(D, b))
         IN /\ n \in NodesIn(D) /\ m \in Nat /\ b \in Bases(D) /\ i \in Nat /\ SkippedIn(D, n) \in Nat /\ l \in Nat
            /\ Len(k) \in Nat /\ l + i \in 0 .. Len(k) - 1
            /\ r # <<>> /\ Head(r) = k[l + i + 1] /\ Head(r) \in Chars /\ Tail(r) = Behind(k, l + i + 1)
<1>. DEFINE b == BaseIn(D, n)
            i == SkippedIn(D, n) + m
            l == Len(PathIn(D, b))
<1>1. n \in NodesIn(D) /\ m \in Nat /\ Differs(D, k, b, i) /\ r = Behind(k, l + i)
  BY DEF AtMatch
<1>2. b \in Bases(D) /\ b \in NodesIn(D) /\ SkippedIn(D, n) \in Nat
  BY <1>1, NodePlace
<1>3. l \in Nat
  BY <1>2, NodePlace
<1>4. l + i < Len(k) /\ i \in Nat
  BY <1>1 DEF Differs
<1>5. Len(k) \in Nat /\ l + i \in 0 .. Len(k) - 1
  BY <1>3, <1>4
<1>6. Behind(k, l + i) # <<>> /\ Head(Behind(k, l + i)) = k[l + i + 1] /\ k[l + i + 1] \in Chars
      /\ Tail(Behind(k, l + i)) = Behind(k, l + i + 1)
  BY <1>5, TailBehind
<1>. QED  BY <1>1, <1>2, <1>3, <1>4, <1>5, <1>6

\* The walk takes a step node,
LEMMA StepTaken ==
  ASSUME Lambda \in Nat \ {0}, NEW D, Good(D), NEW k \in Seq(Chars), NEW n, NEW m, NEW r,
         AtMatch(D, k, n, m, r), m >= Lambda, NEW s \in StepsIn(D), Up(D, s) = n
  PROVE  AtMatch(D, k, s, m - Lambda, r)
<1>1. n \in NodesIn(D) /\ m \in Nat /\ SkippedIn(D, n) \in Nat
  BY AtMatchFacts
<1>2. s \in NodesIn(D) /\ BaseIn(D, s) = BaseIn(D, n) /\ SkippedIn(D, s) = SkippedIn(D, n) + Lambda
  BY StepPlace
<1>3. m - Lambda \in Nat /\ SkippedIn(D, s) + (m - Lambda) = SkippedIn(D, n) + m
  BY <1>1, <1>2
<1>. QED  BY <1>2, <1>3 DEF AtMatch

\* or a branch.
LEMMA BranchTaken ==
  ASSUME Lambda \in Nat \ {0}, NEW D, Good(D), NEW k \in Seq(Chars), NEW n, NEW m, NEW r,
         AtMatch(D, k, n, m, r), NEW c \in Branches(D), Up(D, c) = n, Off(D, c) = m, By(D, c) = Head(r)
  PROVE  AtLabel(D, k, c, Tail(r))
<1>. DEFINE b == BaseIn(D, n)
            i == SkippedIn(D, n) + m
            l == Len(PathIn(D, b))
            p == PathIn(D, c)
<1>1. /\ i \in Nat /\ l \in Nat /\ Len(k) \in Nat /\ l + i \in 0 .. Len(k) - 1
      /\ Head(r) = k[l + i + 1] /\ Tail(r) = Behind(k, l + i + 1)
  BY AtMatchFacts
<1>2. Begins(k, PathIn(D, b)) /\ \A x \in 1 .. i : k[l + x] = RestIn(D, b)[x]
  BY DEF AtMatch, Differs
<1>3. /\ Len(p) = l + i + 1
      /\ \A x \in 1 .. l : p[x] = PathIn(D, b)[x]
      /\ \A x \in 1 .. i : p[l + x] = RestIn(D, b)[x]
      /\ p[l + i + 1] = Head(r)
  <2>1. Under(D, c) = b /\ At(D, c) = i
    BY DEF Under, At
  <2>. HIDE DEF b, i
  <2>2. /\ Len(p) = Len(PathIn(D, Under(D, c))) + At(D, c) + 1
        /\ \A x \in 1 .. Len(PathIn(D, Under(D, c))) : p[x] = PathIn(D, Under(D, c))[x]
        /\ \A x \in 1 .. At(D, c) : p[Len(PathIn(D, Under(D, c))) + x] = RestIn(D, Under(D, c))[x]
        /\ p[Len(PathIn(D, Under(D, c))) + At(D, c) + 1] = By(D, c)
    BY BranchReads
  <2>. HIDE DEF p
  <2>. QED  BY <2>1, <2>2
<1>4. l = Len(PathIn(D, b))
  OBVIOUS
<1>. HIDE DEF b, i, l, p
<1>5. ASSUME NEW x \in 1 .. l + i + 1 PROVE k[x] = p[x]
  <2>1. CASE x \in 1 .. l
    BY <1>2, <1>3, <1>4, <2>1 DEF Begins
  <2>2. CASE x \in l + 1 .. l + i
    <3>1. x - l \in 1 .. i /\ l + (x - l) = x
      BY <1>1, <2>2
    <3>. QED  BY <1>2, <1>3, <3>1
  <2>3. CASE x = l + i + 1
    BY <1>1, <1>3, <2>3
  <2>. QED  BY <1>1, <2>1, <2>2, <2>3
<1>6. Begins(k, p)
  BY <1>1, <1>3, <1>5 DEF Begins
<1>. QED  BY <1>1, <1>3, <1>6 DEF AtLabel, p, Branches

\* Where the step node or the branch is missing, k is not a key of the trie.
LEMMA NoStepNoKey ==
  ASSUME Lambda \in Nat \ {0}, NEW D, Good(D), NEW k \in Seq(Chars), NEW n, NEW m, NEW r,
         AtMatch(D, k, n, m, r), m >= Lambda, \A s \in StepsIn(D) : Up(D, s) # n
  PROVE  \A x \in Bases(D) : KeyIn(D, x) # k
<1>. SUFFICES ASSUME NEW x \in Bases(D), KeyIn(D, x) = k PROVE FALSE
  OBVIOUS
<1>1. n \in NodesIn(D) /\ m \in Nat /\ BaseIn(D, n) \in Bases(D)
  BY AtMatchFacts
<1>2. Differs(D, k, BaseIn(D, n), SkippedIn(D, n) + m)
  BY DEF AtMatch
<1>3. PICK c \in Branches(D) : Under(D, c) = BaseIn(D, n) /\ At(D, c) = SkippedIn(D, n) + m
  BY <1>1, <1>2, BranchMissing
<1>. QED  BY <1>1, <1>3, StepMissing

\* Without the child for its next character the key is not in the tree.
LEMMA NoBranchNoKey ==
  ASSUME Lambda \in Nat \ {0}, NEW D, Good(D), NEW k \in Seq(Chars), NEW n, NEW m, NEW r,
         AtMatch(D, k, n, m, r), m < Lambda,
         \A c \in Branches(D) : ~(Up(D, c) = n /\ Off(D, c) = m /\ By(D, c) = Head(r))
  PROVE  \A x \in Bases(D) : KeyIn(D, x) # k
<1>. SUFFICES ASSUME NEW x \in Bases(D), KeyIn(D, x) = k PROVE FALSE
  OBVIOUS
<1>1. /\ n \in NodesIn(D) /\ m \in Nat /\ BaseIn(D, n) \in Bases(D)
      /\ Head(r) = k[Len(PathIn(D, BaseIn(D, n))) + (SkippedIn(D, n) + m) + 1]
  BY AtMatchFacts
<1>2. Differs(D, k, BaseIn(D, n), SkippedIn(D, n) + m)
  BY DEF AtMatch
<1>3. PICK c \in Branches(D) : /\ Under(D, c) = BaseIn(D, n) /\ At(D, c) = SkippedIn(D, n) + m
                               /\ By(D, c) = Head(r)
  BY <1>1, <1>2, BranchMissing
<1>4. m \in 0 .. Lambda - 1
  BY <1>1
<1>. QED  BY <1>1, <1>3, <1>4, ChildMissing

\* A walk goes on in E where it was in D.
LEMMA WalkMoves ==
  ASSUME NEW D, NEW E, NEW g, Good(D), Moves(D, E, g),
         NEW k, NEW n, NEW m, NEW r, AtMatch(D, k, n, m, r)
  PROVE  AtMatch(E, k, g[n], m, r)
<1>1. n \in NodesIn(D) /\ BaseIn(D, n) \in Bases(D) /\ BaseIn(D, n) \in NodesIn(D)
  BY NodePlace DEF AtMatch
<1>2. /\ g[n] \in NodesIn(E) /\ BaseIn(E, g[n]) = g[BaseIn(D, n)] /\ SkippedIn(E, g[n]) = SkippedIn(D, n)
      /\ PathIn(E, g[BaseIn(D, n)]) = PathIn(D, BaseIn(D, n))
      /\ RestIn(E, g[BaseIn(D, n)]) = RestIn(D, BaseIn(D, n))
  BY <1>1 DEF Moves
<1>. QED  BY <1>2 DEF AtMatch, Differs

----------------------------------------------------------------------------
\* The path decomposition that the trie and the labels are, F giving the places.
TreeWith(F) ==
  [nodes |-> TrieNodes, steps |-> {n \in TrieNodes : IsStep(n)},
   parent |-> [n \in TrieNodes \ {RootId} |-> Parent(hash_trie, n)],
   match |-> [n \in KeyNodes \ {RootId} |-> SymbMatch(n)],
   char |-> [n \in KeyNodes \ {RootId} |-> BranchChar(n)],
   rest |-> [n \in KeyNodes |-> Rest(n)],
   place |-> F]

Tree == TreeWith(Place)

\* The members of the object's tree, read off its variables,
LEMMA TreeFacts ==
  ASSUME NEW F, NEW D, D = TreeWith(F)
  PROVE  /\ NodesIn(D) = TrieNodes /\ (\A n \in TrieNodes : (n \in StepsIn(D)) = IsStep(n))
         /\ StepsIn(D) \subseteq TrieNodes /\ RootId \notin StepsIn(D)
         /\ Bases(D) = KeyNodes /\ Branches(D) = KeyNodes \ {RootId}
         /\ \A n \in TrieNodes \ {RootId} : Up(D, n) = Parent(hash_trie, n)
         /\ \A n \in KeyNodes \ {RootId} : Off(D, n) = SymbMatch(n) /\ By(D, n) = BranchChar(n)
         /\ \A n \in KeyNodes : RestIn(D, n) = Rest(n)
         /\ \A n \in TrieNodes : BaseIn(D, n) = F[n].base /\ SkippedIn(D, n) = F[n].skipped /\ PathIn(D, n) = F[n].path
  BY DEF TreeWith, NodesIn, StepsIn, Up, Off, By, RestIn, BaseIn, SkippedIn, PathIn, Bases, Branches, KeyNodes, IsStep

\* and of the tree after a step.
LEMMA NextTreeFacts ==
  ASSUME NEW F, NEW D, D = TreeWith(F)'
  PROVE  /\ NodesIn(D) = TrieNodes' /\ (\A n \in TrieNodes' : (n \in StepsIn(D)) = IsStep(n)')
         /\ StepsIn(D) \subseteq TrieNodes' /\ RootId \notin StepsIn(D)
         /\ Bases(D) = KeyNodes' /\ Branches(D) = KeyNodes' \ {RootId}
         /\ \A n \in TrieNodes' \ {RootId} : Up(D, n) = Parent(hash_trie', n)
         /\ \A n \in KeyNodes' \ {RootId} : Off(D, n) = SymbMatch(n)' /\ By(D, n) = BranchChar(n)'
         /\ \A n \in KeyNodes' : RestIn(D, n) = Rest(n)'
         /\ \A n \in TrieNodes' : BaseIn(D, n) = F[n].base /\ SkippedIn(D, n) = F[n].skipped /\ PathIn(D, n) = F[n].path
  BY DEF TreeWith, NodesIn, StepsIn, Up, Off, By, RestIn, BaseIn, SkippedIn, PathIn, Bases, Branches, KeyNodes, IsStep

\* Only one function gives the nodes their places: one that agrees with F on a
\* node if it does so on the parent agrees everywhere.
LEMMA OnePlacement ==
  ASSUME Lambda \in Nat \ {0}, NEW D, Good(D), NEW F, NEW h,
         \A n \in NodesIn(D) : (n # RootId => h[Up(D, n)] = F[Up(D, n)]) => h[n] = F[n]
  PROVE  \A n \in NodesIn(D) : h[n] = F[n]
<1>. DEFINE T == {n \in NodesIn(D) : h[n] # F[n]}
            m == [n \in NodesIn(D) |-> Depth(D, n)]
<1>1. ASSUME T # {} PROVE FALSE
  <2>1. PICK n \in T : \A k \in T : m[n] <= m[k]
    <3>1. \A x \in T : m[x] \in Nat
      BY NodePlace
    <3>. HIDE DEF T, m
    <3>. QED  BY <1>1, <3>1, Smallest
  <2>2. n \in NodesIn(D) /\ n # RootId /\ h[Up(D, n)] # F[Up(D, n)]
    OBVIOUS
  <2>3. Up(D, n) \in NodesIn(D) /\ Depth(D, Up(D, n)) < Depth(D, n)
        /\ Depth(D, Up(D, n)) \in Nat /\ Depth(D, n) \in Nat
    BY <2>2, Deeper, NodePlace
  <2>4. Up(D, n) \notin T
    BY <2>1, <2>2, <2>3
  <2>. QED  BY <2>2, <2>3, <2>4
<1>. QED  BY <1>1

\* The places are those that make the decomposition good.
LEMMA PlaceIs ==
  ASSUME Lambda \in Nat \ {0}, NEW F, F \in [TrieNodes' -> Places], NEW D, D = TreeWith(F)', Good(D)
  PROVE  Place' = F
<1>. DEFINE Body(h) ==
              [n \in TrieNodes' |->
                 IF n = RootId THEN [base |-> n, skipped |-> 0, path |-> <<>>]
                 ELSE Below(n)'[h[Parent(hash_trie', n)]]]
<1>1. Place' = CHOOSE h : h = Body(h)
  BY DEF Place
<1>2. ASSUME NEW n \in TrieNodes', NEW p \in Places
      PROVE  Below(n)'[p] = IF IsStep(n)'
                            THEN [base |-> p.base, skipped |-> p.skipped + Lambda, path |-> p.path]
                            ELSE [base |-> n, skipped |-> 0,
                                  path |-> Append(p.path \o SubSeq(Rest(p.base)', 1, p.skipped + SymbMatch(n)'), BranchChar(n)')]
  BY DEF Below
<1>3. ASSUME NEW n \in TrieNodes'
      PROVE  /\ F[n] = [base |-> F[n].base, skipped |-> F[n].skipped, path |-> F[n].path]
             /\ n # RootId => Parent(hash_trie', n) \in TrieNodes' /\ F[n] = Below(n)'[F[Parent(hash_trie', n)]]
  <2>1. F[n] \in Places /\ F[n] = [base |-> F[n].base, skipped |-> F[n].skipped, path |-> F[n].path]
    BY DEF Places
  <2>. SUFFICES ASSUME n # RootId
                PROVE  Parent(hash_trie', n) \in TrieNodes' /\ F[n] = Below(n)'[F[Parent(hash_trie', n)]]
    BY <2>1
  <2>2. n \in NodesIn(D) /\ Up(D, n) \in NodesIn(D) /\ Up(D, n) = Parent(hash_trie', n) /\ NodesIn(D) = TrieNodes'
    BY NextTreeFacts DEF Good, IsTree
  <2>. DEFINE q == Up(D, n)
  <2>3. F[q] \in Places
    BY <2>2
  <2>4. /\ BaseIn(D, n) = F[n].base /\ SkippedIn(D, n) = F[n].skipped /\ PathIn(D, n) = F[n].path
        /\ Under(D, n) = F[q].base /\ SkippedIn(D, q) = F[q].skipped /\ PathIn(D, q) = F[q].path
    BY <2>2, NextTreeFacts DEF Under
  <2>5. PlacedAt(D, n)
    BY <2>2 DEF Good, Placed
  <2>6. CASE IsStep(n)'
    <3>1. n \in StepsIn(D)
      BY <2>6, NextTreeFacts
    <3>2. F[n].base = F[q].base /\ F[n].skipped = F[q].skipped + Lambda /\ F[n].path = F[q].path
      BY <2>4, <2>5, <3>1 DEF PlacedAt
    <3>3. Below(n)'[F[q]] = [base |-> F[q].base, skipped |-> F[q].skipped + Lambda, path |-> F[q].path]
      BY <1>2, <2>3, <2>6
    <3>. QED  BY <2>1, <2>2, <3>2, <3>3
  <2>7. CASE ~IsStep(n)'
    <3>1. n \notin StepsIn(D) /\ n \in KeyNodes' \ {RootId}
      BY <2>2, <2>7, NextTreeFacts DEF KeyNodes
    <3>2. Off(D, n) = SymbMatch(n)' /\ By(D, n) = BranchChar(n)'
      BY <3>1, NextTreeFacts
    <3>3. RestIn(D, Under(D, n)) = Rest(F[q].base)'
      <4>1. Under(D, n) \in KeyNodes'
        BY <2>2, NodePlace, NextTreeFacts DEF Under
      <4>2. \A x \in KeyNodes' : RestIn(D, x) = Rest(x)'
        BY NextTreeFacts
      <4>. QED  BY <2>4, <4>1, <4>2
    <3>4. At(D, n) = F[q].skipped + SymbMatch(n)'
      BY <2>4, <3>2 DEF At
    <3>5. /\ F[n].base = n /\ F[n].skipped = 0
          /\ F[n].path = Append(F[q].path \o SubSeq(Rest(F[q].base)', 1, F[q].skipped + SymbMatch(n)'), BranchChar(n)')
      BY <2>4, <2>5, <3>1, <3>2, <3>3, <3>4 DEF PlacedAt
    <3>6. Below(n)'[F[q]] = [base |-> n, skipped |-> 0,
                             path |-> Append(F[q].path \o SubSeq(Rest(F[q].base)', 1, F[q].skipped + SymbMatch(n)'), BranchChar(n)')]
      BY <1>2, <2>3, <2>7
    <3>. QED  BY <2>1, <2>2, <3>5, <3>6
  <2>. QED  BY <2>6, <2>7
<1>4. RootId \in TrieNodes' => F[RootId] = [base |-> RootId, skipped |-> 0, path |-> <<>>]
  <2>. SUFFICES ASSUME RootId \in TrieNodes' PROVE F[RootId] = [base |-> RootId, skipped |-> 0, path |-> <<>>]
    OBVIOUS
  <2>1. RootId \in NodesIn(D) /\ BaseIn(D, RootId) = F[RootId].base /\ SkippedIn(D, RootId) = F[RootId].skipped
        /\ PathIn(D, RootId) = F[RootId].path
    BY NextTreeFacts
  <2>2. F[RootId].base = RootId /\ F[RootId].skipped = 0 /\ F[RootId].path = <<>>
    BY <2>1 DEF Good, Placed, PlacedAt
  <2>. QED  BY <1>3, <2>2
<1>5. F = Body(F)
  BY <1>3, <1>4
<1>6. Place' = Body(Place')
  <2>. HIDE DEF Body
  <2>. QED  BY <1>1, <1>5
<1>7. \A n \in TrieNodes' : Place'[n] = F[n]
  <2>1. NodesIn(D) = TrieNodes' /\ \A n \in TrieNodes' \ {RootId} : Up(D, n) = Parent(hash_trie', n)
    BY NextTreeFacts
  <2>2. ASSUME NEW n \in TrieNodes', n # RootId => Place'[Up(D, n)] = F[Up(D, n)]
        PROVE  Place'[n] = F[n]
    <3>1. CASE n = RootId
      BY <1>4, <1>6, <3>1
    <3>2. CASE n # RootId
      BY <1>3, <1>6, <2>1, <2>2, <3>2
    <3>. QED  BY <3>1, <3>2
  <2>. QED  BY <2>1, <2>2, OnePlacement
<1>8. Place' = [n \in TrieNodes' |-> Place'[n]]
  BY <1>6
<1>. QED  BY <1>7, <1>8

\* A step that leaves the nodes, their edges and the characters of the labels
\* alone leaves the decomposition alone.
LEMMA SameTree ==
  ASSUME Lambda \in Nat \ {0}, Good(Tree), Place \in [TrieNodes -> Places], TrieNodes' = TrieNodes,
         \A n \in TrieNodes \ {RootId} :
           Parent(hash_trie', n) = Parent(hash_trie, n) /\ Symb(hash_trie', n) = Symb(hash_trie, n),
         \A n \in KeyNodes \ {RootId} : BranchChar(n)' = BranchChar(n),
         \A n \in KeyNodes : LabelAt(label_store', n).chars = LabelAt(label_store, n).chars
  PROVE  Tree' = Tree /\ Place' = Place /\ KeyNodes' = KeyNodes
<1>1. \A n \in TrieNodes : IsStep(n)' = IsStep(n)
  BY DEF IsStep
<1>2. KeyNodes' = KeyNodes
  BY <1>1 DEF KeyNodes
<1>3. \A n \in KeyNodes : Rest(n)' = Rest(n)
  BY DEF Rest
<1>4. \A n \in KeyNodes \ {RootId} : SymbMatch(n)' = SymbMatch(n)
  BY DEF SymbMatch, KeyNodes
<1>5. PICK F : F = Place
  OBVIOUS
<1>6. PICK E : E = TreeWith(F)'
  OBVIOUS
<1>7. E = TreeWith(F)
  <2>1. {n \in TrieNodes' : IsStep(n)'} = {n \in TrieNodes : IsStep(n)}
    BY <1>1
  <2>2. [n \in TrieNodes' \ {RootId} |-> Parent(hash_trie', n)] = [n \in TrieNodes \ {RootId} |-> Parent(hash_trie, n)]
    OBVIOUS
  <2>3. [n \in KeyNodes' \ {RootId} |-> SymbMatch(n)'] = [n \in KeyNodes \ {RootId} |-> SymbMatch(n)]
    BY <1>2, <1>4
  <2>4. [n \in KeyNodes' \ {RootId} |-> BranchChar(n)'] = [n \in KeyNodes \ {RootId} |-> BranchChar(n)]
    BY <1>2
  <2>5. [n \in KeyNodes' |-> Rest(n)'] = [n \in KeyNodes |-> Rest(n)]
    BY <1>2, <1>3
  <2>. QED  BY <1>6, <2>1, <2>2, <2>3, <2>4, <2>5, Zenon DEF TreeWith
<1>8. E = Tree
  BY <1>5, <1>7 DEF Tree
<1>9. Place' = F
  BY <1>5, <1>6, <1>8, PlaceIs
<1>10. Tree' = E
  BY <1>6, <1>9 DEF Tree, TreeWith
<1>. QED  BY <1>2, <1>5, <1>8, <1>9, <1>10

----------------------------------------------------------------------------
\* What becomes of the trie and the labels when a child of node_id by symbol y is
\* added: s has the trie, the child and the labels, g the new names of the nodes.
Grown(g, s, y) ==
  /\ \A m, n \in Nodes(hash_trie) : g[m] = g[n] => m = n
  /\ g[RootId] = RootId
  /\ \A n \in Nodes(hash_trie) : g[n] # s.node
  /\ Nodes(s.trie) = {g[n] : n \in Nodes(hash_trie)} \cup {s.node} /\ Nodes(s.trie) \subseteq Nat
  /\ \A n \in Nodes(hash_trie) \ {RootId} :
       Parent(s.trie, g[n]) = g[Parent(hash_trie, n)] /\ Symb(s.trie, g[n]) = Symb(hash_trie, n)
  /\ Parent(s.trie, s.node) = g[node_id] /\ Symb(s.trie, s.node) = y
  /\ Labelled(s.labels) = {g[n] : n \in Labelled(label_store)}
  /\ \A n \in Labelled(label_store) : SameLabel(label_store, n, s.labels, g[n])
  /\ Size(s.trie) # 0 /\ ~NeedsToExpand(s.trie)
  /\ \A n \in Nodes(hash_trie) \ {RootId} : ~(Parent(hash_trie, n) = node_id /\ Symb(hash_trie, n) = y)

\* A child that is added is added as the promises say, if the table grows or not.
LEMMA Settles ==
  ASSUME NEW y, AddingKept(y), NEW r, r = AddChild(hash_trie, node_id, y), r.added,
         NEW s, s = Settle(r.trie, r.node), RootId \in Nodes(hash_trie), node_id \in Nodes(hash_trie),
         \A n \in Nodes(hash_trie) \ {RootId} : Parent(hash_trie, n) \in Nodes(hash_trie),
         Nodes(hash_trie) \subseteq Nat, Labelled(label_store) \subseteq Nodes(hash_trie)
  PROVE  \E g : Grown(g, s, y)
<1>. DEFINE N == Nodes(hash_trie)
<1>1. /\ ChildrenBy(r.trie, node_id, y) = {r.node} /\ ChildrenBy(hash_trie, node_id, y) = {}
      /\ Nodes(r.trie) = N \cup {r.node} /\ r.node \notin N /\ r.node \in Nat
      /\ \A m \in N \ {RootId} : Parent(r.trie, m) = Parent(hash_trie, m) /\ Symb(r.trie, m) = Symb(hash_trie, m)
      /\ Size(r.trie) # 0
  BY DEF AddingKept, AddsChild
<1>2. r.node # RootId /\ Parent(r.trie, r.node) = node_id /\ Symb(r.trie, r.node) = y
      /\ \A n \in N \ {RootId} : ~(Parent(hash_trie, n) = node_id /\ Symb(hash_trie, n) = y)
  BY <1>1 DEF ChildrenBy
<1>3. CASE ~NeedsToExpand(r.trie)
  <2>. DEFINE g == [n \in N |-> n]
  <2>1. s.trie = r.trie /\ s.node = r.node /\ s.labels = label_store
    BY <1>3 DEF Settle
  <2>2. {g[n] : n \in N} = N /\ {g[n] : n \in Labelled(label_store)} = Labelled(label_store)
    OBVIOUS
  <2>3. \A n \in Labelled(label_store) : SameLabel(label_store, n, s.labels, g[n])
    BY <2>1 DEF SameLabel
  <2>4. Grown(g, s, y)
    BY <1>1, <1>2, <1>3, <2>1, <2>2, <2>3, ZenonT(30) DEF Grown
  <2>. QED  BY <2>4
<1>4. CASE NeedsToExpand(r.trie)
  <2>. DEFINE e == Expand(r.trie)
              g == e.map
  <2>1. s.trie = e.trie /\ s.node = g[r.node] /\ s.labels = ExpandLabels(label_store, g)
    BY <1>4 DEF Settle
  <2>2. Grows(r.trie) /\ MovesLabels(label_store, g)
    BY <1>4 DEF AddingKept
  <2>. HIDE DEF g
  <2>3. /\ Nodes(s.trie) = {g[m] : m \in Nodes(r.trie)} /\ Nodes(s.trie) \subseteq Nat
        /\ \A m, n \in Nodes(r.trie) : g[m] = g[n] => m = n
        /\ g[RootId] = RootId
        /\ \A m \in Nodes(r.trie) \ {RootId} :
             Parent(s.trie, g[m]) = g[Parent(r.trie, m)] /\ Symb(s.trie, g[m]) = Symb(r.trie, m)
        /\ Size(s.trie) # 0 /\ ~NeedsToExpand(s.trie)
    BY <2>1, <2>2 DEF Grows, g
  <2>4. /\ Labelled(s.labels) = {g[m] : m \in Labelled(label_store)}
        /\ \A m \in Labelled(label_store) : SameLabel(label_store, m, s.labels, g[m])
    BY <2>1, <2>2 DEF MovesLabels
  <2>5. Nodes(s.trie) = {g[n] : n \in N} \cup {s.node} /\ \A n \in N : g[n] # s.node
    BY <1>1, <2>1, <2>3
  <2>6. \A n \in N \ {RootId} :
          Parent(s.trie, g[n]) = g[Parent(hash_trie, n)] /\ Symb(s.trie, g[n]) = Symb(hash_trie, n)
    BY <1>1, <2>3
  <2>7. Parent(s.trie, s.node) = g[node_id] /\ Symb(s.trie, s.node) = y
    BY <1>1, <1>2, <2>1, <2>3
  <2>8. Grown(g, s, y)
    BY <1>1, <1>2, <2>3, <2>4, <2>5, <2>6, <2>7 DEF Grown
  <2>. QED  BY <2>8
<1>. QED  BY <1>3, <1>4

\* A step that adds the child to a trie that is a decomposition D.
GrowsBy(D, g, s, y) ==
  /\ D = Tree /\ Good(D) /\ RootId \in TrieNodes /\ TrieNodes = Nodes(hash_trie) /\ node_id \in TrieNodes
  /\ Grown(g, s, y) /\ hash_trie' = s.trie /\ UNCHANGED codes
  /\ \A n \in KeyNodes : LabelAt(label_store', g[n]).chars = LabelAt(label_store, n).chars

\* E is D with the node x, of place q.
Extends(D, g, x, q, E, F) ==
  /\ E = TreeWith(F)' /\ F \in [TrieNodes' -> Places] /\ F[x] = q /\ Moves(D, E, g)
  /\ TrieNodes' = NodesIn(E) /\ NodesIn(E) = {g[n] : n \in NodesIn(D)} \cup {x}
  /\ Fits(E, x) /\ (\A n \in NodesIn(D) \ {RootId} : Unlike(E, x, g[n])) =>
       Good(E) /\ Tree' = E /\ Place' = F

\* The decomposition that the next trie and labels are, if the new node fits in.
LEMMA GrownTree ==
  ASSUME Lambda \in Nat \ {0}, NEW D, NEW g, NEW s, NEW y, GrowsBy(D, g, s, y), NEW q \in Places
  PROVE  \E E, F : Extends(D, g, s.node, q, E, F)
<1>. DEFINE x == s.node
            P == [n \in TrieNodes |-> [base |-> g[BaseIn(D, n)], skipped |-> SkippedIn(D, n), path |-> PathIn(D, n)]]
<1>0. /\ D = Tree /\ Good(D) /\ RootId \in TrieNodes /\ TrieNodes = Nodes(hash_trie)
      /\ Grown(g, s, y) /\ hash_trie' = s.trie /\ UNCHANGED codes
      /\ \A n \in KeyNodes : LabelAt(label_store', g[n]).chars = LabelAt(label_store, n).chars
  BY DEF GrowsBy
<1>1. TrieNodes' = {g[n] : n \in TrieNodes} \cup {x} /\ TrieNodes' \subseteq Nat
  BY <1>0 DEF Grown, TrieNodes
<1>2. /\ \A m, n \in TrieNodes : g[m] = g[n] => m = n
      /\ \A n \in TrieNodes : g[n] # x
      /\ g[RootId] = RootId
  BY <1>0 DEF Grown
<1>3. /\ NodesIn(D) = TrieNodes /\ (\A n \in TrieNodes : (n \in StepsIn(D)) = IsStep(n))
      /\ Bases(D) = KeyNodes /\ Branches(D) = KeyNodes \ {RootId}
      /\ \A n \in TrieNodes \ {RootId} : Up(D, n) = Parent(hash_trie, n)
      /\ \A n \in KeyNodes \ {RootId} : Off(D, n) = SymbMatch(n) /\ By(D, n) = BranchChar(n)
      /\ \A n \in KeyNodes : RestIn(D, n) = Rest(n)
  <2>1. PICK F : F = Place
    OBVIOUS
  <2>2. D = TreeWith(F)
    BY <1>0, <2>1 DEF Tree
  <2>. QED  BY <2>2, TreeFacts
<1>4. ASSUME NEW n \in TrieNodes
      PROVE  BaseIn(D, n) \in TrieNodes /\ SkippedIn(D, n) \in Nat /\ PathIn(D, n) \in Seq(Chars)
  BY <1>0, <1>3, NodePlace
<1>5. \A n \in TrieNodes : P[n] \in Places
  <2>. TAKE n \in TrieNodes
  <2>1. g[BaseIn(D, n)] \in Nat
    BY <1>1, <1>4
  <2>. QED  BY <1>4, <2>1 DEF Places
<1>6. PICK F \in [{g[n] : n \in TrieNodes} \cup {x} -> Places] : F[x] = q /\ \A n \in TrieNodes : F[g[n]] = P[n]
  <2>. DEFINE Of(z) == CHOOSE n \in TrieNodes : g[n] = z
              F == [z \in {g[n] : n \in TrieNodes} \cup {x} |-> IF z = x THEN q ELSE P[Of(z)]]
  <2>. HIDE DEF P, x
  <2>1. \A n \in TrieNodes : Of(g[n]) = n
    BY <1>2
  <2>. HIDE DEF Of
  <2>2. F \in [{g[n] : n \in TrieNodes} \cup {x} -> Places]
    BY <1>5, <2>1
  <2>3. F[x] = q /\ \A n \in TrieNodes : F[g[n]] = P[n]
    BY <1>2, <2>1 DEF x
  <2>. QED  BY <2>2, <2>3
<1>7. PICK E : E = TreeWith(F)'
  OBVIOUS
<1>8. /\ NodesIn(E) = TrieNodes' /\ (\A n \in TrieNodes' : (n \in StepsIn(E)) = IsStep(n)')
      /\ StepsIn(E) \subseteq TrieNodes'
      /\ Bases(E) = KeyNodes'
      /\ \A n \in TrieNodes' \ {RootId} : Up(E, n) = Parent(hash_trie', n)
      /\ \A n \in KeyNodes' \ {RootId} : Off(E, n) = SymbMatch(n)' /\ By(E, n) = BranchChar(n)'
      /\ \A n \in KeyNodes' : RestIn(E, n) = Rest(n)'
      /\ \A n \in TrieNodes' : BaseIn(E, n) = F[n].base /\ SkippedIn(E, n) = F[n].skipped /\ PathIn(E, n) = F[n].path
  BY <1>7, NextTreeFacts
<1>9. ASSUME NEW n \in TrieNodes
      PROVE  /\ g[n] \in TrieNodes' /\ (g[n] = RootId) = (n = RootId) /\ IsStep(g[n])' = IsStep(n)
             /\ n # RootId => Parent(hash_trie', g[n]) = g[Parent(hash_trie, n)]
                              /\ Symb(hash_trie', g[n]) = Symb(hash_trie, n)
  <2>1. g[n] \in TrieNodes' /\ (g[n] = RootId) = (n = RootId)
    BY <1>0, <1>1, <1>2
  <2>2. n # RootId => Parent(hash_trie', g[n]) = g[Parent(hash_trie, n)]
                      /\ Symb(hash_trie', g[n]) = Symb(hash_trie, n)
    BY <1>0 DEF Grown
  <2>. QED  BY <2>1, <2>2 DEF IsStep
<1>10. ASSUME NEW n \in KeyNodes
       PROVE  /\ g[n] \in KeyNodes' /\ Rest(g[n])' = Rest(n)
              /\ n # RootId => SymbMatch(g[n])' = SymbMatch(n) /\ BranchChar(g[n])' = BranchChar(n)
  <2>1. g[n] \in KeyNodes'
    BY <1>9 DEF KeyNodes
  <2>2. n # RootId => SymbMatch(g[n])' = SymbMatch(n) /\ BranchChar(g[n])' = BranchChar(n)
    <3>1. CharOf' = CharOf
      BY <1>0 DEF CharOf
    <3>2. n \in TrieNodes
      BY DEF KeyNodes
    <3>. QED  BY <1>9, <3>1, <3>2 DEF SymbMatch, BranchChar
  <2>3. (g[n] = RootId) = (n = RootId)
    BY <1>9 DEF KeyNodes
  <2>. QED  BY <1>0, <2>1, <2>2, <2>3 DEF Rest
<1>11. Moves(D, E, g)
  <2>1. ASSUME NEW n \in NodesIn(D)
        PROVE  /\ g[n] \in NodesIn(E) /\ (g[n] \in StepsIn(E)) = (n \in StepsIn(D))
               /\ BaseIn(E, g[n]) = g[BaseIn(D, n)] /\ SkippedIn(E, g[n]) = SkippedIn(D, n)
               /\ PathIn(E, g[n]) = PathIn(D, n)
    <3>1. n \in TrieNodes /\ g[n] \in TrieNodes' /\ F[g[n]] = P[n]
      BY <1>3, <1>6, <1>9
    <3>2. P[n].base = g[BaseIn(D, n)] /\ P[n].skipped = SkippedIn(D, n) /\ P[n].path = PathIn(D, n)
      BY <3>1
    <3>. HIDE DEF P
    <3>3. (g[n] \in StepsIn(E)) = (n \in StepsIn(D))
      BY <1>3, <1>8, <1>9, <3>1
    <3>. QED  BY <1>8, <3>1, <3>2, <3>3
  <2>. HIDE DEF P
  <2>2. \A n \in NodesIn(D) \ {RootId} : Up(E, g[n]) = g[Up(D, n)]
    BY <1>3, <1>8, <1>9
  <2>3. \A n \in Branches(D) : Off(E, g[n]) = Off(D, n) /\ By(E, g[n]) = By(D, n)
    <3>. TAKE n \in Branches(D)
    <3>1. n \in KeyNodes /\ n # RootId /\ g[n] \in KeyNodes' /\ g[n] # RootId
      BY <1>3, <1>9, <1>10 DEF KeyNodes
    <3>2. Off(E, g[n]) = SymbMatch(g[n])' /\ By(E, g[n]) = BranchChar(g[n])'
      BY <1>8, <3>1
    <3>. QED  BY <1>3, <1>10, <3>1, <3>2
  <2>4. \A n \in Bases(D) : RestIn(E, g[n]) = RestIn(D, n)
    <3>. TAKE n \in Bases(D)
    <3>1. n \in KeyNodes /\ g[n] \in KeyNodes' /\ Rest(g[n])' = Rest(n)
      BY <1>3, <1>10
    <3>2. RestIn(E, g[n]) = Rest(g[n])'
      BY <1>8, <3>1
    <3>. QED  BY <1>3, <3>1, <3>2
  <2>. QED  BY <1>2, <1>3, <2>1, <2>2, <2>3, <2>4 DEF Moves
<1>12. ASSUME Fits(E, x), \A n \in NodesIn(D) \ {RootId} : Unlike(E, x, g[n])
       PROVE  Good(E) /\ Tree' = E /\ Place' = F
  <2>1. \A n \in NodesIn(E) \ {RootId} : x # n => Unlike(E, x, n)
    BY <1>1, <1>2, <1>3, <1>8, <1>12
  <2>2. Good(E)
    <3>1. IsFiniteSet({x}) /\ \A z \in {x} : Fits(E, z)
      BY <1>12, FS_Singleton
    <3>2. NodesIn(E) = {g[n] : n \in NodesIn(D)} \cup {x} /\ NodesIn(E) \subseteq Nat /\ StepsIn(E) \subseteq NodesIn(E)
          /\ RootId \in NodesIn(D)
      BY <1>0, <1>1, <1>3, <1>8
    <3>3. \A z \in {x}, n \in NodesIn(E) \ {RootId} : z # n => Unlike(E, z, n)
      BY <2>1
    <3>. HIDE DEF x, P
    <3>. QED  BY <1>0, <1>11, <3>1, <3>2, <3>3, StaysGood
  <2>3. Place' = F
    BY <1>1, <1>6, <1>7, <2>2, PlaceIs
  <2>. QED  BY <1>7, <2>2, <2>3 DEF Tree, TreeWith
<1>. HIDE DEF P
<1>13. Extends(D, g, s.node, q, E, F)
  BY <1>1, <1>3, <1>6, <1>7, <1>8, <1>11, <1>12 DEF Extends
<1>. QED  BY <1>13

\* A step node fits in,
LEMMA StepGrows ==
  ASSUME Lambda \in Nat \ {0}, NEW D, NEW g, NEW s, GrowsBy(D, g, s, StepSymb)
  PROVE  \E E : /\ Tree' = E /\ Good(E) /\ Place' \in [TrieNodes' -> Places] /\ Moves(D, E, g)
                /\ NodesIn(E) = {g[n] : n \in NodesIn(D)} \cup {s.node}
                /\ s.node \in StepsIn(E) /\ Up(E, s.node) = g[node_id]
<1>. DEFINE x == s.node
            q == [base |-> g[BaseIn(D, node_id)], skipped |-> SkippedIn(D, node_id) + Lambda, path |-> PathIn(D, node_id)]
<1>1. /\ D = Tree /\ Good(D) /\ RootId \in TrieNodes /\ TrieNodes = Nodes(hash_trie) /\ node_id \in TrieNodes
      /\ Grown(g, s, StepSymb) /\ hash_trie' = s.trie
      /\ \A m, n \in TrieNodes : g[m] = g[n] => m = n
  BY DEF GrowsBy, Grown
<1>2. PICK F0 : F0 = Place
  OBVIOUS
<1>3. /\ NodesIn(D) = TrieNodes /\ (\A n \in TrieNodes : (n \in StepsIn(D)) = IsStep(n))
      /\ \A n \in TrieNodes \ {RootId} : Up(D, n) = Parent(hash_trie, n)
  BY <1>1, <1>2, TreeFacts DEF Tree
<1>4. BaseIn(D, node_id) \in TrieNodes /\ SkippedIn(D, node_id) \in Nat /\ PathIn(D, node_id) \in Seq(Chars)
  BY <1>1, <1>3, NodePlace
<1>5. q \in Places
  <2>1. g[BaseIn(D, node_id)] \in Nat
    BY <1>1, <1>4 DEF Grown
  <2>. QED  BY <1>4, <2>1 DEF Places
<1>6. q.base = g[BaseIn(D, node_id)] /\ q.skipped = SkippedIn(D, node_id) + Lambda /\ q.path = PathIn(D, node_id)
  OBVIOUS
<1>. HIDE DEF q
<1>7. PICK E, F : Extends(D, g, s.node, q, E, F)
  BY <1>5, GrownTree
<1>8. /\ E = TreeWith(F)' /\ F \in [TrieNodes' -> Places] /\ F[x] = q /\ Moves(D, E, g)
      /\ TrieNodes' = NodesIn(E) /\ NodesIn(E) = {g[n] : n \in NodesIn(D)} \cup {x}
      /\ Fits(E, x) /\ (\A n \in NodesIn(D) \ {RootId} : Unlike(E, x, g[n])) =>
           Good(E) /\ Tree' = E /\ Place' = F
  BY <1>7 DEF Extends
<1>9. /\ (\A n \in TrieNodes' : (n \in StepsIn(E)) = IsStep(n)')
      /\ \A n \in TrieNodes' \ {RootId} : Up(E, n) = Parent(hash_trie', n)
      /\ \A n \in TrieNodes' : BaseIn(E, n) = F[n].base /\ SkippedIn(E, n) = F[n].skipped /\ PathIn(E, n) = F[n].path
  BY <1>8, NextTreeFacts
<1>10. x \in TrieNodes' /\ x \in Nat /\ x # RootId /\ Parent(hash_trie', x) = g[node_id] /\ Symb(hash_trie', x) = StepSymb
      /\ g[node_id] \in TrieNodes'
  <2>1. \A n \in TrieNodes : g[n] # x
    BY <1>1 DEF Grown
  <2>2. g[RootId] = RootId /\ Parent(hash_trie', x) = g[node_id] /\ Symb(hash_trie', x) = StepSymb /\ x \in Nat
    BY <1>1 DEF Grown
  <2>. QED  BY <1>1, <1>3, <1>8, <2>1, <2>2
<1>11. x \in StepsIn(E) /\ Up(E, x) = g[node_id]
  BY <1>9, <1>10 DEF IsStep
<1>12. BaseIn(E, x) = g[BaseIn(D, node_id)] /\ SkippedIn(E, x) = SkippedIn(D, node_id) + Lambda /\ PathIn(E, x) = PathIn(D, node_id)
  BY <1>6, <1>8, <1>9, <1>10
<1>13. /\ BaseIn(E, g[node_id]) = g[BaseIn(D, node_id)] /\ SkippedIn(E, g[node_id]) = SkippedIn(D, node_id)
       /\ PathIn(E, g[node_id]) = PathIn(D, node_id) /\ BaseIn(E, g[node_id]) \in Bases(E)
  BY <1>3, <1>8, <1>1, MovedNode DEF Moves
<1>14. Fits(E, x)
  BY <1>4, <1>8, <1>10, <1>11, <1>12, <1>13 DEF Fits, PlacedAt, Under
<1>15. ASSUME NEW n \in NodesIn(D) \ {RootId} PROVE Unlike(E, x, g[n])
  <2>1. CASE n \notin StepsIn(D)
    <3>1. g[n] \notin StepsIn(E)
      BY <1>8, <2>1 DEF Moves
    <3>. QED  BY <1>11, <3>1 DEF Unlike
  <2>2. CASE n \in StepsIn(D)
    <3>1. Symb(hash_trie, n) = StepSymb /\ Parent(hash_trie, n) # node_id /\ Up(D, n) = Parent(hash_trie, n)
      BY <1>1, <1>3, <2>2 DEF Grown, IsStep
    <3>2. Up(D, n) \in NodesIn(D) /\ Up(E, g[n]) = g[Up(D, n)]
      BY <1>8, <1>1, MovedNode
    <3>3. Up(E, g[n]) # g[node_id]
      BY <1>1, <1>3, <3>1, <3>2
    <3>. QED  BY <1>11, <3>3 DEF Unlike
  <2>. QED  BY <2>1, <2>2
<1>. QED  BY <1>8, <1>11, <1>14, <1>15

\* and so does a branch inside the label above, with another character than it.
LEMMA BranchGrows ==
  ASSUME Lambda \in Nat \ {0}, NEW D, NEW g, NEW s, NEW y, GrowsBy(D, g, s, y),
         \A n \in KeyNodes \ {RootId} : Symb(hash_trie, n) = MakeSymb(BranchChar(n), SymbMatch(n)),
         NEW c \in Chars, NEW m \in 0 .. Lambda - 1, y = MakeSymb(c, m), y # StepSymb,
         SymbMatch(s.node)' = m, BranchChar(s.node)' = c,
         NEW r, Rest(s.node)' = r, WellEnded(r), (r = <<>>) = (c = 0),
         SkippedIn(D, node_id) + m < Len(RestIn(D, BaseIn(D, node_id))),
         RestIn(D, BaseIn(D, node_id))[SkippedIn(D, node_id) + m + 1] # c
  PROVE  \E E : /\ Tree' = E /\ Good(E) /\ Place' \in [TrieNodes' -> Places] /\ Moves(D, E, g)
                /\ NodesIn(E) = {g[n] : n \in NodesIn(D)} \cup {s.node}
                /\ s.node \in Branches(E) /\ Up(E, s.node) = g[node_id]
                /\ Off(E, s.node) = m /\ By(E, s.node) = c /\ RestIn(E, s.node) = r
<1>. DEFINE x == s.node
            b == BaseIn(D, node_id)
            i == SkippedIn(D, node_id) + m
            p == Append(PathIn(D, node_id) \o SubSeq(RestIn(D, b), 1, i), c)
            q == [base |-> x, skipped |-> 0, path |-> p]
<1>1. /\ D = Tree /\ Good(D) /\ RootId \in TrieNodes /\ TrieNodes = Nodes(hash_trie) /\ node_id \in TrieNodes
      /\ Grown(g, s, y) /\ hash_trie' = s.trie
      /\ \A a, z \in TrieNodes : g[a] = g[z] => a = z
  BY DEF GrowsBy, Grown
<1>2. PICK F0 : F0 = Place
  OBVIOUS
<1>3. /\ NodesIn(D) = TrieNodes /\ (\A n \in TrieNodes : (n \in StepsIn(D)) = IsStep(n))
      /\ Branches(D) = KeyNodes \ {RootId}
      /\ \A n \in TrieNodes \ {RootId} : Up(D, n) = Parent(hash_trie, n)
      /\ \A n \in KeyNodes \ {RootId} : Off(D, n) = SymbMatch(n) /\ By(D, n) = BranchChar(n)
  BY <1>1, <1>2, TreeFacts DEF Tree
<1>4. /\ b \in Bases(D) /\ b \in TrieNodes /\ SkippedIn(D, node_id) \in Nat /\ PathIn(D, node_id) \in Seq(Chars)
      /\ RestIn(D, b) \in Seq(Chars) /\ Len(RestIn(D, b)) \in Nat
  BY <1>1, <1>3, NodePlace, BaseRest
<1>5. i \in Nat /\ i < Len(RestIn(D, b)) /\ RestIn(D, b)[i + 1] # c
  BY <1>4
<1>6. p \in Seq(Chars)
  <2>. HIDE DEF i, b
  <2>. QED  BY <1>4, <1>5, PrefixThen
<1>7. x \in Nat /\ x # RootId /\ Parent(hash_trie', x) = g[node_id] /\ Symb(hash_trie', x) = y
  <2>1. g[RootId] # x
    BY <1>1 DEF Grown
  <2>. QED  BY <1>1, <2>1 DEF Grown
<1>. HIDE DEF b, i, p
<1>8. q \in Places
  BY <1>6, <1>7 DEF Places
<1>9. q.base = x /\ q.skipped = 0 /\ q.path = p
  OBVIOUS
<1>. HIDE DEF q
<1>10. PICK E, F : Extends(D, g, s.node, q, E, F)
  BY <1>8, GrownTree
<1>11. /\ E = TreeWith(F)' /\ F \in [TrieNodes' -> Places] /\ F[x] = q /\ Moves(D, E, g)
       /\ TrieNodes' = NodesIn(E) /\ NodesIn(E) = {g[n] : n \in NodesIn(D)} \cup {x}
       /\ Fits(E, x) /\ (\A n \in NodesIn(D) \ {RootId} : Unlike(E, x, g[n])) =>
            Good(E) /\ Tree' = E /\ Place' = F
  BY <1>10 DEF Extends
<1>12. /\ (\A n \in TrieNodes' : (n \in StepsIn(E)) = IsStep(n)')
       /\ Bases(E) = KeyNodes' /\ Branches(E) = KeyNodes' \ {RootId}
       /\ \A n \in TrieNodes' \ {RootId} : Up(E, n) = Parent(hash_trie', n)
       /\ \A n \in KeyNodes' \ {RootId} : Off(E, n) = SymbMatch(n)' /\ By(E, n) = BranchChar(n)'
       /\ \A n \in KeyNodes' : RestIn(E, n) = Rest(n)'
       /\ \A n \in TrieNodes' : BaseIn(E, n) = F[n].base /\ SkippedIn(E, n) = F[n].skipped /\ PathIn(E, n) = F[n].path
  BY <1>11, NextTreeFacts
<1>13. x \in TrieNodes' /\ ~IsStep(x)' /\ x \in KeyNodes' /\ g[node_id] \in TrieNodes'
  <2>1. x \in TrieNodes' /\ g[node_id] \in TrieNodes'
    BY <1>1, <1>3, <1>11
  <2>2. ~IsStep(x)'
    BY <1>7 DEF IsStep
  <2>. QED  BY <2>1, <2>2 DEF KeyNodes
<1>14. /\ x \in Branches(E) /\ x \in Bases(E) /\ x \notin StepsIn(E) /\ Up(E, x) = g[node_id]
       /\ Off(E, x) = m /\ By(E, x) = c /\ RestIn(E, x) = r
       /\ BaseIn(E, x) = x /\ SkippedIn(E, x) = 0 /\ PathIn(E, x) = p
  BY <1>7, <1>9, <1>11, <1>12, <1>13
<1>15. /\ BaseIn(E, g[node_id]) = g[b] /\ SkippedIn(E, g[node_id]) = SkippedIn(D, node_id)
       /\ PathIn(E, g[node_id]) = PathIn(D, node_id) /\ RestIn(E, g[b]) = RestIn(D, b)
  BY <1>1, <1>3, <1>4, <1>11 DEF Moves, b
<1>16. Under(E, x) = g[b] /\ At(E, x) = i
  BY <1>14, <1>15 DEF Under, At, i
<1>17. PlacedAt(E, x)
  BY <1>7, <1>14, <1>15, <1>16 DEF PlacedAt, p
<1>18. Fits(E, x)
  BY <1>5, <1>6, <1>7, <1>11, <1>13, <1>14, <1>15, <1>16, <1>17 DEF Fits, OffAt
<1>19. ASSUME NEW n \in NodesIn(D) \ {RootId} PROVE Unlike(E, x, g[n])
  <2>1. CASE n \in StepsIn(D)
    <3>1. g[n] \in StepsIn(E)
      BY <1>11, <2>1 DEF Moves
    <3>. QED  BY <1>14, <3>1 DEF Unlike
  <2>2. CASE n \notin StepsIn(D)
    <3>1. n \in Branches(D) /\ n \in KeyNodes \ {RootId}
      BY <1>3, <2>2 DEF Branches, Bases
    <3>2. Off(E, g[n]) = SymbMatch(n) /\ By(E, g[n]) = BranchChar(n)
      BY <1>3, <1>11, <3>1 DEF Moves
    <3>3. Up(D, n) \in NodesIn(D) /\ Up(E, g[n]) = g[Up(D, n)] /\ Up(D, n) = Parent(hash_trie, n)
      BY <1>3, <1>11, <1>1, MovedNode
    <3>4. ASSUME Up(E, x) = Up(E, g[n]), Off(E, x) = Off(E, g[n]), By(E, x) = By(E, g[n])
          PROVE  FALSE
      <4>1. Parent(hash_trie, n) = node_id
        <5>1. g[Up(D, n)] = g[node_id]
          BY <1>14, <3>3, <3>4
        <5>2. Up(D, n) \in TrieNodes
          BY <1>3, <3>3
        <5>3. Up(D, n) = node_id
          BY <1>1, <5>1, <5>2
        <5>. QED  BY <3>3, <5>3
      <4>2. Symb(hash_trie, n) = y
        BY <1>14, <3>1, <3>2, <3>4
      <4>. QED  BY <1>1, <1>3, <4>1, <4>2 DEF Grown
    <3>. QED  BY <1>14, <3>4 DEF Unlike
  <2>. QED  BY <2>1, <2>2
<1>. QED  BY <1>11, <1>14, <1>18, <1>19

\* The root alone is a decomposition.
LEMMA RootGrows ==
  ASSUME Lambda \in Nat \ {0}, TrieNodes' = {RootId}, RootId \in Nat,
         NEW r, Rest(RootId)' = r, WellEnded(r), r # <<>>
  PROVE  \E E : /\ Tree' = E /\ Good(E) /\ Place' \in [TrieNodes' -> Places]
                /\ NodesIn(E) = {RootId} /\ Bases(E) = {RootId} /\ KeyIn(E, RootId) = r
<1>. DEFINE q == [base |-> RootId, skipped |-> 0, path |-> <<>>]
<1>1. <<>> \in Seq(Chars) /\ q \in Places
  BY EmptySeq DEF Places
<1>2. PICK F : F = [n \in {RootId} |-> q]
  OBVIOUS
<1>3. F \in [TrieNodes' -> Places] /\ F[RootId] = q
  BY <1>1, <1>2
<1>4. PICK E : E = TreeWith(F)'
  OBVIOUS
<1>5. KeyNodes' = {RootId}
  BY DEF KeyNodes, IsStep
<1>6. /\ NodesIn(E) = {RootId} /\ StepsIn(E) = {} /\ Bases(E) = {RootId} /\ Branches(E) = {}
      /\ RestIn(E, RootId) = r /\ BaseIn(E, RootId) = RootId /\ SkippedIn(E, RootId) = 0 /\ PathIn(E, RootId) = <<>>
  <2>1. /\ NodesIn(E) = TrieNodes' /\ StepsIn(E) \subseteq TrieNodes' /\ RootId \notin StepsIn(E)
        /\ Bases(E) = KeyNodes' /\ Branches(E) = KeyNodes' \ {RootId}
        /\ \A n \in KeyNodes' : RestIn(E, n) = Rest(n)'
        /\ \A n \in TrieNodes' : BaseIn(E, n) = F[n].base /\ SkippedIn(E, n) = F[n].skipped /\ PathIn(E, n) = F[n].path
    BY <1>4, NextTreeFacts
  <2>. QED  BY <1>3, <1>5, <2>1
<1>7. IsTree(E)
  <2>1. IsFiniteSet(NodesIn(E))
    <3>1. IsFiniteSet({RootId})
      BY FS_Singleton
    <3>. QED  BY <1>6, <3>1
  <2>. QED  BY <1>6, <2>1 DEF IsTree
<1>8. EdgesDiffer(E) /\ BranchesOff(E)
  BY <1>6 DEF EdgesDiffer, BranchesOff
<1>9. Placed(E)
  BY <1>1, <1>6 DEF Placed, PlaceTypes, PlacedAt
<1>10. Good(E)
  BY <1>7, <1>8, <1>9 DEF Good
<1>11. Place' = F
  BY <1>3, <1>4, <1>10, PlaceIs
<1>12. Tree' = E
  BY <1>4, <1>11 DEF Tree, TreeWith
<1>13. KeyIn(E, RootId) = r
  BY <1>6, ConcatEmptySeq DEF KeyIn, WellEnded
<1>. QED  BY <1>3, <1>6, <1>10, <1>11, <1>12, <1>13

----------------------------------------------------------------------------
\* Division takes apart what multiplication has put together.
LEMMA Quotient ==
  ASSUME NEW d \in Nat, d > 0, NEW q \in Nat, NEW r \in 0 .. d - 1
  PROVE  (r + d * q) \div d = q /\ (r + d * q) % d = r
  OBVIOUS

\* A symbol stands for the match and the character it was made of, and it is
\* not that of a step node.
SymbolsRead ==
  \A c \in Coded, m \in Nat :
    /\ MakeSymb(c, m) \in Nat /\ MakeSymb(c, m) # StepSymb
    /\ MakeSymb(c, m) \div (CodeMax + 1) = m /\ CharOf[MakeSymb(c, m) % (CodeMax + 1)] = c

\* Symbols are read as they are made, once there is a code table.
LEMMA SymbReads == CodeInv /\ is_ready => SymbolsRead
<1>. SUFFICES ASSUME CodeInv, is_ready, NEW c \in Coded, NEW m \in Nat
              PROVE  /\ MakeSymb(c, m) \in Nat /\ MakeSymb(c, m) # StepSymb
                     /\ MakeSymb(c, m) \div (CodeMax + 1) = m /\ CharOf[MakeSymb(c, m) % (CodeMax + 1)] = c
  BY DEF SymbolsRead
<1>1. codes[c] \in 0 .. CodeMax /\ codes[c] # CodeMax /\ c \in Chars /\ CodeMax \in Nat
  BY CodeAssumption DEF CodeInv, Coded, HasCode
<1>. DEFINE d == CodeMax + 1
            p == d * m
<1>2. d \in Nat /\ d > 0 /\ codes[c] \in 0 .. d - 1 /\ codes[c] < CodeMax
  BY <1>1
<1>3. MakeSymb(c, m) = codes[c] + d * m
  BY DEF MakeSymb
<1>4. MakeSymb(c, m) \div d = m /\ MakeSymb(c, m) % d = codes[c]
  BY <1>2, <1>3, Quotient
<1>5. p \in Nat /\ (m = 0 => p = 0) /\ (m # 0 => p >= d)
  BY <1>2
<1>6. MakeSymb(c, m) \in Nat /\ MakeSymb(c, m) # StepSymb
  <2>1. MakeSymb(c, m) = codes[c] + p
    BY <1>3
  <2>. HIDE DEF p
  <2>. QED  BY <1>1, <1>2, <1>5, <2>1 DEF StepSymb
<1>7. CharOf[codes[c]] = c
  <2>1. CharOf[codes[c]] = CHOOSE e \in Chars : codes[e] = codes[c]
    BY <1>1 DEF CharOf
  <2>2. \A e \in Chars : codes[e] = codes[c] => e = c
    BY <1>1 DEF CodeInv, Coded, HasCode
  <2>. QED  BY <1>1, <2>1, <2>2
<1>. QED  BY <1>4, <1>6, <1>7

\* The edges of the trie: each is that of a step node or of a character that has
\* a code.
Symbols ==
  \A n \in TrieNodes \ {RootId} :
    IsStep(n) \/ \E c \in Coded, m \in 0 .. Lambda - 1 : Symb(hash_trie, n) = MakeSymb(c, m)

\* The symbol of a key node is made of its branch character and its match.
LEMMA BranchSymbols ==
  ASSUME Lambda \in Nat \ {0}, CodeInv, is_ready, Symbols, NEW n \in KeyNodes \ {RootId}
  PROVE  /\ BranchChar(n) \in Coded /\ SymbMatch(n) \in 0 .. Lambda - 1
         /\ Symb(hash_trie, n) = MakeSymb(BranchChar(n), SymbMatch(n))
<1>1. n \in TrieNodes \ {RootId} /\ ~IsStep(n)
  BY DEF KeyNodes
<1>2. PICK c \in Coded, m \in 0 .. Lambda - 1 : Symb(hash_trie, n) = MakeSymb(c, m)
  BY <1>1 DEF Symbols
<1>3. BranchChar(n) = c /\ SymbMatch(n) = m
  BY <1>2, SymbReads DEF SymbolsRead, BranchChar, SymbMatch
<1>. QED  BY <1>2, <1>3

\* A table that keeps its codes keeps what the edges stand for.
LEMMA CharsKept ==
  ASSUME Lambda \in Nat \ {0}, CodeInv, CodeInv', is_ready, is_ready', Symbols, Coded \subseteq Coded',
         \A c \in Coded : codes'[c] = codes[c],
         NEW n \in KeyNodes \ {RootId}, Symb(hash_trie', n) = Symb(hash_trie, n)
  PROVE  /\ BranchChar(n)' = BranchChar(n)
         /\ \E c \in Coded', m \in 0 .. Lambda - 1 : Symb(hash_trie', n) = MakeSymb(c, m)'
<1>1. SymbolsRead'
  BY SymbReads, PTL
<1>. DEFINE c == BranchChar(n)
            m == SymbMatch(n)
<1>2. c \in Coded /\ m \in 0 .. Lambda - 1 /\ Symb(hash_trie, n) = MakeSymb(c, m)
  BY BranchSymbols
<1>3. PICK c0, m0 : c0 = c /\ m0 = m
  OBVIOUS
<1>4. Symb(hash_trie', n) = MakeSymb(c0, m0)' /\ c0 \in Coded' /\ m0 \in Nat /\ m0 \in 0 .. Lambda - 1
  BY <1>2, <1>3 DEF MakeSymb
<1>5. BranchChar(n)' = c0
  BY <1>1, <1>4 DEF SymbolsRead, BranchChar
<1>. QED  BY <1>3, <1>4, <1>5

----------------------------------------------------------------------------
(***************************************************************************)
(* The inductive invariant of the map, for every trie and all labels that  *)
(* keep their promises.                                                    *)
(***************************************************************************)
\* What the map asks of its users and of lambda: legal keys have the terminator
\* at the end only, and update may throw if it can run out of codes.
Setting ==
  /\ Lambda \in Nat \ {0}
  /\ IsFiniteSet(Chars) /\ Cardinality(Chars) <= CodeMax
  /\ Cardinality(Chars) = CodeMax => MayThrow
  /\ Key \subseteq Seq(Chars) /\ \A k \in Key : Legal(k) => WellEnded(k)

\* The object: exactly the key nodes have a label, and they are counted.
Healthy ==
  /\ Good(Tree) /\ Place \in [TrieNodes -> Places] /\ Symbols
  /\ Labelled(label_store) = KeyNodes /\ size = Cardinality(KeyNodes)
  /\ Size(hash_trie) # 0 => is_ready /\ ~NeedsToExpand(hash_trie) /\ RootId \in TrieNodes

\* The running call: what it still has to match is the rest of its key.
Walks ==
  /\ pc \in {"idle", "start", "compare", "step", "branch"} /\ match \in Nat
  /\ pc # "idle" => call.op \in {"find", "update"} /\ call.key \in Key /\ ret = Pending
  /\ pc = "start" => key = call.key
  /\ pc \in {"compare", "step", "branch"} => Legal(call.key) /\ Size(hash_trie) # 0
  /\ pc = "compare" => AtLabel(Tree, call.key, node_id, key)
  /\ pc \in {"step", "branch"} => AtMatch(Tree, call.key, node_id, match, key)
  /\ pc = "branch" => match < Lambda /\ call.op = "update"

\* What the last call returned: a pointer to the value of its key, if any.
Returned ==
  /\ ret \in {Null, Thrown, Pending} \/ ret = Pointer(ret.ptr)
  /\ pc = "idle" => ret # Pending
  /\ ret.kind = "value" => \E n \in KeyNodes : LabelAt(label_store, n).ptr = ret.ptr /\ KeyIn(Tree, n) = call.key

\* What the properties are stated with, as members of the tree.
LEMMA TreeIs ==
  /\ NodesIn(Tree) = TrieNodes /\ (\A n \in TrieNodes : (n \in StepsIn(Tree)) = IsStep(n))
  /\ StepsIn(Tree) \subseteq TrieNodes /\ RootId \notin StepsIn(Tree)
  /\ Bases(Tree) = KeyNodes /\ Branches(Tree) = KeyNodes \ {RootId}
  /\ \A n \in TrieNodes \ {RootId} : Up(Tree, n) = Parent(hash_trie, n)
  /\ \A n \in KeyNodes \ {RootId} : Off(Tree, n) = SymbMatch(n) /\ By(Tree, n) = BranchChar(n)
  /\ \A n \in KeyNodes : RestIn(Tree, n) = Rest(n)
  /\ \A n \in TrieNodes : BaseIn(Tree, n) = Place[n].base /\ SkippedIn(Tree, n) = Place[n].skipped /\ PathIn(Tree, n) = Place[n].path
<1>1. PICK F : F = Place
  OBVIOUS
<1>2. PICK D : D = TreeWith(F)
  OBVIOUS
<1>3. D = Tree
  BY <1>1, <1>2 DEF Tree
<1>4. /\ NodesIn(D) = TrieNodes /\ (\A n \in TrieNodes : (n \in StepsIn(D)) = IsStep(n))
      /\ StepsIn(D) \subseteq TrieNodes /\ RootId \notin StepsIn(D)
      /\ Bases(D) = KeyNodes /\ Branches(D) = KeyNodes \ {RootId}
      /\ \A n \in TrieNodes \ {RootId} : Up(D, n) = Parent(hash_trie, n)
      /\ \A n \in KeyNodes \ {RootId} : Off(D, n) = SymbMatch(n) /\ By(D, n) = BranchChar(n)
      /\ \A n \in KeyNodes : RestIn(D, n) = Rest(n)
      /\ \A n \in TrieNodes : BaseIn(D, n) = F[n].base /\ SkippedIn(D, n) = F[n].skipped /\ PathIn(D, n) = F[n].path
  BY <1>2, TreeFacts
<1>. QED  BY <1>1, <1>3, <1>4

\* A step that adds no node, moves no label and forgets no code.
Keeps ==
  /\ TrieNodes' = TrieNodes
  /\ \A n \in TrieNodes \ {RootId} :
       Parent(hash_trie', n) = Parent(hash_trie, n) /\ Symb(hash_trie', n) = Symb(hash_trie, n)
  /\ Labelled(label_store') = Labelled(label_store)
  /\ \A n \in KeyNodes : LabelAt(label_store', n).chars = LabelAt(label_store, n).chars
  /\ Coded \subseteq Coded' /\ \A c \in Coded : codes'[c] = codes[c]
  /\ size' = size
  /\ Size(hash_trie') # 0 => is_ready' /\ ~NeedsToExpand(hash_trie') /\ Size(hash_trie) # 0

\* An object whose trie and labels stay is as healthy as before.
LEMMA HealthyKept ==
  ASSUME Setting, CodeInv, CodeInv', Healthy, Keeps
  PROVE  Healthy' /\ Tree' = Tree /\ KeyNodes' = KeyNodes
<1>1. Lambda \in Nat \ {0} /\ Good(Tree) /\ Place \in [TrieNodes -> Places] /\ Symbols
  BY DEF Setting, Healthy
<1>2. ASSUME NEW n \in TrieNodes PROVE is_ready /\ is_ready' /\ RootId \in TrieNodes
  <2>1. Size(hash_trie) # 0 /\ Size(hash_trie') # 0
    BY DEF Keeps, TrieNodes
  <2>. QED  BY <2>1 DEF Keeps, Healthy
<1>3. ASSUME NEW n \in KeyNodes \ {RootId}
      PROVE  /\ BranchChar(n)' = BranchChar(n)
             /\ \E c \in Coded', m \in 0 .. Lambda - 1 : Symb(hash_trie', n) = MakeSymb(c, m)'
  <2>1. n \in TrieNodes \ {RootId}
    BY DEF KeyNodes
  <2>2. Symb(hash_trie', n) = Symb(hash_trie, n) /\ is_ready /\ is_ready'
    BY <1>2, <2>1 DEF Keeps
  <2>3. Coded \subseteq Coded' /\ \A c \in Coded : codes'[c] = codes[c]
    BY DEF Keeps
  <2>. QED  BY <1>1, <2>2, <2>3, CharsKept
<1>4. Tree' = Tree /\ Place' = Place /\ KeyNodes' = KeyNodes
  <2>1. /\ TrieNodes' = TrieNodes
        /\ \A n \in TrieNodes \ {RootId} :
             Parent(hash_trie', n) = Parent(hash_trie, n) /\ Symb(hash_trie', n) = Symb(hash_trie, n)
        /\ \A n \in KeyNodes : LabelAt(label_store', n).chars = LabelAt(label_store, n).chars
    BY DEF Keeps
  <2>2. \A n \in KeyNodes \ {RootId} : BranchChar(n)' = BranchChar(n)
    BY <1>3
  <2>. QED  BY <1>1, <2>1, <2>2, SameTree
<1>5. Symbols'
  <2>1. ASSUME NEW n \in TrieNodes' \ {RootId}
        PROVE  IsStep(n)' \/ \E c \in Coded', m \in 0 .. Lambda - 1 : Symb(hash_trie', n) = MakeSymb(c, m)'
    <3>1. n \in TrieNodes \ {RootId} /\ IsStep(n)' = IsStep(n)
      BY <2>1 DEF Keeps, IsStep
    <3>2. IsStep(n) \/ n \in KeyNodes \ {RootId}
      BY <3>1 DEF KeyNodes
    <3>. QED  BY <1>3, <3>1, <3>2
  <2>. QED  BY <2>1 DEF Symbols
<1>6. TrieNodes' = TrieNodes /\ Labelled(label_store') = KeyNodes' /\ size' = Cardinality(KeyNodes')
  BY <1>4 DEF Keeps, Healthy
<1>7. Size(hash_trie') # 0 => is_ready' /\ ~NeedsToExpand(hash_trie') /\ RootId \in TrieNodes'
  BY <1>6 DEF Keeps, Healthy
<1>. QED  BY <1>1, <1>4, <1>5, <1>6, <1>7 DEF Healthy

\* A step that leaves trie, labels and codes as they are, but for new codes.
LEMMA ObjectKept ==
  ASSUME Setting, CodeInv, CodeInv', Healthy, UNCHANGED <<hash_trie, label_store, size, is_ready>>,
         Coded \subseteq Coded', \A c \in Coded : codes'[c] = codes[c]
  PROVE  Healthy' /\ Tree' = Tree /\ KeyNodes' = KeyNodes
<1>1. TrieNodes' = TrieNodes
  BY DEF TrieNodes
<1>2. Keeps
  BY <1>1 DEF Keeps, Healthy
<1>. QED  BY <1>2, HealthyKept

----------------------------------------------------------------------------
MapInv == Inv /\ Healthy /\ Walks /\ Returned

\* Initially there is no node, no label and no call.
LEMMA MapInitial ==
  ASSUME Setting, Init, PromisesKept
  PROVE  MapInv
<1>1. /\ hash_trie = EmptyTrie /\ label_store = EmptyLabels /\ size = 0
      /\ pc = "idle" /\ match = 0 /\ ret = Null /\ key = <<>>
  BY DEF Init
<1>2. Size(hash_trie) = 0 /\ Labelled(label_store) = {} /\ TrieNodes = {}
  BY <1>1 DEF PromisesKept, NewKept, TrieNodes
<1>3. KeyNodes = {} /\ Cardinality(KeyNodes) = 0
  BY <1>2, FS_EmptySet DEF KeyNodes
<1>4. Good(Tree)
  <2>1. NodesIn(Tree) = {} /\ StepsIn(Tree) = {} /\ Bases(Tree) = {} /\ Branches(Tree) = {}
    BY <1>2, <1>3, TreeIs
  <2>2. IsTree(Tree)
    <3>1. IsFiniteSet({})
      BY FS_EmptySet
    <3>. QED  BY <2>1, <3>1 DEF IsTree
  <2>. QED  BY <2>1, <2>2 DEF Good, EdgesDiffer, Placed, PlaceTypes, BranchesOff
<1>5. Place \in [TrieNodes -> Places]
  <2>. DEFINE Body(h) ==
                [n \in {} |->
                   IF n = RootId THEN [base |-> n, skipped |-> 0, path |-> <<>>]
                   ELSE Below(n)[h[Parent(hash_trie, n)]]]
  <2>1. Place = CHOOSE h : h = Body(h)
    BY <1>2 DEF Place
  <2>2. PICK f : f = [n \in {} |-> 0]
    OBVIOUS
  <2>3. \A h : Body(h) = f
    BY <2>2
  <2>4. f \in [{} -> Places]
    BY <2>2
  <2>. HIDE DEF Body
  <2>5. Place = f
    BY <2>1, <2>3
  <2>. QED  BY <1>2, <2>4, <2>5
<1>6. Healthy
  BY <1>1, <1>2, <1>3, <1>4, <1>5 DEF Healthy, Symbols
<1>7. Walks
  BY <1>1 DEF Walks
<1>8. Returned
  BY <1>1 DEF Returned, Null, Pending
<1>9. Inv
  BY <1>1, CodesInitial, EmptyTerminated DEF Inv, KeyInv, Terminated
<1>. QED  BY <1>6, <1>7, <1>8, <1>9 DEF MapInv

\* What holds while a call walks.
LEMMA WalkFacts ==
  ASSUME Setting, MapInv, pc \in {"compare", "step", "branch"}
  PROVE  /\ call.key \in Key /\ Legal(call.key) /\ WellEnded(call.key) /\ call.key # <<>> /\ call.key \in Seq(Chars)
         /\ Len(call.key) \in Nat /\ call.op \in {"find", "update"} /\ ret = Pending
         /\ is_ready /\ ~NeedsToExpand(hash_trie) /\ RootId \in TrieNodes /\ TrieNodes = Nodes(hash_trie)
<1>1. call.key \in Key /\ Legal(call.key) /\ Size(hash_trie) # 0 /\ ret = Pending /\ call.op \in {"find", "update"}
  BY DEF MapInv, Walks
<1>2. WellEnded(call.key) /\ call.key # <<>> /\ call.key \in Seq(Chars)
  BY <1>1 DEF Setting, Legal
<1>3. is_ready /\ ~NeedsToExpand(hash_trie) /\ RootId \in TrieNodes
  BY <1>1 DEF MapInv, Healthy
<1>4. TrieNodes = Nodes(hash_trie)
  BY <1>1 DEF TrieNodes
<1>. QED  BY <1>1, <1>2, <1>3, <1>4

\* A walk compares as compare asks for, and so compare keeps its promise.
LEMMA CompareFacts ==
  ASSUME Setting, MapInv, PromisesKept, pc = "compare"
  PROVE  /\ AtLabel(Tree, call.key, node_id, key) /\ node_id \in KeyNodes
         /\ ComparesLabel(label_store, node_id, key, RestIn(Tree, node_id))
         /\ key \in Seq(Chars) /\ Len(key) \in Nat
<1>1. AtLabel(Tree, call.key, node_id, key) /\ Good(Tree) /\ Labelled(label_store) = KeyNodes
  BY DEF MapInv, Walks, Healthy
<1>2. WellEnded(call.key) /\ call.key # <<>> /\ Lambda \in Nat \ {0}
  BY WalkFacts DEF Setting
<1>3. WellEnded(key) /\ WellEnded(RestIn(Tree, node_id)) /\ (key = <<>>) = (RestIn(Tree, node_id) = <<>>)
  BY <1>1, <1>2, LabelEnds
<1>4. node_id \in KeyNodes
  BY <1>1, TreeIs DEF AtLabel
<1>5. RestIn(Tree, node_id) = Rest(node_id)
  BY <1>4, TreeIs
<1>6. ComparesLabel(label_store, node_id, key, Rest(node_id))
  BY <1>1, <1>3, <1>4, <1>5 DEF PromisesKept, CompareKept
<1>. QED  BY <1>1, <1>3, <1>4, <1>5, <1>6 DEF WellEnded

\* A compare that keeps its promise stops in the key,
LEMMA CompareStops ==
  ASSUME Setting, MapInv, PromisesKept
  PROVE  MatchInKey
  BY CompareFacts DEF MatchInKey, ComparesLabel

\* so that the invariant of the codes is kept.
LEMMA InvStep ==
  ASSUME Setting, MapInv, PromisesKept, [Next]_vars
  PROVE  Inv'
  BY CompareStops, KeyInvLeft, KeyStep, CodesStep DEF MapInv, Inv, Setting

----------------------------------------------------------------------------
(***************************************************************************)
(* The associative array that a tree and its labels are.                   *)
(***************************************************************************)

\* The keys,
LEMMA KeyAtIs ==
  ASSUME NEW n \in KeyNodes
  PROVE  KeyAt(n) = KeyIn(Tree, n)
<1>1. n \in TrieNodes
  BY DEF KeyNodes
<1>. QED  BY <1>1, TreeIs DEF KeyAt, KeyIn

Pairs == {<<KeyIn(Tree, n), StoredAt(n)>> : n \in KeyNodes}

\* the pairs
LEMMA StoreIs == Store = Pairs
  BY KeyAtIs DEF Store, Pairs

\* and the registered keys are those of the tree.
LEMMA RegisteredIs == Abstract!Registered = {KeyIn(Tree, n) : n \in KeyNodes}
<1>1. PICK S : S = Store
  OBVIOUS
<1>2. \A z : z \in Abstract!Registered <=> \E e \in S : z = e[1]
  BY <1>1 DEF Abstract!Registered
<1>3. \A e : e \in S <=> \E n \in KeyNodes : e = <<KeyIn(Tree, n), StoredAt(n)>>
  BY <1>1, StoreIs DEF Pairs
<1>4. \A n : <<KeyIn(Tree, n), StoredAt(n)>>[1] = KeyIn(Tree, n)
  OBVIOUS
<1>5. ASSUME NEW z, z \in Abstract!Registered PROVE \E n \in KeyNodes : z = KeyIn(Tree, n)
  BY <1>2, <1>3, <1>4, <1>5
<1>6. ASSUME NEW n \in KeyNodes PROVE KeyIn(Tree, n) \in Abstract!Registered
  BY <1>2, <1>3, <1>4, <1>6
<1>. QED  BY <1>5, <1>6

\* The array stays where the tree and the values stay.
LEMMA StoreKept ==
  ASSUME Tree' = Tree, KeyNodes' = KeyNodes, \A n \in KeyNodes : StoredAt(n)' = StoredAt(n)
  PROVE  Store' = Store
<1>1. (Store = Pairs)'
  BY StoreIs, PTL
<1>2. PICK D : D = Tree
  OBVIOUS
<1>3. \A n : KeyIn(Tree, n)' = KeyIn(D, n) /\ KeyIn(Tree, n) = KeyIn(D, n)
  BY <1>2 DEF KeyIn, PathIn, RestIn
<1>4. Pairs' = Pairs
  BY <1>3 DEF Pairs
<1>. QED  BY <1>1, <1>4, StoreIs

\* What the call has returned, as the associative array sees it.
Reply == [kind |-> ret.kind, value |-> RetValue]

\* A step in the middle of a call changes nothing that users see.
LEMMA Stutters ==
  ASSUME Store' = Store, call' = call, ret' = ret, ret = Pending
  PROVE  UNCHANGED Abstract!vars
<1>1. RetValue = 0 /\ RetValue' = 0
  BY DEF RetValue, Pending
<1>. QED  BY <1>1 DEF Abstract!vars

\* The call returns a pointer to the value of its key,
LEMMA AnswersFound ==
  ASSUME ret = Pending, call.key \in Key, Legal(call.key), call.op \in {"find", "update"},
         NEW n \in KeyNodes, KeyIn(Tree, n) = call.key,
         ret' = Pointer(LabelAt(label_store, n).ptr), call' = call, label_store' = label_store, Store' = Store
  PROVE  Abstract!Next
<1>1. RetValue = 0 /\ ret.kind = "pending"
  BY DEF RetValue, Pending
<1>2. ret'.kind = "value" /\ RetValue' = StoredAt(n)
  BY DEF RetValue, Pointer, StoredAt
<1>3. <<call.key, StoredAt(n)>> \in Store
  BY StoreIs DEF Pairs
<1>4. Abstract!Returns
  BY <1>1, <1>2 DEF Abstract!Returns, Abstract!Pending, Abstract!Answer
<1>5. \E e \in Store : e[1] = call.key /\ [kind |-> ret'.kind, value |-> RetValue'] = Abstract!Found(e[2])
  BY <1>2, <1>3 DEF Abstract!Found, Abstract!Answer
<1>6. Abstract!Find \/ Abstract!Update
  BY <1>4, <1>5 DEF Abstract!Find, Abstract!Update
<1>. QED  BY <1>6 DEF Abstract!Next

\* or nullptr where there is none,
LEMMA AnswersNull ==
  ASSUME ret = Pending, call.key \in Key, Legal(call.key), call.op = "find",
         \A n \in KeyNodes : KeyIn(Tree, n) # call.key, ret' = Null, call' = call, Store' = Store
  PROVE  Abstract!Next
<1>1. RetValue = 0 /\ ret.kind = "pending"
  BY DEF RetValue, Pending
<1>2. ret'.kind = "null" /\ RetValue' = 0
  BY DEF RetValue, Null
<1>3. call.key \notin Abstract!Registered
  BY RegisteredIs
<1>4. Abstract!Returns
  BY <1>1, <1>2 DEF Abstract!Returns, Abstract!Pending, Abstract!Answer
<1>5. [kind |-> ret'.kind, value |-> RetValue'] = Abstract!Null
  BY <1>2 DEF Abstract!Null, Abstract!Answer
<1>6. Abstract!Find
  BY <1>3, <1>4, <1>5 DEF Abstract!Find
<1>. QED  BY <1>6 DEF Abstract!Next

\* or it throws,
LEMMA AnswersThrown ==
  ASSUME ret = Pending, call.key \in Key, ret' = Thrown, call' = call, Store' = Store,
         ~Legal(call.key) \/ (MayThrow /\ call.op = "update" /\ \A n \in KeyNodes : KeyIn(Tree, n) # call.key)
  PROVE  Abstract!Next
<1>1. RetValue = 0 /\ ret.kind = "pending"
  BY DEF RetValue, Pending
<1>2. ret'.kind = "thrown" /\ RetValue' = 0
  BY DEF RetValue, Thrown
<1>3. call.key \notin {k \in Key : Legal(k)} \/ (MayThrow /\ call.op = "update" /\ call.key \notin Abstract!Registered)
  BY RegisteredIs
<1>4. Abstract!Returns
  BY <1>1, <1>2 DEF Abstract!Returns, Abstract!Pending, Abstract!Answer
<1>5. [kind |-> ret'.kind, value |-> RetValue'] = Abstract!Thrown
  BY <1>2 DEF Abstract!Thrown, Abstract!Answer
<1>6. Abstract!Refuse
  BY <1>3, <1>4, <1>5 DEF Abstract!Refuse
<1>. QED  BY <1>6 DEF Abstract!Next

\* or it registers the key, with value 0.
LEMMA AnswersAdded ==
  ASSUME ret = Pending, call.key \in Key, Legal(call.key), call.op = "update",
         \A n \in KeyNodes : KeyIn(Tree, n) # call.key, ret'.kind = "value", RetValue' = 0, call' = call,
         Store' = Store \cup {<<call.key, 0>>}
  PROVE  Abstract!Next
<1>1. RetValue = 0 /\ ret.kind = "pending"
  BY DEF RetValue, Pending
<1>3. call.key \notin Abstract!Registered
  BY RegisteredIs
<1>4. Abstract!Returns
  BY <1>1 DEF Abstract!Returns, Abstract!Pending, Abstract!Answer
<1>5. [kind |-> ret'.kind, value |-> RetValue'] = Abstract!Found(0)
  BY DEF Abstract!Found, Abstract!Answer
<1>6. Abstract!Update
  BY <1>3, <1>4, <1>5 DEF Abstract!Update
<1>. QED  BY <1>6 DEF Abstract!Next

----------------------------------------------------------------------------
(***************************************************************************)
(* Every step keeps the invariant, and is a step of the associative array  *)
(* or none.                                                                *)
(***************************************************************************)
Goes == Abstract!Next \/ UNCHANGED Abstract!vars

StepKept == Healthy' /\ Walks' /\ Returned' /\ Goes

\* The step leaves the object alone.
LEMMA MembersKept ==
  ASSUME Setting, MapInv, Inv', UNCHANGED <<hash_trie, label_store, size, is_ready, codes>>
  PROVE  Healthy' /\ Tree' = Tree /\ KeyNodes' = KeyNodes /\ Store' = Store
<1>1. Coded' = Coded /\ \A c \in Coded : codes'[c] = codes[c]
  BY DEF Coded, HasCode
<1>2. Healthy' /\ Tree' = Tree /\ KeyNodes' = KeyNodes
  BY <1>1, ObjectKept DEF MapInv, Inv
<1>3. \A n \in KeyNodes : StoredAt(n)' = StoredAt(n)
  BY DEF StoredAt
<1>. QED  BY <1>2, <1>3, StoreKept

\* A call returns no pointer,
LEMMA ReturnedNothing ==
  ASSUME NEW r \in {Null, Thrown}, Return(r)
  PROVE  Walks' /\ Returned'
<1>1. pc' = "idle" /\ ret' = r /\ match' = 0
  BY DEF Return
<1>. QED  BY <1>1 DEF Walks, Returned, Null, Thrown, Pending

\* or the pointer to the value of its key.
LEMMA ReturnedPointer ==
  ASSUME NEW p, Return(Pointer(p)), NEW E, Tree' = E,
         NEW n \in KeyNodes', KeyIn(E, n) = call.key, p = LabelAt(label_store', n).ptr
  PROVE  Walks' /\ Returned'
<1>1. pc' = "idle" /\ ret' = Pointer(p) /\ match' = 0 /\ call' = call
  BY DEF Return
<1>2. KeyIn(Tree, n)' = call.key
  BY DEF KeyIn, PathIn, RestIn
<1>3. ret' # Pending /\ ret'.ptr = p
  BY <1>1 DEF Pointer, Pending
<1>. QED  BY <1>1, <1>2, <1>3 DEF Walks, Returned

\* A walk goes on, in the same tree or in another one.
LEMMA WalksOn ==
  ASSUME Setting, MapInv, pc \in {"compare", "step", "branch"}, NEW E, Tree' = E, call' = call, ret' = ret,
         Size(hash_trie') # 0, pc' \in {"compare", "step", "branch"}, match' \in Nat,
         pc' = "compare" => AtLabel(E, call.key, node_id', key'),
         pc' \in {"step", "branch"} => AtMatch(E, call.key, node_id', match', key'),
         pc' = "branch" => match' < Lambda /\ call.op = "update"
  PROVE  Walks' /\ Returned'
<1>1. call.op \in {"find", "update"} /\ call.key \in Key /\ ret = Pending /\ Legal(call.key)
  BY WalkFacts
<1>2. pc' = "compare" => AtLabel(Tree, call.key, node_id, key)'
  BY DEF AtLabel, Bases, NodesIn, StepsIn, Begins, PathIn, Behind
<1>3. pc' \in {"step", "branch"} => AtMatch(Tree, call.key, node_id, match, key)'
  BY DEF AtMatch, NodesIn, Differs, BaseIn, SkippedIn, PathIn, RestIn, Begins, Behind
<1>4. Legal(call.key)'
  BY <1>1 DEF Legal
<1>5. Walks'
  BY <1>1, <1>2, <1>3, <1>4 DEF Walks
<1>6. Returned'
  BY <1>1 DEF Returned, Pending
<1>. QED  BY <1>5, <1>6

\* A call begins.
LEMMA CallStep ==
  ASSUME Setting, MapInv, Inv', NEW op \in {"find", "update"}, NEW k \in Key, Call(op, k)
  PROVE  StepKept
<1>1. /\ pc = "idle" /\ pc' = "start" /\ call' = [op |-> op, key |-> k] /\ key' = k /\ ret' = Pending
      /\ UNCHANGED <<members, node_id, match>>
  BY DEF Call
<1>2. Healthy' /\ Store' = Store
  BY <1>1, MembersKept DEF members
<1>3. Walks'
  BY <1>1 DEF Walks, MapInv
<1>4. Returned'
  BY <1>1 DEF Returned, Pending
<1>5. Abstract!Next
  <2>1. ret.kind # "pending"
    BY <1>1 DEF MapInv, Returned, Null, Thrown, Pending, Pointer
  <2>2. RetValue' = 0 /\ ret'.kind = "pending"
    BY <1>1 DEF RetValue, Pending
  <2>3. Abstract!Invoke(op, k)
    BY <1>1, <1>2, <2>1, <2>2 DEF Abstract!Invoke, Abstract!Pending, Abstract!Answer
  <2>. QED  BY <2>3 DEF Abstract!Next
<1>. QED  BY <1>2, <1>3, <1>4, <1>5 DEF StepKept, Goes

\* Nothing happens.
LEMMA StutterStep ==
  ASSUME Setting, MapInv, Inv', UNCHANGED vars
  PROVE  StepKept
<1>1. Healthy' /\ Store' = Store /\ Tree' = Tree /\ KeyNodes' = KeyNodes
  BY MembersKept DEF vars
<1>2. PICK D : D = Tree
  OBVIOUS
<1>3. Walks'
  <2>1. AtLabel(Tree, call.key, node_id, key)' = AtLabel(Tree, call.key, node_id, key)
    BY <1>1, <1>2 DEF vars, AtLabel, Bases, NodesIn, StepsIn, Begins, PathIn, Behind
  <2>2. AtMatch(Tree, call.key, node_id, match, key)' = AtMatch(Tree, call.key, node_id, match, key)
    BY <1>1, <1>2 DEF vars, AtMatch, NodesIn, Differs, BaseIn, SkippedIn, PathIn, RestIn, Begins, Behind
  <2>3. Legal(call.key)' = Legal(call.key)
    BY DEF vars, Legal
  <2>. QED  BY <2>1, <2>2, <2>3 DEF MapInv, Walks, vars
<1>4. Returned'
  <2>1. \A n : KeyIn(Tree, n)' = KeyIn(Tree, n)
    BY <1>1, <1>2 DEF KeyIn, PathIn, RestIn
  <2>. QED  BY <1>1, <2>1 DEF MapInv, Returned, vars
<1>5. UNCHANGED Abstract!vars
  BY <1>1 DEF vars, Abstract!vars, RetValue
<1>. QED  BY <1>1, <1>3, <1>4, <1>5 DEF StepKept, Goes

\* An illegal key is refused.
LEMMA RefuseStep ==
  ASSUME Setting, MapInv, Inv', Refuse
  PROVE  StepKept
<1>1. pc = "start" /\ ~Legal(key) /\ Return(Thrown) /\ UNCHANGED members
  BY DEF Refuse
<1>2. Healthy' /\ Store' = Store
  BY <1>1, MembersKept DEF members
<1>3. key = call.key /\ call.key \in Key /\ ret = Pending
  BY <1>1 DEF MapInv, Walks
<1>4. Abstract!Next
  BY <1>1, <1>2, <1>3, AnswersThrown DEF Return
<1>. QED  BY <1>1, <1>2, <1>4, ReturnedNothing DEF StepKept, Goes

\* find returns null on an object without nodes.
LEMMA FindNothingStep ==
  ASSUME Setting, MapInv, Inv', FindNothing
  PROVE  StepKept
<1>1. pc = "start" /\ Legal(key) /\ call.op = "find" /\ Return(Null) /\ UNCHANGED members
      /\ (~is_ready \/ Size(hash_trie) = 0)
  BY DEF FindNothing
<1>2. Healthy' /\ Store' = Store
  BY <1>1, MembersKept DEF members
<1>3. key = call.key /\ call.key \in Key /\ ret = Pending
  BY <1>1 DEF MapInv, Walks
<1>4. KeyNodes = {}
  <2>1. Size(hash_trie) = 0
    BY <1>1 DEF MapInv, Healthy
  <2>. QED  BY <2>1 DEF KeyNodes, TrieNodes
<1>5. Abstract!Next
  BY <1>1, <1>2, <1>3, <1>4, AnswersNull DEF Return
<1>. QED  BY <1>1, <1>2, <1>5, ReturnedNothing DEF StepKept, Goes

\* A walk begins at the root.
LEMMA DescendStep ==
  ASSUME Setting, MapInv, Inv', Descend
  PROVE  StepKept
<1>1. /\ pc = "start" /\ Legal(key) /\ Size(hash_trie) # 0 /\ pc' = "compare" /\ node_id' = RootId
      /\ UNCHANGED <<members, call, key, match, ret>>
  BY DEF Descend
<1>2. Healthy' /\ Store' = Store /\ Tree' = Tree
  BY <1>1, MembersKept DEF members
<1>3. /\ key = call.key /\ call.key \in Key /\ call.op \in {"find", "update"} /\ ret = Pending /\ match \in Nat
      /\ Good(Tree) /\ RootId \in TrieNodes /\ call.key \in Seq(Chars)
  BY <1>1 DEF MapInv, Walks, Healthy, Setting
<1>4. PICK D : D = Tree
  OBVIOUS
<1>5. RootId \in Bases(D) /\ RootId \in NodesIn(D)
  BY <1>3, <1>4, TreeIs DEF Bases
<1>6. PathIn(D, RootId) = <<>>
  BY <1>3, <1>4, <1>5 DEF Good, Placed, PlacedAt
<1>7. Begins(call.key, <<>>) /\ Behind(call.key, 0) = call.key
  <2>1. Len(<<>>) = 0 /\ Len(call.key) \in Nat
    BY <1>3, EmptySeq
  <2>2. Begins(call.key, <<>>)
    BY <2>1 DEF Begins
  <2>3. <<>> \o Behind(call.key, Len(<<>>)) = call.key
    BY <1>3, <2>2, EmptySeq, PrefixAndBehind
  <2>4. Behind(call.key, 0) \in Seq(Chars)
    BY <1>3, <2>1, BehindIs
  <2>. QED  BY <2>1, <2>2, <2>3, <2>4, ConcatEmptySeq
<1>8. AtLabel(D, call.key, RootId, key)
  <2>1. Len(<<>>) = 0
    BY EmptySeq
  <2>. QED  BY <1>3, <1>5, <1>6, <1>7, <2>1 DEF AtLabel
<1>9. AtLabel(Tree, call.key, node_id, key)'
  BY <1>1, <1>2, <1>4, <1>8 DEF AtLabel, Bases, NodesIn, StepsIn, Begins, PathIn, Behind
<1>10. Walks'
  BY <1>1, <1>3, <1>9 DEF Walks, members, Legal
<1>11. Returned'
  BY <1>1, <1>3 DEF Returned, Pending
<1>12. UNCHANGED Abstract!vars
  BY <1>1, <1>2, <1>3, Stutters
<1>. QED  BY <1>2, <1>10, <1>11, <1>12 DEF StepKept, Goes

\* A call that has found the node of its key returns a pointer to its value.
LEMMA FoundStep ==
  ASSUME Setting, MapInv, Inv', pc \in {"compare", "step", "branch"}, UNCHANGED members,
         NEW n \in KeyNodes, KeyIn(Tree, n) = call.key, Return(Pointer(LabelAt(label_store, n).ptr))
  PROVE  StepKept
<1>1. Healthy' /\ Store' = Store /\ Tree' = Tree /\ KeyNodes' = KeyNodes /\ label_store' = label_store
  BY MembersKept DEF members
<1>2. PICK E : E = Tree
  OBVIOUS
<1>3. KeyIn(E, n) = call.key /\ Tree' = E
  BY <1>1, <1>2
<1>4. PICK p : p = LabelAt(label_store, n).ptr
  OBVIOUS
<1>5. Walks' /\ Returned'
  BY <1>1, <1>3, <1>4, ReturnedPointer
<1>6. ret = Pending /\ call.key \in Key /\ Legal(call.key) /\ call.op \in {"find", "update"}
  BY WalkFacts
<1>7. Abstract!Next
  BY <1>1, <1>6, AnswersFound DEF Return
<1>. QED  BY <1>1, <1>5, <1>7 DEF StepKept, Goes

\* A call that finds out that no node has its key returns nullptr.
LEMMA MissingStep ==
  ASSUME Setting, MapInv, Inv', pc \in {"compare", "step", "branch"}, UNCHANGED members,
         call.op = "find", \A n \in KeyNodes : KeyIn(Tree, n) # call.key, Return(Null)
  PROVE  StepKept
<1>1. Healthy' /\ Store' = Store
  BY MembersKept DEF members
<1>2. ret = Pending /\ call.key \in Key /\ Legal(call.key)
  BY WalkFacts
<1>3. Abstract!Next
  BY <1>1, <1>2, AnswersNull DEF Return
<1>. QED  BY <1>1, <1>3, ReturnedNothing DEF StepKept, Goes

\* A walk that goes on leaves the object alone.
LEMMA WalkingStep ==
  ASSUME Setting, MapInv, Inv', pc \in {"compare", "step", "branch"}, UNCHANGED <<members, call, ret>>,
         pc' \in {"compare", "step"}, match' \in Nat,
         pc' = "compare" => AtLabel(Tree, call.key, node_id', key'),
         pc' = "step" => AtMatch(Tree, call.key, node_id', match', key')
  PROVE  StepKept
<1>1. Healthy' /\ Store' = Store /\ Tree' = Tree
  BY MembersKept DEF members
<1>2. ret = Pending
  BY WalkFacts
<1>3. Size(hash_trie') # 0
  BY DEF MapInv, Walks, members
<1>4. Walks' /\ Returned'
  BY <1>1, <1>3, WalksOn
<1>5. UNCHANGED Abstract!vars
  BY <1>1, <1>2, Stutters
<1>. QED  BY <1>1, <1>4, <1>5 DEF StepKept, Goes

\* compare finds the key or the place where it leaves the label.
LEMMA MatchStep ==
  ASSUME Setting, MapInv, Inv', PromisesKept, Match
  PROVE  StepKept
<1>. DEFINE r == Compare(label_store, node_id, key)
<1>1. pc = "compare" /\ UNCHANGED members
  BY DEF Match
<1>2. /\ AtLabel(Tree, call.key, node_id, key) /\ node_id \in KeyNodes /\ Good(Tree) /\ call.key \in Seq(Chars)
      /\ ComparesLabel(label_store, node_id, key, RestIn(Tree, node_id)) /\ Len(key) \in Nat
  BY <1>1, CompareFacts, WalkFacts DEF MapInv, Healthy
<1>3. CASE r.found
  <2>1. key = RestIn(Tree, node_id) /\ r.ptr = LabelAt(label_store, node_id).ptr
    BY <1>2, <1>3 DEF ComparesLabel
  <2>2. KeyIn(Tree, node_id) = call.key
    BY <1>2, <2>1, FoundHere
  <2>3. Return(Pointer(LabelAt(label_store, node_id).ptr))
    BY <1>3, <2>1 DEF Match
  <2>. QED  BY <1>1, <1>2, <2>2, <2>3, FoundStep
<1>4. CASE ~r.found
  <2>1. /\ r.match \in 0 .. Len(key) - 1 /\ r.match < Len(RestIn(Tree, node_id))
        /\ \A i \in 1 .. r.match : key[i] = RestIn(Tree, node_id)[i]
        /\ key[r.match + 1] # RestIn(Tree, node_id)[r.match + 1]
    BY <1>2, <1>4 DEF ComparesLabel
  <2>2. pc' = "step" /\ match' = r.match /\ key' = Behind(key, r.match) /\ UNCHANGED <<call, node_id, ret>>
    BY <1>4 DEF Match, Behind
  <2>3. AtMatch(Tree, call.key, node_id, r.match, Behind(key, r.match))
    BY <1>2, <2>1, MismatchHere
  <2>4. AtMatch(Tree, call.key, node_id', match', key') /\ match' \in Nat
    BY <1>2, <2>1, <2>2, <2>3
  <2>. QED  BY <1>1, <2>2, <2>4, WalkingStep
<1>. QED  BY <1>3, <1>4

\* find follows a step node or finds nothing,
LEMMA FindStepStep ==
  ASSUME Setting, MapInv, Inv', PromisesKept, FindStep
  PROVE  StepKept
<1>. DEFINE child == FindChild(hash_trie, node_id, StepSymb)
<1>1. pc = "step" /\ call.op = "find" /\ match >= Lambda /\ UNCHANGED members
  BY DEF FindStep
<1>2. /\ AtMatch(Tree, call.key, node_id, match, key) /\ Good(Tree) /\ call.key \in Seq(Chars)
      /\ TrieNodes = Nodes(hash_trie) /\ RootId \in TrieNodes /\ Lambda \in Nat \ {0}
  BY <1>1, WalkFacts DEF MapInv, Healthy, Walks, Setting
<1>3. node_id \in TrieNodes /\ match \in Nat
  BY <1>2, TreeIs DEF AtMatch
<1>4. FindsChild(hash_trie, node_id, StepSymb)
  BY <1>1, <1>3 DEF PromisesKept, FindKept
<1>5. CASE child = NilId
  <2>1. ChildrenBy(hash_trie, node_id, StepSymb) = {}
    BY <1>4, <1>5 DEF FindsChild
  <2>2. \A s \in StepsIn(Tree) : Up(Tree, s) # node_id
    BY <1>2, <2>1, TreeIs DEF ChildrenBy, IsStep
  <2>3. \A n \in KeyNodes : KeyIn(Tree, n) # call.key
    BY <1>1, <1>2, <2>2, NoStepNoKey, TreeIs
  <2>4. Return(Null)
    BY <1>5 DEF FindStep
  <2>. QED  BY <1>1, <2>3, <2>4, MissingStep
<1>6. CASE child # NilId
  <2>1. child \in ChildrenBy(hash_trie, node_id, StepSymb)
    BY <1>4, <1>6 DEF FindsChild
  <2>2. child \in StepsIn(Tree) /\ Up(Tree, child) = node_id
    BY <1>2, <2>1, TreeIs DEF ChildrenBy, IsStep
  <2>3. AtMatch(Tree, call.key, child, match - Lambda, key)
    BY <1>1, <1>2, <2>2, StepTaken
  <2>4. node_id' = child /\ match' = match - Lambda /\ UNCHANGED <<pc, call, key, ret>>
    BY <1>6 DEF FindStep
  <2>5. AtMatch(Tree, call.key, node_id', match', key') /\ match' \in Nat
    BY <1>1, <1>2, <1>3, <2>3, <2>4
  <2>. QED  BY <1>1, <2>4, <2>5, WalkingStep
<1>. QED  BY <1>5, <1>6

\* and so it does with a branch.
LEMMA FindBranchStep ==
  ASSUME Setting, MapInv, Inv', PromisesKept, FindBranch
  PROVE  StepKept
<1>. DEFINE c == Head(key)
            child == FindChild(hash_trie, node_id, MakeSymb(c, match))
<1>1. pc = "step" /\ call.op = "find" /\ match < Lambda /\ UNCHANGED members
  BY DEF FindBranch
<1>2. /\ AtMatch(Tree, call.key, node_id, match, key) /\ Good(Tree) /\ call.key \in Seq(Chars)
      /\ TrieNodes = Nodes(hash_trie) /\ RootId \in TrieNodes /\ Lambda \in Nat \ {0}
      /\ is_ready /\ Symbols /\ CodeInv
  BY <1>1, WalkFacts DEF MapInv, Healthy, Walks, Setting, Inv
<1>3. node_id \in TrieNodes /\ match \in Nat /\ c \in Chars
  BY <1>2, TreeIs, AtMatchFacts
<1>4. HasCode(c) => FindsChild(hash_trie, node_id, MakeSymb(c, match))
  <2>1. ~(match >= Lambda)
    BY <1>1, <1>2, <1>3
  <2>. QED  BY <1>1, <1>3, <2>1 DEF PromisesKept, FindKept
<1>5. CASE ~HasCode(c) \/ child = NilId
  <2>1. ASSUME NEW b \in Branches(Tree), Up(Tree, b) = node_id, Off(Tree, b) = match, By(Tree, b) = c
        PROVE  FALSE
    <3>1. b \in KeyNodes \ {RootId} /\ b \in TrieNodes \ {RootId}
      BY TreeIs DEF KeyNodes
    <3>2. Parent(hash_trie, b) = node_id /\ SymbMatch(b) = match /\ BranchChar(b) = c
      BY <2>1, <3>1, TreeIs
    <3>3. c \in Coded /\ Symb(hash_trie, b) = MakeSymb(c, match)
      BY <1>2, <3>1, <3>2, BranchSymbols
    <3>4. HasCode(c) /\ b \in ChildrenBy(hash_trie, node_id, MakeSymb(c, match))
      BY <1>2, <3>1, <3>2, <3>3 DEF ChildrenBy, Coded
    <3>. QED  BY <1>4, <1>5, <3>4 DEF FindsChild
  <2>2. \A n \in KeyNodes : KeyIn(Tree, n) # call.key
    <3>1. \A b \in Branches(Tree) : ~(Up(Tree, b) = node_id /\ Off(Tree, b) = match /\ By(Tree, b) = Head(key))
      BY <2>1
    <3>. QED  BY <1>1, <1>2, <3>1, NoBranchNoKey, TreeIs
  <2>3. Return(Null)
    BY <1>5 DEF FindBranch
  <2>. QED  BY <1>1, <2>2, <2>3, MissingStep
<1>6. CASE ~(~HasCode(c) \/ child = NilId)
  <2>1. child \in ChildrenBy(hash_trie, node_id, MakeSymb(c, match)) /\ c \in Coded
    BY <1>3, <1>4, <1>6 DEF FindsChild, Coded
  <2>2. child \in TrieNodes \ {RootId} /\ Parent(hash_trie, child) = node_id /\ Symb(hash_trie, child) = MakeSymb(c, match)
    BY <1>2, <2>1 DEF ChildrenBy
  <2>3. child \in KeyNodes \ {RootId} /\ SymbMatch(child) = match /\ BranchChar(child) = c
    BY <1>2, <1>3, <2>1, <2>2, SymbReads DEF SymbolsRead, KeyNodes, IsStep, SymbMatch, BranchChar
  <2>4. child \in Branches(Tree) /\ Up(Tree, child) = node_id /\ Off(Tree, child) = match /\ By(Tree, child) = Head(key)
    BY <2>2, <2>3, TreeIs
  <2>5. AtLabel(Tree, call.key, child, Tail(key))
    BY <1>2, <2>4, BranchTaken
  <2>6. pc' = "compare" /\ node_id' = child /\ key' = Tail(key) /\ UNCHANGED <<call, match, ret>>
    BY <1>6 DEF FindBranch
  <2>7. AtLabel(Tree, call.key, node_id', key') /\ match' \in Nat
    BY <1>3, <2>5, <2>6
  <2>. QED  BY <1>1, <2>6, <2>7, WalkingStep
<1>. QED  BY <1>5, <1>6

\* The value of the key changes, and no other.
LEMMA AssignStep ==
  ASSUME Setting, MapInv, Inv', PromisesKept, NEW v \in UNION {ValueOf(k) : k \in Key}, Assign(v)
  PROVE  StepKept
<1>1. /\ pc = "idle" /\ call.op = "update" /\ ret.kind = "value" /\ v \in ValueOf(call.key)
      /\ label_store' = Write(label_store, ret.ptr, v)
      /\ UNCHANGED <<is_ready, hash_trie, codes, num_codes, size, pc, call, key, node_id, match, ret>>
  BY DEF Assign
<1>2. Healthy /\ Walks /\ Returned /\ Inv /\ Labelled(label_store) = KeyNodes /\ Good(Tree) /\ Lambda \in Nat \ {0}
  BY DEF MapInv, Healthy, Setting
<1>3. PICK n \in KeyNodes : LabelAt(label_store, n).ptr = ret.ptr /\ KeyIn(Tree, n) = call.key
  BY <1>1, <1>2 DEF Returned
<1>4. WritesValue(label_store, n, v)
  BY <1>1, <1>2, <1>3 DEF PromisesKept, WriteKept
<1>5. /\ Labelled(label_store') = Labelled(label_store)
      /\ \A m \in KeyNodes \ {n} : SameLabel(label_store, m, label_store', m)
      /\ LabelAt(label_store', n).chars = LabelAt(label_store, n).chars
      /\ LabelAt(label_store', n).ptr = ret.ptr /\ Value(label_store', ret.ptr) = v
  BY <1>1, <1>2, <1>3, <1>4 DEF WritesValue
<1>6. Keeps
  <2>1. TrieNodes' = TrieNodes
    BY <1>1 DEF TrieNodes
  <2>2. \A m \in KeyNodes : LabelAt(label_store', m).chars = LabelAt(label_store, m).chars
    BY <1>5 DEF SameLabel
  <2>3. Coded' = Coded
    BY <1>1 DEF Coded, HasCode
  <2>. QED  BY <1>1, <1>2, <1>5, <2>1, <2>2, <2>3 DEF Keeps, Healthy
<1>7. Healthy' /\ Tree' = Tree /\ KeyNodes' = KeyNodes
  BY <1>2, <1>6, HealthyKept DEF Inv
<1>8. Walks'
  BY <1>1, <1>2 DEF Walks
<1>9. PICK D : D = Tree
  OBVIOUS
<1>10. \A m : KeyIn(Tree, m)' = KeyIn(D, m) /\ KeyIn(Tree, m) = KeyIn(D, m)
  BY <1>7, <1>9 DEF KeyIn, PathIn, RestIn
<1>11. Returned'
  <2>1. LabelAt(label_store', n).ptr = ret'.ptr /\ KeyIn(Tree, n)' = call'.key /\ n \in KeyNodes'
    BY <1>1, <1>3, <1>5, <1>7, <1>10
  <2>. QED  BY <1>1, <1>2, <2>1 DEF Returned
<1>12. Store' = {e \in Store : e[1] # call.key} \cup {<<call.key, v>>}
  <2>1. \A m \in KeyNodes : StoredAt(m)' = IF m = n THEN v ELSE StoredAt(m)
    BY <1>1, <1>5 DEF StoredAt, SameLabel
  <2>2. \A m \in KeyNodes : (KeyIn(D, m) = call.key) = (m = n)
    BY <1>2, <1>3, <1>9, KeysDiffer, TreeIs
  <2>3. (Store = Pairs)'
    BY StoreIs, PTL
  <2>4. PICK S : S = Store
    OBVIOUS
  <2>5. PICK T : T = Store'
    OBVIOUS
  <2>6. \A e : e \in S <=> \E m \in KeyNodes : e = <<KeyIn(D, m), StoredAt(m)>>
    BY <1>9, <2>4, StoreIs DEF Pairs
  <2>7. \A e : e \in T <=> \E m \in KeyNodes : e = <<KeyIn(D, m), StoredAt(m)'>>
    BY <1>7, <1>10, <2>3, <2>5 DEF Pairs
  <2>8. PICK h : h = [m \in KeyNodes |-> StoredAt(m)]
    OBVIOUS
  <2>9. PICK k : k = [m \in KeyNodes |-> KeyIn(D, m)]
    OBVIOUS
  <2>10. \A e : e \in S <=> \E m \in KeyNodes : e = <<k[m], h[m]>>
    BY <2>6, <2>8, <2>9
  <2>11. \A e : e \in T <=> \E m \in KeyNodes : e = <<k[m], IF m = n THEN v ELSE h[m]>>
    BY <2>1, <2>7, <2>8, <2>9
  <2>12. \A m \in KeyNodes : (k[m] = call.key) = (m = n)
    BY <2>2, <2>9
  <2>13. \A e \in T : e \in {f \in S : f[1] # call.key} \cup {<<call.key, v>>}
    BY <2>10, <2>11, <2>12
  <2>14. \A e \in {f \in S : f[1] # call.key} : e \in T
    BY <2>10, <2>11, <2>12
  <2>15. <<call.key, v>> \in T
    BY <2>11, <2>12
  <2>. QED  BY <2>4, <2>5, <2>13, <2>14, <2>15
<1>13. Abstract!Next
  <2>1. RetValue' = v /\ ret'.kind = "value"
    BY <1>1, <1>5 DEF RetValue
  <2>2. Abstract!Assign(v)
    BY <1>1, <1>12, <2>1 DEF Abstract!Assign, Abstract!Found, Abstract!Answer
  <2>. QED  BY <2>2 DEF Abstract!Next
<1>. QED  BY <1>7, <1>8, <1>11, <1>13 DEF StepKept, Goes

\* Codes are only added.
LEMMA EncodeKeeps ==
  ASSUME MapInv, Encode
  PROVE  Coded \subseteq Coded' /\ \A d \in Coded : codes'[d] = codes[d]
<1>1. CodeInv
  BY DEF MapInv, Inv
<1>2. CASE HasCode(Head(key))
  <2>1. codes' = codes
    BY <1>2 DEF Encode
  <2>. QED  BY <2>1 DEF Coded, HasCode
<1>3. CASE ~HasCode(Head(key))
  <2>1. codes' = [codes EXCEPT ![Head(key)] = num_codes % (CodeMax + 1)]
    BY <1>3 DEF Encode, GiveCode
  <2>2. Head(key) \notin Coded
    BY <1>3 DEF Coded
  <2>. QED  BY <1>1, <2>1, <2>2 DEF CodeInv, Coded, HasCode
<1>. QED  BY <1>2, <1>3

\* A new character gets its code, or update throws.
LEMMA EncodesStep ==
  ASSUME Setting, MapInv, Inv', PromisesKept, Encode
  PROVE  StepKept
<1>1. pc = "step" /\ call.op = "update" /\ match < Lambda /\ UNCHANGED <<is_ready, hash_trie, label_store, size>>
  BY DEF Encode
<1>2. /\ AtMatch(Tree, call.key, node_id, match, key) /\ Good(Tree) /\ call.key \in Seq(Chars) /\ call.key \in Key
      /\ Lambda \in Nat \ {0} /\ is_ready /\ Symbols /\ CodeInv /\ ret = Pending /\ Legal(call.key)
      /\ Size(hash_trie) # 0 /\ match \in Nat
  BY <1>1, WalkFacts DEF MapInv, Healthy, Walks, Setting, Inv
<1>3. Healthy' /\ Tree' = Tree /\ KeyNodes' = KeyNodes
  <2>1. Coded \subseteq Coded' /\ \A d \in Coded : codes'[d] = codes[d]
    BY EncodeKeeps
  <2>. QED  BY <1>1, <2>1, ObjectKept DEF MapInv, Inv
<1>4. Store' = Store
  <2>1. \A n \in KeyNodes : StoredAt(n)' = StoredAt(n)
    BY <1>1 DEF StoredAt
  <2>. QED  BY <1>3, <2>1, StoreKept
<1>5. CASE pc' = "branch" /\ UNCHANGED <<call, key, node_id, match, ret>>
  <2>1. AtMatch(Tree, call.key, node_id', match', key')
    BY <1>2, <1>5
  <2>2. Walks' /\ Returned'
    BY <1>1, <1>2, <1>3, <1>5, <2>1, WalksOn
  <2>3. UNCHANGED Abstract!vars
    BY <1>2, <1>4, <1>5, Stutters
  <2>. QED  BY <1>3, <2>2, <2>3 DEF StepKept, Goes
<1>6. CASE ~HasCode(Head(key)) /\ num_codes' = CodeMax /\ Return(Thrown)
  <2>1. MayThrow
    <3>1. CodeInv' /\ is_ready'
      BY <1>1, <1>2 DEF Inv
    <3>2. num_codes' = Cardinality(Coded')
      BY <3>1 DEF CodeInv
    <3>3. Coded' \subseteq Chars
      BY DEF Coded
    <3>4. Cardinality(Coded') <= Cardinality(Chars) /\ Cardinality(Chars) \in Nat
      BY <3>3, FS_Subset, FS_CardinalityType DEF Setting
    <3>5. Cardinality(Chars) <= CodeMax /\ CodeMax \in Nat
      BY CodeAssumption DEF Setting
    <3>6. Cardinality(Chars) = CodeMax
      BY <1>6, <3>2, <3>4, <3>5
    <3>. QED  BY <3>6 DEF Setting
  <2>2. \A n \in KeyNodes : KeyIn(Tree, n) # call.key
    <3>1. \A b \in Branches(Tree) : By(Tree, b) # Head(key)
      <4>1. \A b \in KeyNodes \ {RootId} : BranchChar(b) \in Coded
        BY <1>2, BranchSymbols
      <4>2. Head(key) \notin Coded
        BY <1>6 DEF Coded
      <4>. QED  BY <4>1, <4>2, TreeIs
    <3>. QED  BY <1>1, <1>2, <3>1, NoBranchNoKey, TreeIs
  <2>3. Abstract!Next
    BY <1>1, <1>2, <1>4, <1>6, <2>1, <2>2, AnswersThrown DEF Return
  <2>. QED  BY <1>3, <1>6, <2>3, ReturnedNothing DEF StepKept, Goes
<1>. QED  BY <1>5, <1>6 DEF Encode

----------------------------------------------------------------------------
\* As many nodes as before have a key after they were renamed.
LEMMA SameCount ==
  ASSUME NEW S, IsFiniteSet(S), NEW g, \A m, n \in S : g[m] = g[n] => m = n
  PROVE  IsFiniteSet({g[n] : n \in S}) /\ Cardinality({g[n] : n \in S}) = Cardinality(S)
<1>. DEFINE T == {g[n] : n \in S}
<1>1. PICK f : f = [n \in S |-> g[n]]
  OBVIOUS
<1>2. f \in [S -> T] /\ (\A m, n \in S : f[m] = f[n] => m = n) /\ \A t \in T : \E n \in S : f[n] = t
  BY <1>1
<1>. HIDE DEF T
<1>3. ExistsBijection(S, T)
  <2>1. f \in Bijection(S, T)
    BY <1>2 DEF Bijection, Injection, Surjection, IsInjective
  <2>. QED  BY <2>1 DEF ExistsBijection
<1>4. IsFiniteSet(T) /\ Cardinality(T) = Cardinality(S)
  BY <1>3, FS_Bijection
<1>. QED  BY <1>4 DEF T

\* What the next state is stated with, as members of its tree.
LEMMA NextTreeIs ==
  ASSUME NEW E, Tree' = E
  PROVE  /\ NodesIn(E) = TrieNodes' /\ (\A n \in TrieNodes' : (n \in StepsIn(E)) = IsStep(n)')
         /\ StepsIn(E) \subseteq TrieNodes' /\ RootId \notin StepsIn(E)
         /\ Bases(E) = KeyNodes' /\ Branches(E) = KeyNodes' \ {RootId}
         /\ \A n \in TrieNodes' \ {RootId} : Up(E, n) = Parent(hash_trie', n)
         /\ \A n \in KeyNodes' \ {RootId} : Off(E, n) = SymbMatch(n)' /\ By(E, n) = BranchChar(n)'
         /\ \A n \in KeyNodes' : RestIn(E, n) = Rest(n)'
<1>1. PICK F : F = Place'
  OBVIOUS
<1>2. E = TreeWith(F)'
  BY <1>1 DEF Tree, TreeWith
<1>. QED  BY <1>2, NextTreeFacts

\* The labels, and the values behind them, are those of before under the new
\* names of their nodes.
Carried(g) ==
  \A n \in KeyNodes :
    /\ g[n] \in Labelled(label_store')
    /\ LabelAt(label_store', g[n]).chars = LabelAt(label_store, n).chars
    /\ StoredAt(g[n])' = StoredAt(n)

\* An update has added the node x.
Added(D, E, g, x) ==
  /\ D = Tree /\ Good(D) /\ Tree' = E /\ Good(E) /\ Moves(D, E, g) /\ RootId \in NodesIn(D)
  /\ NodesIn(E) = {g[n] : n \in NodesIn(D)} \cup {x}
  /\ \A n \in NodesIn(D) : g[n] # x
  /\ Carried(g)

AddedIs(D, E, g, x) ==
  /\ \A n \in Bases(D) : g[n] \in Bases(E) /\ KeyIn(E, g[n]) = KeyIn(D, n)
  /\ KeyNodes = Bases(D) /\ KeyNodes' = Bases(E)
  /\ Bases(E) = {g[n] : n \in Bases(D)} \cup (IF x \in StepsIn(E) THEN {} ELSE {x})
  /\ IsFiniteSet({g[n] : n \in Bases(D)}) /\ Cardinality({g[n] : n \in Bases(D)}) = Cardinality(Bases(D))
  /\ x \notin {g[n] : n \in Bases(D)}

\* A tree with one more node: the others are all there, moved.
LEMMA AddedFacts ==
  ASSUME NEW D, NEW E, NEW g, NEW x, Added(D, E, g, x)
  PROVE  AddedIs(D, E, g, x)
<1>1. /\ Good(D) /\ Moves(D, E, g) /\ NodesIn(E) = {g[n] : n \in NodesIn(D)} \cup {x}
      /\ \A n \in NodesIn(D) : g[n] # x
      /\ \A m, n \in NodesIn(D) : g[m] = g[n] => m = n
  BY DEF Added, Moves
<1>2. ASSUME NEW n \in NodesIn(D)
      PROVE  g[n] \in NodesIn(E) /\ (g[n] \in Bases(E)) = (n \in Bases(D))
  BY <1>1 DEF Moves, Bases
<1>3. ASSUME NEW n \in Bases(D)
      PROVE  g[n] \in Bases(E) /\ KeyIn(E, g[n]) = KeyIn(D, n)
  <2>1. n \in NodesIn(D)
    BY DEF Bases
  <2>2. PathIn(E, g[n]) = PathIn(D, n) /\ RestIn(E, g[n]) = RestIn(D, n)
    BY <1>1, <2>1 DEF Moves
  <2>. QED  BY <1>2, <2>1, <2>2 DEF KeyIn
<1>4. KeyNodes = Bases(D) /\ KeyNodes' = Bases(E)
  BY TreeIs, NextTreeIs DEF Added
<1>5. Bases(E) = {g[n] : n \in Bases(D)} \cup (IF x \in StepsIn(E) THEN {} ELSE {x})
  <2>1. ASSUME NEW z \in Bases(E), z # x PROVE \E n \in Bases(D) : z = g[n]
    <3>1. z \in NodesIn(E)
      BY DEF Bases
    <3>2. PICK n \in NodesIn(D) : z = g[n]
      BY <1>1, <2>1, <3>1
    <3>. QED  BY <1>2, <3>2
  <2>2. (x \in Bases(E)) = (x \notin StepsIn(E))
    BY <1>1 DEF Bases
  <2>. QED  BY <1>3, <2>1, <2>2
<1>6. IsFiniteSet(Bases(D)) /\ Bases(D) \subseteq NodesIn(D)
  <2>1. IsFiniteSet(NodesIn(D))
    BY <1>1 DEF Good, IsTree
  <2>. QED  BY <2>1, FS_Subset DEF Bases
<1>7. IsFiniteSet({g[n] : n \in Bases(D)}) /\ Cardinality({g[n] : n \in Bases(D)}) = Cardinality(Bases(D))
  <2>1. \A m, n \in Bases(D) : g[m] = g[n] => m = n
    BY <1>1, <1>6
  <2>. QED  BY <1>6, <2>1, SameCount
<1>8. x \notin {g[n] : n \in Bases(D)}
  BY <1>1, <1>6
<1>. QED  BY <1>3, <1>4, <1>5, <1>7, <1>8 DEF AddedIs

\* A step node registers no key,
LEMMA StepStore ==
  ASSUME NEW D, NEW E, NEW g, NEW x, Added(D, E, g, x), x \in StepsIn(E)
  PROVE  Store' = Store
<1>1. D = Tree /\ Tree' = E /\ Carried(g)
  BY DEF Added
<1>2. (Store = Pairs)'
  BY StoreIs, PTL
<1>3. PICK T : T = Store'
  OBVIOUS
<1>4. \A n : KeyIn(Tree, n)' = KeyIn(E, n)
  BY <1>1 DEF KeyIn, PathIn, RestIn
<1>5. \A e : e \in T <=> \E z \in KeyNodes' : e = <<KeyIn(E, z), StoredAt(z)'>>
  BY <1>2, <1>3, <1>4 DEF Pairs
<1>6. \A e : e \in Store <=> \E n \in KeyNodes : e = <<KeyIn(D, n), StoredAt(n)>>
  BY <1>1, StoreIs DEF Pairs
<1>7. /\ \A n \in Bases(D) : KeyIn(E, g[n]) = KeyIn(D, n)
      /\ KeyNodes = Bases(D) /\ KeyNodes' = Bases(E)
      /\ Bases(E) = {g[n] : n \in Bases(D)} \cup (IF x \in StepsIn(E) THEN {} ELSE {x})
  <2>1. AddedIs(D, E, g, x)
    BY AddedFacts
  <2>. QED  BY <2>1 DEF AddedIs
<1>8. KeyNodes' = {g[n] : n \in KeyNodes}
  BY <1>7
<1>9. \A n \in KeyNodes : KeyIn(E, g[n]) = KeyIn(D, n) /\ StoredAt(g[n])' = StoredAt(n)
  BY <1>1, <1>7 DEF Carried
<1>. QED  BY <1>3, <1>5, <1>6, <1>8, <1>9

\* and another node one, with its value.
LEMMA BranchStore ==
  ASSUME NEW D, NEW E, NEW g, NEW x, Added(D, E, g, x), x \notin StepsIn(E)
  PROVE  Store' = Store \cup {<<KeyIn(E, x), StoredAt(x)'>>}
<1>1. D = Tree /\ Tree' = E /\ Carried(g)
  BY DEF Added
<1>2. (Store = Pairs)'
  BY StoreIs, PTL
<1>3. PICK T : T = Store'
  OBVIOUS
<1>4. \A n : KeyIn(Tree, n)' = KeyIn(E, n)
  BY <1>1 DEF KeyIn, PathIn, RestIn
<1>5. \A e : e \in T <=> \E z \in KeyNodes' : e = <<KeyIn(E, z), StoredAt(z)'>>
  BY <1>2, <1>3, <1>4 DEF Pairs
<1>6. \A e : e \in Store <=> \E n \in KeyNodes : e = <<KeyIn(D, n), StoredAt(n)>>
  BY <1>1, StoreIs DEF Pairs
<1>7. /\ \A n \in Bases(D) : KeyIn(E, g[n]) = KeyIn(D, n)
      /\ KeyNodes = Bases(D) /\ KeyNodes' = Bases(E)
      /\ Bases(E) = {g[n] : n \in Bases(D)} \cup (IF x \in StepsIn(E) THEN {} ELSE {x})
  <2>1. AddedIs(D, E, g, x)
    BY AddedFacts
  <2>. QED  BY <2>1 DEF AddedIs
<1>8. KeyNodes' = {g[n] : n \in KeyNodes} \cup {x}
  BY <1>7
<1>9. \A n \in KeyNodes : KeyIn(E, g[n]) = KeyIn(D, n) /\ StoredAt(g[n])' = StoredAt(n)
  BY <1>1, <1>7 DEF Carried
<1>. QED  BY <1>3, <1>5, <1>6, <1>8, <1>9

----------------------------------------------------------------------------
\* add_child has found the child there already.
LEMMA ChildThere ==
  ASSUME Setting, MapInv, Inv', pc \in {"step", "branch"}, NEW y, AddsChild(hash_trie, node_id, y),
         NEW r, r = AddChild(hash_trie, node_id, y), ~r.added, hash_trie' = r.trie,
         UNCHANGED <<label_store, is_ready, codes, size>>
  PROVE  /\ Healthy' /\ Store' = Store /\ Tree' = Tree /\ Size(hash_trie') # 0
         /\ r.node \in TrieNodes \ {RootId} /\ Parent(hash_trie, r.node) = node_id /\ Symb(hash_trie, r.node) = y
<1>1. /\ ChildrenBy(r.trie, node_id, y) = {r.node} /\ Nodes(r.trie) = Nodes(hash_trie) \cup {r.node}
      /\ r.node \in Nodes(hash_trie) /\ Size(r.trie) # 0 /\ ~NeedsToExpand(r.trie)
      /\ \A m \in Nodes(hash_trie) \ {RootId} :
           Parent(r.trie, m) = Parent(hash_trie, m) /\ Symb(r.trie, m) = Symb(hash_trie, m)
  BY DEF AddsChild
<1>2. TrieNodes = Nodes(hash_trie) /\ Size(hash_trie) # 0 /\ is_ready /\ Healthy
  BY WalkFacts DEF MapInv, Walks
<1>3. r.node \in Nodes(r.trie) \ {RootId} /\ Parent(r.trie, r.node) = node_id /\ Symb(r.trie, r.node) = y
  BY <1>1 DEF ChildrenBy
<1>4. TrieNodes' = TrieNodes
  BY <1>1, <1>2 DEF TrieNodes
<1>5. Coded' = Coded
  BY DEF Coded, HasCode
<1>6. Keeps
  BY <1>1, <1>2, <1>4, <1>5 DEF Keeps
<1>7. Healthy' /\ Tree' = Tree /\ KeyNodes' = KeyNodes
  BY <1>6, HealthyKept DEF MapInv, Inv
<1>8. Store' = Store
  <2>1. \A n \in KeyNodes : StoredAt(n)' = StoredAt(n)
    BY DEF StoredAt
  <2>. QED  BY <1>7, <2>1, StoreKept
<1>. QED  BY <1>1, <1>2, <1>3, <1>7, <1>8

\* add_child has added the child, and the table may have grown.
LEMMA ChildNew ==
  ASSUME Setting, MapInv, pc \in {"step", "branch"}, NEW y, AddingKept(y),
         NEW r, r = AddChild(hash_trie, node_id, y), r.added, NEW s, s = Settle(r.trie, r.node)
  PROVE  \E g : Grown(g, s, y) /\ s.node \notin Labelled(s.labels)
<1>1. /\ TrieNodes = Nodes(hash_trie) /\ RootId \in TrieNodes /\ Good(Tree) /\ Labelled(label_store) = KeyNodes
  BY WalkFacts DEF MapInv, Healthy
<1>2. node_id \in TrieNodes
  BY <1>1, TreeIs DEF MapInv, Walks, AtMatch
<1>3. \A n \in TrieNodes \ {RootId} : Parent(hash_trie, n) \in TrieNodes
  BY <1>1, TreeIs DEF Good, IsTree
<1>4. TrieNodes \subseteq Nat /\ KeyNodes \subseteq TrieNodes
  BY <1>1, TreeIs DEF Good, IsTree, KeyNodes
<1>5. PICK g : Grown(g, s, y)
  BY <1>1, <1>2, <1>3, <1>4, Settles
<1>6. s.node \notin Labelled(s.labels)
  BY <1>1, <1>4, <1>5, ZenonT(30) DEF Grown
<1>. QED  BY <1>5, <1>6

\* The labels are carried to the trie that has grown.
Carries(D, g, s, y) ==
  /\ GrowsBy(D, g, s, y) /\ Carried(g) /\ Labelled(s.labels) = {g[n] : n \in KeyNodes}
  /\ \A n \in NodesIn(D) : g[n] # s.node

\* The labels are carried along with their nodes.
LEMMA GrowthCarries ==
  ASSUME Setting, MapInv, pc \in {"step", "branch"}, NEW y, NEW s, NEW g, Grown(g, s, y),
         hash_trie' = s.trie, UNCHANGED codes,
         Labelled(s.labels) \subseteq Labelled(label_store'),
         \A m \in Labelled(s.labels) : SameLabel(s.labels, m, label_store', m),
         NEW D, D = Tree
  PROVE  Carries(D, g, s, y)
<1>1. /\ TrieNodes = Nodes(hash_trie) /\ RootId \in TrieNodes /\ Good(Tree) /\ Labelled(label_store) = KeyNodes
  BY WalkFacts DEF MapInv, Healthy
<1>2. node_id \in TrieNodes
  BY <1>1, TreeIs DEF MapInv, Walks, AtMatch
<1>3. /\ Labelled(s.labels) = {g[n] : n \in KeyNodes}
      /\ \A n \in KeyNodes : SameLabel(label_store, n, s.labels, g[n])
      /\ \A n \in TrieNodes : g[n] # s.node
  BY <1>1 DEF Grown
<1>4. \A n \in KeyNodes : g[n] \in Labelled(label_store') /\ SameLabel(s.labels, g[n], label_store', g[n])
  BY <1>3
<1>5. Carried(g)
  BY <1>3, <1>4 DEF Carried, SameLabel, StoredAt
<1>6. GrowsBy(D, g, s, y)
  BY <1>1, <1>2, <1>5 DEF GrowsBy, Carried
<1>. QED  BY <1>3, <1>5, <1>6, TreeIs DEF Carries

\* An object with one more node is healthy.
LEMMA HealthyGrown ==
  ASSUME Setting, MapInv, Inv', pc \in {"step", "branch"}, NEW D, NEW E, NEW g, NEW s, NEW y,
         Grown(g, s, y), Added(D, E, g, s.node), Place' \in [TrieNodes' -> Places],
         hash_trie' = s.trie, UNCHANGED <<codes, is_ready>>,
         Labelled(label_store') = KeyNodes', size' = Cardinality(KeyNodes'),
         y = StepSymb \/ \E c \in Coded, m \in 0 .. Lambda - 1 : y = MakeSymb(c, m)
  PROVE  Healthy'
<1>1. /\ TrieNodes = Nodes(hash_trie) /\ is_ready /\ Symbols
  BY WalkFacts DEF MapInv, Healthy
<1>2. /\ D = Tree /\ Tree' = E /\ Good(E) /\ NodesIn(E) = {g[n] : n \in NodesIn(D)} \cup {s.node} /\ RootId \in NodesIn(D)
  BY DEF Added
<1>3. /\ g[RootId] = RootId /\ Symb(s.trie, s.node) = y /\ Size(s.trie) # 0 /\ ~NeedsToExpand(s.trie)
      /\ \A n \in TrieNodes \ {RootId} : Symb(s.trie, g[n]) = Symb(hash_trie, n)
  BY <1>1 DEF Grown
<1>4. TrieNodes' = {g[n] : n \in TrieNodes} \cup {s.node} /\ RootId \in TrieNodes'
  <2>1. NodesIn(E) = TrieNodes' /\ NodesIn(D) = TrieNodes
    BY <1>2, TreeIs, NextTreeIs
  <2>. QED  BY <1>2, <1>3, <2>1
<1>5. Coded' = Coded /\ \A c, m : MakeSymb(c, m)' = MakeSymb(c, m)
  BY DEF Coded, HasCode, MakeSymb
<1>6. Symbols'
  <2>1. ASSUME NEW z \in TrieNodes' \ {RootId}
        PROVE  IsStep(z)' \/ \E c \in Coded', m \in 0 .. Lambda - 1 : Symb(hash_trie', z) = MakeSymb(c, m)'
    <3>1. CASE z = s.node
      BY <1>3, <1>5, <2>1, <3>1 DEF IsStep
    <3>2. CASE z # s.node
      <4>1. PICK n \in TrieNodes : z = g[n]
        BY <1>4, <3>2
      <4>2. n # RootId /\ Symb(hash_trie', z) = Symb(hash_trie, n)
        BY <1>3, <2>1, <4>1
      <4>. QED  BY <1>1, <1>5, <2>1, <4>2 DEF Symbols, IsStep
    <3>. QED  BY <3>1, <3>2
  <2>. QED  BY <2>1 DEF Symbols
<1>. QED  BY <1>1, <1>2, <1>3, <1>4, <1>6 DEF Healthy

\* update adds a step node or goes on to it.
LEMMA UpdatesStep ==
  ASSUME Setting, MapInv, Inv', PromisesKept, UpdateStep
  PROVE  StepKept
<1>1. /\ pc = "step" /\ call.op = "update" /\ match >= Lambda /\ match' = match - Lambda
      /\ UNCHANGED <<is_ready, codes, num_codes, size, pc, call, key, ret>>
  BY DEF UpdateStep
<1>2. /\ AtMatch(Tree, call.key, node_id, match, key) /\ Good(Tree) /\ call.key \in Seq(Chars)
      /\ TrieNodes = Nodes(hash_trie) /\ RootId \in TrieNodes /\ Lambda \in Nat \ {0} /\ ret = Pending
      /\ ~NeedsToExpand(hash_trie) /\ Labelled(label_store) = KeyNodes /\ size = Cardinality(KeyNodes)
  BY <1>1, WalkFacts DEF MapInv, Healthy, Walks, Setting
<1>3. node_id \in TrieNodes /\ match \in Nat /\ match' \in Nat
  BY <1>1, <1>2, TreeIs DEF AtMatch
<1>4. PICK r : r = AddChild(hash_trie, node_id, StepSymb)
  OBVIOUS
<1>5. PICK s : s = Settle(r.trie, r.node)
  OBVIOUS
<1>6. /\ AddingKept(StepSymb)
      /\ r.added /\ s.node \notin Labelled(s.labels) => InsertsNone(s.labels, s.node)
  BY <1>1, <1>2, <1>3, <1>4, <1>5 DEF PromisesKept, AddStepKept
<1>7. CASE ~r.added
  <2>1. hash_trie' = r.trie /\ node_id' = r.node /\ UNCHANGED label_store
    BY <1>4, <1>7 DEF UpdateStep
  <2>2. AddsChild(hash_trie, node_id, StepSymb)
    BY <1>6 DEF AddingKept
  <2>3. /\ Healthy' /\ Store' = Store /\ Tree' = Tree /\ Size(hash_trie') # 0
        /\ r.node \in TrieNodes \ {RootId} /\ Parent(hash_trie, r.node) = node_id /\ Symb(hash_trie, r.node) = StepSymb
    BY <1>1, <1>4, <1>7, <2>1, <2>2, ChildThere
  <2>4. r.node \in StepsIn(Tree) /\ Up(Tree, r.node) = node_id
    BY <2>3, TreeIs DEF IsStep
  <2>5. AtMatch(Tree, call.key, r.node, match - Lambda, key)
    BY <1>1, <1>2, <2>4, StepTaken
  <2>6. AtMatch(Tree, call.key, node_id', match', key')
    BY <1>1, <2>1, <2>5
  <2>7. Walks' /\ Returned'
    BY <1>1, <1>3, <2>3, <2>6, WalksOn
  <2>8. UNCHANGED Abstract!vars
    BY <1>1, <1>2, <2>3, Stutters
  <2>. QED  BY <2>3, <2>7, <2>8 DEF StepKept, Goes
<1>8. CASE r.added
  <2>1. hash_trie' = s.trie /\ node_id' = s.node /\ label_store' = InsertStep(s.labels, s.node)
    BY <1>4, <1>5, <1>8 DEF UpdateStep
  <2>2. PICK g : Grown(g, s, StepSymb) /\ s.node \notin Labelled(s.labels)
    BY <1>1, <1>4, <1>5, <1>6, <1>8, ChildNew
  <2>3. /\ Labelled(label_store') = Labelled(s.labels)
        /\ \A m \in Labelled(s.labels) : SameLabel(s.labels, m, label_store', m)
    BY <1>6, <1>8, <2>1, <2>2 DEF InsertsNone
  <2>4. PICK D : D = Tree
    OBVIOUS
  <2>5. /\ GrowsBy(D, g, s, StepSymb) /\ Carried(g) /\ Labelled(s.labels) = {g[n] : n \in KeyNodes}
        /\ \A n \in NodesIn(D) : g[n] # s.node
    <3>1. Carries(D, g, s, StepSymb)
      BY <1>1, <2>1, <2>2, <2>3, <2>4, GrowthCarries
    <3>. QED  BY <3>1 DEF Carries
  <2>6. PICK E : /\ Tree' = E /\ Good(E) /\ Place' \in [TrieNodes' -> Places] /\ Moves(D, E, g)
                 /\ NodesIn(E) = {g[n] : n \in NodesIn(D)} \cup {s.node}
                 /\ s.node \in StepsIn(E) /\ Up(E, s.node) = g[node_id]
    BY <1>2, <2>5, StepGrows
  <2>7. Added(D, E, g, s.node)
    BY <1>2, <2>4, <2>5, <2>6, TreeIs DEF Added
  <2>8. AddedIs(D, E, g, s.node)
    BY <2>7, AddedFacts
  <2>9. Labelled(label_store') = KeyNodes' /\ size' = Cardinality(KeyNodes')
    BY <1>1, <1>2, <2>3, <2>5, <2>6, <2>8 DEF AddedIs
  <2>10. Healthy'
    BY <1>1, <2>1, <2>2, <2>6, <2>7, <2>9, HealthyGrown
  <2>11. AtMatch(E, call.key, g[node_id], match, key)
    BY <1>2, <2>4, <2>6, WalkMoves
  <2>12. AtMatch(E, call.key, s.node, match - Lambda, key)
    BY <1>1, <1>2, <2>6, <2>11, StepTaken
  <2>13. AtMatch(E, call.key, node_id', match', key')
    BY <1>1, <2>1, <2>12
  <2>14. Size(hash_trie') # 0
    BY <2>1, <2>2 DEF Grown
  <2>15. Walks' /\ Returned'
    BY <1>1, <1>3, <2>6, <2>13, <2>14, WalksOn
  <2>16. Store' = Store
    BY <2>6, <2>7, StepStore
  <2>17. UNCHANGED Abstract!vars
    BY <1>1, <1>2, <2>16, Stutters
  <2>. QED  BY <2>10, <2>15, <2>17 DEF StepKept, Goes
<1>. QED  BY <1>7, <1>8

\* A terminated string is what the label holds of it, and the terminator.
LEMMA LabelChars ==
  ASSUME NEW t, WellEnded(t)
  PROVE  LET chars == SubSeq(t, 1, Len(t) - 1)
         IN t = IF t = <<>> THEN chars ELSE Append(chars, 0)
<1>. DEFINE chars == SubSeq(t, 1, Len(t) - 1)
<1>1. t \in Seq(Chars) /\ Len(t) \in Nat /\ 0 \in Chars
  BY CodeAssumption DEF WellEnded
<1>2. CASE t = <<>>
  <2>1. chars = <<>>
    BY <1>2
  <2>. QED  BY <1>2, <2>1
<1>3. CASE t # <<>>
  <2>1. Len(t) # 0
    BY <1>1, <1>3, EmptySeq
  <2>2. PICK l : l = Len(t) - 1 /\ l \in Nat /\ l <= Len(t)
    BY <1>1, <2>1
  <2>3. chars \in Seq(Chars) /\ Len(chars) = Len(t) - 1 /\ \A x \in 1 .. Len(t) - 1 : chars[x] = t[x]
    <3>1. SubSeq(t, 1, l) \in Seq(Chars) /\ Len(SubSeq(t, 1, l)) = l /\ \A x \in 1 .. l : SubSeq(t, 1, l)[x] = t[x]
      BY <1>1, <2>2, PrefixIs
    <3>. QED  BY <2>2, <3>1
  <2>. HIDE DEF chars
  <2>4. /\ Append(chars, 0) \in Seq(Chars) /\ Len(Append(chars, 0)) = Len(t)
        /\ \A x \in 1 .. Len(t) - 1 : Append(chars, 0)[x] = t[x]
        /\ Append(chars, 0)[Len(t)] = 0
    <3>1. /\ Append(chars, 0) \in Seq(Chars) /\ Len(Append(chars, 0)) = Len(chars) + 1
          /\ \A x \in 1 .. Len(chars) : Append(chars, 0)[x] = chars[x]
          /\ Append(chars, 0)[Len(chars) + 1] = 0
      BY <1>1, <2>3, AppendProperties
    <3>. QED  BY <2>2, <2>3, <3>1
  <2>5. t[Len(t)] = 0
    BY <1>1, <2>1 DEF WellEnded
  <2>6. \A x \in 1 .. Len(t) : Append(chars, 0)[x] = t[x]
    BY <1>1, <2>4, <2>5
  <2>7. Append(chars, 0) = t
    BY <1>1, <2>4, <2>6, SeqEqual
  <2>. QED  BY <1>3, <2>7 DEF chars
<1>. QED  BY <1>2, <1>3

\* The tail of a terminated key is empty exactly if its head is the terminator.
LEMMA TailEnded ==
  ASSUME NEW t, WellEnded(t), t # <<>>
  PROVE  WellEnded(Tail(t)) /\ (Tail(t) = <<>>) = (Head(t) = 0) /\ Head(t) \in Chars
<1>1. /\ t \in Seq(Chars) /\ Len(t) \in Nat /\ Head(t) = t[1] /\ Tail(t) \in Seq(Chars)
      /\ Len(Tail(t)) = Len(t) - 1 /\ \A i \in 1 .. Len(Tail(t)) : Tail(t)[i] = t[i + 1]
  BY HeadTailProperties DEF WellEnded
<1>2. Len(t) # 0 /\ (Tail(t) = <<>>) = (Len(Tail(t)) = 0)
  BY <1>1, EmptySeq
<1>3. 1 \in 1 .. Len(t)
  BY <1>1, <1>2
<1>4. (Tail(t) = <<>>) = (Head(t) = 0) /\ Head(t) \in Chars
  <2>1. (t[1] = 0) = (1 = Len(t)) /\ t[1] \in Chars
    <3>1. \A i \in 1 .. Len(t) : (t[i] = 0) = (i = Len(t))
      BY DEF WellEnded
    <3>2. t[1] \in Chars
      BY <1>1, <1>3
    <3>. QED  BY <1>3, <3>1, <3>2
  <2>2. (Len(Tail(t)) = 0) = (1 = Len(t))
    BY <1>1, <1>2
  <2>. QED  BY <1>1, <1>2, <2>1, <2>2
<1>5. ASSUME NEW i \in 1 .. Len(Tail(t)) PROVE (Tail(t)[i] = 0) = (i = Len(Tail(t)))
  <2>1. i + 1 \in 1 .. Len(t) /\ (i + 1 = Len(t)) = (i = Len(Tail(t)))
    BY <1>1, <1>2
  <2>. QED  BY <1>1, <2>1 DEF WellEnded
<1>. QED  BY <1>1, <1>4, <1>5 DEF WellEnded

\* update adds the key's node, with its label, or goes on to a child.
LEMMA UpdatesBranch ==
  ASSUME Setting, MapInv, Inv', PromisesKept, UpdateBranch
  PROVE  StepKept
<1>. DEFINE c == Head(key)
<1>1. pc = "branch" /\ UNCHANGED <<is_ready, codes, num_codes>>
  BY DEF UpdateBranch
<1>2. /\ AtMatch(Tree, call.key, node_id, match, key) /\ Good(Tree) /\ call.key \in Seq(Chars) /\ call.key \in Key
      /\ Legal(call.key) /\ WellEnded(call.key) /\ match < Lambda /\ call.op = "update"
      /\ TrieNodes = Nodes(hash_trie) /\ RootId \in TrieNodes /\ Lambda \in Nat \ {0} /\ ret = Pending
      /\ ~NeedsToExpand(hash_trie) /\ Labelled(label_store) = KeyNodes /\ size = Cardinality(KeyNodes)
      /\ is_ready /\ Symbols /\ CodeInv /\ HasCode(c)
  BY <1>1, WalkFacts DEF MapInv, Healthy, Walks, Setting, Inv, CodeInv, CodeAssigned
<1>3. node_id \in TrieNodes /\ match \in Nat /\ match \in 0 .. Lambda - 1
  BY <1>1, <1>2, TreeIs DEF AtMatch
<1>4. c \in Coded /\ c \in Chars /\ key # <<>>
  BY <1>2, AtMatchFacts DEF Coded
<1>5. PICK y : y = MakeSymb(c, match)
  OBVIOUS
<1>6. y # StepSymb /\ y \div (CodeMax + 1) = match /\ CharOf[y % (CodeMax + 1)] = c
  BY <1>2, <1>3, <1>4, <1>5, SymbReads DEF SymbolsRead
<1>7. WellEnded(key) /\ WellEnded(Tail(key)) /\ (Tail(key) = <<>>) = (c = 0)
  <2>. DEFINE i == Len(PathIn(Tree, BaseIn(Tree, node_id))) + (SkippedIn(Tree, node_id) + match)
  <2>1. key = Behind(call.key, i) /\ i \in 0 .. Len(call.key)
    <3>1. i \in 0 .. Len(call.key) - 1 /\ Len(call.key) \in Nat
      BY <1>2, AtMatchFacts
    <3>2. key = Behind(call.key, i)
      BY <1>2 DEF AtMatch
    <3>. HIDE DEF i
    <3>. QED  BY <3>1, <3>2
  <2>. HIDE DEF i
  <2>2. WellEnded(key)
    BY <1>2, <2>1, BehindEnded
  <2>. QED  BY <1>4, <2>2, TailEnded
<1>8. PICK r : r = AddChild(hash_trie, node_id, y)
  OBVIOUS
<1>9. PICK s : s = Settle(r.trie, r.node)
  OBVIOUS
<1>10. PICK i : i = Insert(s.labels, s.node, Tail(key))
  OBVIOUS
<1>11. /\ AddingKept(y)
       /\ r.added /\ s.node \notin Labelled(s.labels) => InsertsLabel(s.labels, s.node, Tail(key))
  BY <1>1, <1>2, <1>3, <1>5, <1>7, <1>8, <1>9 DEF PromisesKept, AddBranchKept
<1>12. \A b \in KeyNodes \ {RootId} : Symb(hash_trie, b) = MakeSymb(BranchChar(b), SymbMatch(b))
  BY <1>2, BranchSymbols
<1>13. CASE ~r.added
  <2>1. /\ hash_trie' = r.trie /\ node_id' = r.node /\ pc' = "compare" /\ key' = Tail(key)
        /\ UNCHANGED <<label_store, size, call, match, ret>>
    BY <1>5, <1>8, <1>13 DEF UpdateBranch
  <2>2. AddsChild(hash_trie, node_id, y)
    BY <1>11 DEF AddingKept
  <2>3. /\ Healthy' /\ Store' = Store /\ Tree' = Tree /\ Size(hash_trie') # 0
        /\ r.node \in TrieNodes \ {RootId} /\ Parent(hash_trie, r.node) = node_id /\ Symb(hash_trie, r.node) = y
    BY <1>1, <1>8, <1>13, <2>1, <2>2, ChildThere
  <2>4. r.node \in KeyNodes \ {RootId} /\ SymbMatch(r.node) = match /\ BranchChar(r.node) = c
    BY <1>6, <2>3 DEF KeyNodes, IsStep, SymbMatch, BranchChar
  <2>5. r.node \in Branches(Tree) /\ Up(Tree, r.node) = node_id /\ Off(Tree, r.node) = match /\ By(Tree, r.node) = Head(key)
    BY <2>3, <2>4, TreeIs
  <2>6. AtLabel(Tree, call.key, r.node, Tail(key))
    BY <1>2, <2>5, BranchTaken
  <2>7. AtLabel(Tree, call.key, node_id', key') /\ match' \in Nat
    BY <1>3, <2>1, <2>6
  <2>8. Walks' /\ Returned'
    BY <1>1, <2>1, <2>3, <2>7, WalksOn
  <2>9. UNCHANGED Abstract!vars
    BY <1>2, <2>1, <2>3, Stutters
  <2>. QED  BY <2>3, <2>8, <2>9 DEF StepKept, Goes
<1>14. CASE r.added
  <2>1. hash_trie' = s.trie /\ label_store' = i.labels /\ size' = size + 1 /\ Return(Pointer(i.ptr))
    BY <1>5, <1>8, <1>9, <1>10, <1>14 DEF UpdateBranch
  <2>2. PICK g : Grown(g, s, y) /\ s.node \notin Labelled(s.labels)
    BY <1>1, <1>8, <1>9, <1>11, <1>14, ChildNew
  <2>3. /\ Labelled(label_store') = Labelled(s.labels) \cup {s.node}
        /\ \A m \in Labelled(s.labels) : SameLabel(s.labels, m, label_store', m)
        /\ LabelAt(label_store', s.node).chars = SubSeq(Tail(key), 1, Len(Tail(key)) - 1)
        /\ LabelAt(label_store', s.node).ptr = i.ptr /\ Value(label_store', i.ptr) = 0
    BY <1>10, <1>11, <1>14, <2>1, <2>2 DEF InsertsLabel
  <2>4. PICK D : D = Tree
    OBVIOUS
  <2>5. /\ GrowsBy(D, g, s, y) /\ Carried(g) /\ Labelled(s.labels) = {g[n] : n \in KeyNodes}
        /\ \A n \in NodesIn(D) : g[n] # s.node
    <3>1. Labelled(s.labels) \subseteq Labelled(label_store') /\ hash_trie' = s.trie /\ UNCHANGED codes
      BY <1>1, <2>1, <2>3
    <3>2. pc \in {"step", "branch"} /\ Grown(g, s, y) /\ \A m \in Labelled(s.labels) : SameLabel(s.labels, m, label_store', m)
      BY <1>1, <2>2, <2>3
    <3>3. Carries(D, g, s, y)
      BY <2>4, <3>1, <3>2, GrowthCarries
    <3>. QED  BY <3>3 DEF Carries
  <2>6. SymbMatch(s.node)' = match /\ BranchChar(s.node)' = c
    <3>1. Symb(hash_trie', s.node) = y
      BY <2>1, <2>2 DEF Grown
    <3>2. CharOf' = CharOf
      BY <1>1 DEF CharOf
    <3>. QED  BY <1>6, <3>1, <3>2 DEF SymbMatch, BranchChar
  <2>7. Rest(s.node)' = Tail(key)
    <3>1. s.node # RootId
      BY <1>2, <2>2 DEF Grown
    <3>. QED  BY <1>7, <2>3, <2>6, <3>1, LabelChars DEF Rest
  <2>8. /\ SkippedIn(D, node_id) + match < Len(RestIn(D, BaseIn(D, node_id)))
        /\ RestIn(D, BaseIn(D, node_id))[SkippedIn(D, node_id) + match + 1] # c
    BY <1>2, <2>4, AtMatchFacts, ZenonT(30) DEF AtMatch, Differs
  <2>9. PICK E : /\ Tree' = E /\ Good(E) /\ Place' \in [TrieNodes' -> Places] /\ Moves(D, E, g)
                 /\ NodesIn(E) = {g[n] : n \in NodesIn(D)} \cup {s.node}
                 /\ s.node \in Branches(E) /\ Up(E, s.node) = g[node_id]
                 /\ Off(E, s.node) = match /\ By(E, s.node) = c /\ RestIn(E, s.node) = Tail(key)
    <3>1. PICK c0, m0, r0 : c0 = c /\ m0 = match /\ r0 = Tail(key)
      OBVIOUS
    <3>2. Lambda \in Nat \ {0} /\ GrowsBy(D, g, s, y) /\ c0 \in Chars /\ m0 \in 0 .. Lambda - 1
      BY <1>2, <1>3, <1>4, <2>5, <3>1
    <3>3. y = MakeSymb(c0, m0) /\ y # StepSymb
      BY <1>5, <1>6, <3>1
    <3>4. SymbMatch(s.node)' = m0 /\ BranchChar(s.node)' = c0 /\ Rest(s.node)' = r0
      BY <2>6, <2>7, <3>1
    <3>5. WellEnded(r0) /\ (r0 = <<>>) = (c0 = 0)
      BY <1>7, <3>1
    <3>6. /\ SkippedIn(D, node_id) + m0 < Len(RestIn(D, BaseIn(D, node_id)))
          /\ RestIn(D, BaseIn(D, node_id))[SkippedIn(D, node_id) + m0 + 1] # c0
      BY <2>8, <3>1
    <3>7. \E E : /\ Tree' = E /\ Good(E) /\ Place' \in [TrieNodes' -> Places] /\ Moves(D, E, g)
                 /\ NodesIn(E) = {g[n] : n \in NodesIn(D)} \cup {s.node}
                 /\ s.node \in Branches(E) /\ Up(E, s.node) = g[node_id]
                 /\ Off(E, s.node) = m0 /\ By(E, s.node) = c0 /\ RestIn(E, s.node) = r0
      BY <1>12, <3>2, <3>3, <3>4, <3>5, <3>6, BranchGrows
    <3>. QED  BY <3>1, <3>7
  <2>10. Added(D, E, g, s.node)
    BY <1>2, <2>4, <2>5, <2>9, TreeIs DEF Added
  <2>11. AddedIs(D, E, g, s.node) /\ s.node \notin StepsIn(E) /\ s.node \in Bases(E)
    BY <2>9, <2>10, AddedFacts DEF Branches, Bases
  <2>12. Labelled(label_store') = KeyNodes' /\ s.node \in KeyNodes'
    BY <2>3, <2>5, <2>11 DEF AddedIs
  <2>13. size' = Cardinality(KeyNodes')
    <3>. DEFINE S == {g[n] : n \in Bases(D)}
    <3>1. IsFiniteSet(S) /\ Cardinality(S) = size /\ s.node \notin S /\ KeyNodes' = S \cup {s.node}
      BY <1>2, <2>11 DEF AddedIs
    <3>. HIDE DEF S
    <3>. QED  BY <2>1, <3>1, FS_AddElement
  <2>14. Healthy'
    BY <1>1, <1>3, <1>4, <1>5, <2>1, <2>2, <2>9, <2>10, <2>12, <2>13, HealthyGrown
  <2>15. KeyIn(E, s.node) = call.key
    <3>1. AtMatch(E, call.key, g[node_id], match, key)
      BY <1>2, <2>4, <2>9, WalkMoves
    <3>2. AtLabel(E, call.key, s.node, Tail(key))
      BY <1>2, <2>9, <3>1, BranchTaken
    <3>. QED  BY <1>2, <2>9, <3>2, FoundHere
  <2>16. Walks' /\ Returned'
    BY <2>1, <2>3, <2>9, <2>12, <2>15, ReturnedPointer
  <2>17. Store' = Store \cup {<<call.key, 0>>}
    <3>1. StoredAt(s.node)' = 0
      BY <2>3 DEF StoredAt
    <3>. QED  BY <2>10, <2>11, <2>15, <3>1, BranchStore
  <2>18. \A n \in KeyNodes : KeyIn(Tree, n) # call.key
    <3>1. ASSUME NEW b \in Branches(Tree), Up(Tree, b) = node_id, Off(Tree, b) = match, By(Tree, b) = Head(key)
          PROVE  FALSE
      <4>1. b \in KeyNodes \ {RootId} /\ b \in Nodes(hash_trie) \ {RootId}
        BY <1>2, TreeIs DEF KeyNodes
      <4>2. Parent(hash_trie, b) = node_id /\ SymbMatch(b) = match /\ BranchChar(b) = c
        BY <1>2, <3>1, <4>1, TreeIs
      <4>3. Symb(hash_trie, b) = y
        BY <1>5, <1>12, <4>1, <4>2
      <4>. QED  BY <2>2, <4>1, <4>2, <4>3 DEF Grown
    <3>2. \A b \in Branches(Tree) : ~(Up(Tree, b) = node_id /\ Off(Tree, b) = match /\ By(Tree, b) = Head(key))
      BY <3>1
    <3>. QED  BY <1>2, <3>2, NoBranchNoKey, TreeIs
  <2>19. ret'.kind = "value" /\ RetValue' = 0 /\ call' = call
    BY <2>1, <2>3 DEF Return, Pointer, RetValue
  <2>20. Abstract!Next
    BY <1>2, <2>17, <2>18, <2>19, AnswersAdded
  <2>. QED  BY <2>14, <2>16, <2>20 DEF StepKept, Goes
<1>. QED  BY <1>13, <1>14

\* The first update makes the root and its label.
LEMMA FirstUpdatesStep ==
  ASSUME Setting, MapInv, Inv', PromisesKept, FirstUpdate
  PROVE  StepKept
<1>1. pc = "start" /\ Legal(key) /\ call.op = "update" /\ Size(hash_trie) = 0
  BY DEF FirstUpdate
<1>2. /\ key = call.key /\ call.key \in Key /\ ret = Pending /\ Lambda \in Nat \ {0}
      /\ Labelled(label_store) = KeyNodes /\ size = Cardinality(KeyNodes)
  BY <1>1 DEF MapInv, Walks, Healthy, Setting
<1>3. KeyNodes = {} /\ size = 0
  <2>1. KeyNodes = {}
    BY <1>1 DEF KeyNodes, TrieNodes
  <2>. QED  BY <1>2, <2>1, FS_EmptySet
<1>4. WellEnded(key) /\ key # <<>>
  BY <1>1, <1>2 DEF Setting, Legal
<1>5. PICK i : i = Insert(label_store, RootId, key)
  OBVIOUS
<1>6. hash_trie' = AddRoot(hash_trie) /\ label_store' = i.labels /\ size' = size + 1 /\ Return(Pointer(i.ptr)) /\ is_ready'
  BY <1>5 DEF FirstUpdate, SetUpCodes
<1>7. AddsRoot(hash_trie) /\ InsertsLabel(label_store, RootId, key) /\ RootId \in Nat
  BY <1>1, <1>2, <1>3, <1>4 DEF PromisesKept, FirstKept, NewKept
<1>8. Nodes(hash_trie') = {RootId} /\ Size(hash_trie') # 0 /\ ~NeedsToExpand(hash_trie')
  BY <1>6, <1>7 DEF AddsRoot
<1>9. /\ Labelled(label_store') = {RootId}
      /\ LabelAt(label_store', RootId).chars = SubSeq(key, 1, Len(key) - 1)
      /\ LabelAt(label_store', RootId).ptr = i.ptr /\ Value(label_store', i.ptr) = 0
  BY <1>2, <1>3, <1>5, <1>6, <1>7 DEF InsertsLabel
<1>10. TrieNodes' = {RootId}
  BY <1>8 DEF TrieNodes
<1>11. Rest(RootId)' = key
  BY <1>4, <1>9, LabelChars DEF Rest
<1>12. PICK k : k = key
  OBVIOUS
<1>13. PICK E : /\ Tree' = E /\ Good(E) /\ Place' \in [TrieNodes' -> Places]
                /\ NodesIn(E) = {RootId} /\ Bases(E) = {RootId} /\ KeyIn(E, RootId) = k
  BY <1>2, <1>4, <1>7, <1>10, <1>11, <1>12, RootGrows
<1>14. KeyNodes' = {RootId}
  BY <1>13, NextTreeIs
<1>15. Healthy'
  <2>1. size' = Cardinality(KeyNodes')
    BY <1>3, <1>6, <1>14, FS_Singleton
  <2>2. Symbols'
    BY <1>10 DEF Symbols
  <2>. QED  BY <1>6, <1>8, <1>9, <1>10, <1>13, <1>14, <2>1, <2>2 DEF Healthy
<1>16. Walks' /\ Returned'
  <2>1. RootId \in KeyNodes' /\ KeyIn(E, RootId) = call.key
    BY <1>2, <1>12, <1>13, <1>14
  <2>. QED  BY <1>6, <1>9, <1>13, <2>1, ReturnedPointer
<1>17. Store' = {<<call.key, 0>>} /\ Store = {}
  <2>1. (Store = Pairs)'
    BY StoreIs, PTL
  <2>2. KeyIn(Tree, RootId)' = call.key
    BY <1>2, <1>12, <1>13 DEF KeyIn, PathIn, RestIn
  <2>3. StoredAt(RootId)' = 0
    BY <1>9 DEF StoredAt
  <2>4. Store' = {<<call.key, 0>>}
    BY <1>14, <2>1, <2>2, <2>3 DEF Pairs
  <2>. QED  BY <1>3, <2>4 DEF Store
<1>18. ret'.kind = "value" /\ RetValue' = 0 /\ call' = call
  BY <1>6, <1>9 DEF Return, Pointer, RetValue
<1>19. Abstract!Next
  BY <1>1, <1>2, <1>3, <1>17, <1>18, AnswersAdded
<1>. QED  BY <1>15, <1>16, <1>19 DEF StepKept, Goes

----------------------------------------------------------------------------
\* Every step keeps the invariant and is a step of the array or none.
LEMMA MapStep ==
  ASSUME Setting, MapInv, PromisesKept, [Next]_vars
  PROVE  MapInv' /\ Goes
<1>1. Inv'
  BY InvStep
<1>2. StepKept
  <2>1. ASSUME NEW op \in {"find", "update"}, NEW k \in Key, Call(op, k) PROVE StepKept
    BY <1>1, <2>1, CallStep
  <2>2. ASSUME NEW v \in UNION {ValueOf(k) : k \in Key}, Assign(v) PROVE StepKept
    BY <1>1, <2>2, AssignStep
  <2>3. CASE Refuse
    BY <1>1, <2>3, RefuseStep
  <2>4. CASE FindNothing
    BY <1>1, <2>4, FindNothingStep
  <2>5. CASE FirstUpdate
    BY <1>1, <2>5, FirstUpdatesStep
  <2>6. CASE Descend
    BY <1>1, <2>6, DescendStep
  <2>7. CASE Match
    BY <1>1, <2>7, MatchStep
  <2>8. CASE FindStep
    BY <1>1, <2>8, FindStepStep
  <2>9. CASE FindBranch
    BY <1>1, <2>9, FindBranchStep
  <2>10. CASE UpdateStep
    BY <1>1, <2>10, UpdatesStep
  <2>11. CASE Encode
    BY <1>1, <2>11, EncodesStep
  <2>12. CASE UpdateBranch
    BY <1>1, <2>12, UpdatesBranch
  <2>13. CASE UNCHANGED vars
    BY <1>1, <2>13, StutterStep
  <2>. QED  BY <2>1, <2>2, <2>3, <2>4, <2>5, <2>6, <2>7, <2>8, <2>9, <2>10, <2>11, <2>12, <2>13 DEF Next, Running
<1>. QED  BY <1>1, <1>2 DEF StepKept, MapInv

\* The invariant always holds, with promises that are always kept.
LEMMA MapInvAlways ==
  ASSUME Setting
  PROVE  Spec /\ []PromisesKept => []MapInv
<1>1. Init /\ PromisesKept => MapInv
  BY MapInitial
<1>2. MapInv /\ PromisesKept /\ [Next]_vars => MapInv'
  BY MapStep
<1>. QED  BY <1>1, <1>2, PTL DEF Spec

----------------------------------------------------------------------------
\* The types of all variables, and that a walk compares with labels of nodes of
\* the trie only and stops before the end of its key,
LEMMA TypesSaid ==
  ASSUME Setting, MapInv, PromisesKept
  PROVE  TypeOK
<1>1. /\ is_ready \in BOOLEAN /\ codes \in [Chars -> 0 .. CodeMax] /\ num_codes \in Nat /\ KeyInv
  BY DEF MapInv, Inv, CodeInv
<1>2. size \in Nat
  <2>1. IsFiniteSet(NodesIn(Tree)) /\ KeyNodes \subseteq NodesIn(Tree)
    BY TreeIs DEF MapInv, Healthy, Good, IsTree, KeyNodes
  <2>. QED  BY <2>1, FS_Subset, FS_CardinalityType DEF MapInv, Healthy
<1>3. pc \in {"idle", "start", "compare", "step", "branch"} /\ match \in Nat /\ (pc = "branch" => match < Lambda)
  BY DEF MapInv, Walks
<1>4. pc = "compare" => node_id \in KeyNodes
  BY TreeIs DEF MapInv, Walks, AtLabel
<1>5. pc \in {"step", "branch"} => node_id \in TrieNodes
  BY TreeIs DEF MapInv, Walks, AtMatch
<1>6. MatchInKey /\ KeyLeft
  BY <1>1, CompareStops, KeyInvLeft
<1>7. ret.kind \in {"null", "thrown", "pending", "value"}
  BY DEF MapInv, Returned, Null, Thrown, Pending, Pointer
<1>8. ret.kind = "value" => ret.ptr \in {LabelAt(label_store, n).ptr : n \in KeyNodes}
  BY DEF MapInv, Returned
<1>. QED  BY <1>1, <1>2, <1>3, <1>4, <1>5, <1>6, <1>7, <1>8 DEF TypeOK

\* that every child branches off inside its parent's label, with another
\* character than the label has there,
LEMMA BranchesSaid ==
  ASSUME Setting, MapInv
  PROVE  BranchesDiffer
<1>. SUFFICES ASSUME MapInv, NEW n \in KeyNodes \ {RootId}
              PROVE  /\ BranchMatch(n) < Len(Rest(Above(n)))
                     /\ Rest(Above(n))[BranchMatch(n) + 1] # BranchChar(n)
  BY DEF BranchesDiffer
<1>1. Good(Tree) /\ n \in TrieNodes \ {RootId} /\ n \in Branches(Tree)
  BY TreeIs DEF MapInv, Healthy, KeyNodes
<1>2. Up(Tree, n) = Parent(hash_trie, n) /\ Up(Tree, n) \in TrieNodes
  BY <1>1, TreeIs DEF Good, IsTree
<1>3. Under(Tree, n) = Above(n) /\ At(Tree, n) = BranchMatch(n) /\ By(Tree, n) = BranchChar(n)
  BY <1>2, TreeIs DEF Under, At, Above, BranchMatch
<1>4. Under(Tree, n) \in KeyNodes
  BY <1>1, <1>2, NodePlace, TreeIs DEF Under
<1>5. RestIn(Tree, Under(Tree, n)) = Rest(Above(n))
  BY <1>3, <1>4, TreeIs
<1>6. OffAt(Tree, n)
  BY <1>1 DEF Good, BranchesOff
<1>. QED  BY <1>3, <1>5, <1>6 DEF OffAt

\* and that no key has two nodes, follow from the invariant.
LEMMA SizeSaid ==
  ASSUME Setting, MapInv
  PROVE  SizeIsKeys
<1>1. Good(Tree) /\ size = Cardinality(KeyNodes) /\ Lambda \in Nat \ {0}
  BY DEF MapInv, Healthy, Setting
<1>2. IsFiniteSet(KeyNodes)
  <2>1. IsFiniteSet(NodesIn(Tree)) /\ KeyNodes \subseteq NodesIn(Tree)
    BY <1>1, TreeIs DEF Good, IsTree, KeyNodes
  <2>. QED  BY <2>1, FS_Subset
<1>3. PICK g : g = [n \in KeyNodes |-> KeyAt(n)]
  OBVIOUS
<1>4. \A m, n \in KeyNodes : g[m] = g[n] => m = n
  BY <1>1, <1>3, KeyAtIs, KeysDiffer, TreeIs
<1>5. {g[n] : n \in KeyNodes} = {KeyAt(n) : n \in KeyNodes}
  BY <1>3
<1>. QED  BY <1>1, <1>2, <1>4, <1>5, SameCount DEF SizeIsKeys

\* So does what is said of the labels.
LEMMA MapInvSays ==
  ASSUME Setting, MapInv, PromisesKept
  PROVE  TypeOK /\ LabelsFollowNodes /\ BranchesDiffer /\ SizeIsKeys
BY TypesSaid, BranchesSaid, SizeSaid DEF MapInv, Healthy, LabelsFollowNodes

\* A new object is the empty array.
LEMMA ArrayInitial ==
  ASSUME Setting, Init, PromisesKept
  PROVE  Abstract!Init
<1>1. hash_trie = EmptyTrie /\ call = [op |-> "none", key |-> <<>>] /\ ret = Null
  BY DEF Init
<1>2. Store = {}
  <2>1. KeyNodes = {}
    BY <1>1 DEF PromisesKept, NewKept, TrieNodes, KeyNodes
  <2>. QED  BY <2>1 DEF Store
<1>. QED  BY <1>1, <1>2 DEF Abstract!Init, Abstract!NoCall, Abstract!Null, Abstract!Answer, Null, RetValue

\* The types of all variables: for every trie and all labels that keep their
\* promises.
THEOREM TypesCorrect ==
  ASSUME Setting
  PROVE  Spec /\ []PromisesKept => []TypeOK
<1>1. MapInv /\ PromisesKept => TypeOK
  BY MapInvSays
<1>. QED  BY <1>1, MapInvAlways, PTL

\* Exactly the nodes that stand for a key have a label, whenever and however
\* often the table grows.
THEOREM LabelsFollow ==
  ASSUME Setting
  PROVE  Spec /\ []PromisesKept => []LabelsFollowNodes
<1>1. MapInv /\ PromisesKept => LabelsFollowNodes
  BY MapInvSays
<1>. QED  BY <1>1, MapInvAlways, PTL

\* Every child branches off inside its parent's label, with another character
\* than the label has there.
THEOREM BranchesCorrect ==
  ASSUME Setting
  PROVE  Spec /\ []PromisesKept => []BranchesDiffer
<1>1. MapInv /\ PromisesKept => BranchesDiffer
  BY MapInvSays
<1>. QED  BY <1>1, MapInvAlways, PTL

\* size() is the number of keys, and no key has two nodes.
THEOREM SizeCorrect ==
  ASSUME Setting
  PROVE  Spec /\ []PromisesKept => []SizeIsKeys
<1>1. MapInv /\ PromisesKept => SizeIsKeys
  BY MapInvSays
<1>. QED  BY <1>1, MapInvAlways, PTL

\* The map is the associative array that its users are promised, for every trie
\* and all labels that keep their promises: each step of a call is a step of the
\* associative array or changes nothing of it.
THEOREM MapImplements ==
  ASSUME Setting
  PROVE  Spec /\ []PromisesKept => ImplementsAssocArray
<1>1. Init /\ PromisesKept => Abstract!Init
  BY ArrayInitial
<1>2. MapInv /\ PromisesKept /\ [Next]_vars => [Abstract!Next]_(Abstract!vars)
  BY MapStep DEF Goes
<1>. QED  BY <1>1, <1>2, MapInvAlways, PTL DEF Spec, ImplementsAssocArray, Abstract!Spec
=============================================================================
