\* Tables of 4, 8 and 16 slots, and chunks of two labels.  The second letter
\* met at a branch takes the last code: update throws once.
SPECIFICATION FairSpec
CONSTANTS
  Kind = {"plain_bonsai", "semi_compact_bonsai", "compact_bonsai",
          "plain_fkhash", "semi_compact_fkhash", "compact_fkhash"}
  Lambda = 2
  CodeMax = 3
  Chars = {0, 1, 2}
  Key <- GrowingKey
  ValueOf <- MCValueOf
  MayThrow = TRUE
  MinCapa = 4
  MaxFactor = 60
  SymbSize = 8
  ValueSize = 2
  ChunkSize = 2
  ByteBase = 4
  Words = 3
  Hash <- MCHash
  Capas = {4, 8, 16}
  Dsp1Mask = 1
  Dsp2Mask = 1
  Permutation <- MCPermutation
  PermutationInv <- MCPermutationInv
INVARIANTS
  TypeOK
  LabelsFollowNodes
  BranchesDiffer
  CodesDiffer
  SizeIsKeys
  LabelsExact
  PromisesKept
PROPERTIES
  CallsReturn
  ImplementsAssocArray
