\* The empty string, registered after another key.
SPECIFICATION Spec
CONSTANTS
  Kind = {"plain_fkhash"}
  Lambda = 2
  CodeMax = 4
  Chars = {0, 1, 2}
  Key <- EmptyStringKey
  ValueOf <- MCValueOf
  MayThrow = TRUE
  MinCapa = 4
  MaxFactor = 60
  SymbSize = 10
  ValueSize = 2
  ChunkSize = 2
  ByteBase = 4
  Words = 3
  Hash <- MCHash
  Capas = {4, 8, 16}
  Dsp1Mask = 1
  Dsp2Mask = 1
  Permutation <- MCPermutation
  PermutationInv <- MCPermutationInv
INVARIANTS
  KeyNotZero
