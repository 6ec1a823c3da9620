\* Tables of 4, 8 and 16 slots in a universe of 16 keys, 80 percent full at most.
SPECIFICATION FairSpec
CONSTANTS
  Univ = 16
  MinCapa = 4
  MaxFactor = 80
  ValMask = 3
  Hash <- MCHash
  HashInv <- MCHashInv
  KeysUsed = {0, 1, 2, 3, 9, 10}
  Value <- MCValue
  MaxCapa = 16
  MayCloneEmpty = FALSE
INVARIANTS
  TypeOK
  BitsConsistent
  CopyExact
  GetCorrect
PROPERTIES
  CloneReturns
