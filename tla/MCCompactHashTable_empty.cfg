\* The owner may clone a table that holds nothing.
SPECIFICATION FairSpec
CONSTANTS
  Univ = 16
  MinCapa = 4
  MaxFactor = 80
  ValMask = 3
  Hash <- MCHash
  HashInv <- MCHashInv
  KeysUsed = {0, 1}
  Value <- MCValue
  MaxCapa = 8
  MayCloneEmpty = TRUE
PROPERTIES
  CloneReturns
