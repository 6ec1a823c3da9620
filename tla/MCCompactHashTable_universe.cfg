\* A universe of 4 keys, and a table of 4 slots.
SPECIFICATION Spec
CONSTANTS
  Univ = 4
  MinCapa = 4
  MaxFactor = 80
  ValMask = 3
  Hash <- SmallHash
  HashInv <- SmallHashInv
  KeysUsed = {0, 1, 2, 3}
  Value <- MCValue
  MaxCapa = 8
  MayCloneEmpty = FALSE
INVARIANTS
  CapacityInUniverse
