\* Tables of 2, 4, 8 and 16 slots: three expansions.
SPECIFICATION Spec
CONSTANTS
  MinCapa = 2
  MaxFactor = 50
  Key = {1, 2, 3, 4}
  Value = {1, 2}
  Hash <- MCHash
  MaxCapa = 16
INVARIANTS
  CallsTerminate
  SizesAgree
  GetCorrect
  IndInv
PROPERTIES
  SetTellsNew
