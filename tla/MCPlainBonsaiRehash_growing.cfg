\* Tables of 4, 8 and 16 slots, half full at most: two expansions.
SPECIFICATION FairSpec
CONSTANTS
  MinCapa = 4
  MaxFactor = 50
  SymbSize = 2
  Words = 3
  Hash <- MCHash
  MaxCapa = 16
  MaxNodes = 7
INVARIANTS
  TypeOK
  Findable
  CallsTerminate
  NodeMapSound
  IndInv
PROPERTIES
  ExpandReturns
  ImplementsDynamicTrie
