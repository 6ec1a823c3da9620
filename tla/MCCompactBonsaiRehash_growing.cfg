\* Tables of 4, 8 and 16 slots: two expansions.  A displacement of 1 or 2 fits into
\* the slot, 3 into aux_cht_, and a longer one goes to aux_map_.
SPECIFICATION Spec
CONSTANTS
  Capas = {4, 8, 16}
  MinCapa = 4
  MaxFactor = 90
  SymbSize = 2
  Dsp1Mask = 3
  Dsp2Mask = 1
  Hash <- MCHash
  HashInv <- MCHashInv
  MaxNodes = 7
INVARIANTS
  TypeOK
  Findable
  DisplacementsKept
  NodeMapSound
  NothingLost
  IndInv
PROPERTIES
  ImplementsDynamicTrie
