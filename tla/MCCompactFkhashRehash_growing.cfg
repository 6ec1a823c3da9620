\* Tables of 4, 8 and 16 slots: two expansions.  A displacement of 0 fits into
\* the slot, 1 into aux_cht_, and a longer one goes to aux_map_.
SPECIFICATION Spec
CONSTANTS
  Capas = {4, 8, 16}
  MinCapa = 4
  MaxFactor = 80
  SymbSize = 2
  Dsp1Mask = 1
  Dsp2Mask = 1
  Hash <- MCHash
  HashInv <- MCHashInv
  MaxNodes = 7
INVARIANTS
  TypeOK
  Findable
  CallsTerminate
  IdsKept
  IndInv
PROPERTIES
  ImplementsStableTrie
