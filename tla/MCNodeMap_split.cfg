\* Words of 3 bits and fields of 2, so that fields lie in one word, at its end
\* and in two; ids of 2 bits fit a field, those of 3 are split.
SPECIFICATION Spec
CONSTANTS
  W = 3
  Capa = 4
  Width = 2
  IdBits = {2, 3}
PROPERTIES
  ImplementsSlotMap
CHECK_DEADLOCK FALSE
