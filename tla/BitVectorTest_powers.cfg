\* The numbers 2, 3, 5 and 6 as words of three bits.
SPECIFICATION Spec
CONSTANTS
  W = 3
  Number = {{1}, {0, 1}, {0, 2}, {1, 2}}
  MaxNumbers = 3
INVARIANTS
  ReadsBack
CHECK_DEADLOCK FALSE
