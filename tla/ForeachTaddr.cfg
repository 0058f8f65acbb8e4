SPECIFICATION Spec
CONSTANTS
  WordBits = 3
  ShiftWraps = TRUE
  MaxPort = 3
  Entry <- MCEntry
  MaxEntries = 3
  MaxOffset = 7
INVARIANTS
  TypeOK
  IndexIsRank
  TrapsOnlyUncounted
PROPERTIES
  Rotates
  Returns
CHECK_DEADLOCK FALSE
