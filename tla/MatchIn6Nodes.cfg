SPECIFICATION Spec
CONSTANTS
  WordBits = 4
  ShiftWraps = FALSE
  Prefix <- MCPrefix
  MaxClients = 3
  MaxOffset = 14
INVARIANT MatchIn6Nodes
CHECK_DEADLOCK FALSE
