SPECIFICATION Spec
CONSTANTS
  WordBits = 4
  ShiftWraps = FALSE
  Prefix <- MCPrefix
  MaxClients = 3
  MaxOffset = 14
INVARIANTS
  TypeOK
  CountsAgree
  NoneRepeated
PROPERTIES
  Rotates
  Returns
CHECK_DEADLOCK FALSE
