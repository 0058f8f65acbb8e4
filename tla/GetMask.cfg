SPECIFICATION Spec
CONSTANTS
  WordBits = 4
  ShiftWraps = TRUE
  MaxPort = 3
  Entry <- MCEntry
  Prefix <- MCPrefix
  Source <- MCSource
  PerClient = {0, 1, 2}
  MaxEntries = 3
  MaxClients = 3
INVARIANTS
  TypeOK
  GrantsCurrent
  Exclusive
  Stable
  DynamicOnce
  OneMaskIsAssigned
  ServedWhenEnough
  AlignedFound
  GrantedToWalker
