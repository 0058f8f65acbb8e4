SPECIFICATION Spec
CONSTANTS
  WordBits = 4
  ShiftWraps = TRUE
  MaxPort = 3
  Entry <- MCEntry
  Prefix <- MCPrefix
  Source <- MCSource
  PerClient = {0, 2, 3}
  Index = {0, 1, 2, 3}
  MaxEntries = 2
  MaxClients = 2
INVARIANTS
  FirstMaskServed
