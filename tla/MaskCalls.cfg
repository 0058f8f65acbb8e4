SPECIFICATION CallsSpec
CONSTANTS
  WordBits = 4
  ShiftWraps = TRUE
  MaxPort = 3
  Entry <- MCEntry
  Prefix <- MCPrefix
  Source <- MCSource
  PerClient = {0, 1, 3}
  Index = {0, 2, 4}
  MaxEntries = 2
  MaxClients = 2
INVARIANTS
  FrameOK
  CountersAgree
  NthAgrees
PROPERTIES
  AssignsMasks
  CallsReturn
