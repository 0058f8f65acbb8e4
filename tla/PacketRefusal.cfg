SPECIFICATION Spec
CONSTANTS
  WordBits = 16
  ShiftWraps = TRUE
  LittleEndian = TRUE
  MaxPort = 256
  Entry <- MCEntry
  Prefix <- MCPrefix
  Source <- MCSource
  MaxEntries = 7
  MaxClients = 8
  MaxFailures = 2
INVARIANTS
  PacketRefusalReported
