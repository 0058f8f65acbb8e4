SPECIFICATION Spec
CONSTANTS
  WordBits = 5
  ShiftWraps = TRUE
  MaxPort = 3
  Entry <- MCEntry
  Prefix <- MCPrefix
  PageSize = 2
  MaxEntries = 4
  MaxEdits = 2
INVARIANTS
  TypeOK
  NothingMissed
  EsrchMeansRemoved
  NothingRepeated
PROPERTIES
  ListingEnds
CHECK_DEADLOCK FALSE
