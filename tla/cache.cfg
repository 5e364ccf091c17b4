SPECIFICATION LiveSpec
CONSTANTS
  Procs = {p1, p2}
  Bypassers = {p1}
  MaxVersion = 2
  Empty = {2}
  Scaled = TRUE
  Faults = {"read", "set", "del", "query", "down"}
  MaxFaults = 1
INVARIANTS
  TypeOK
  StaleOnlyByRace
PROPERTIES
  EventuallyFresh
  Settles
