SPECIFICATION Spec
CONSTANTS
  Jobs = {plain, uniq}
  Unique = {uniq}
  Workers = {w1, w2}
  Punctual = {w1, w2}
  Runs = {r1, r2}
  None = None
  Retries = {0, 3}
  RemoveOnSuccess = FALSE
  HasTimeout = TRUE
  StallInterval = 7
  Latency = 1
  CheckLag = 1
  Outcomes = {"resolve", "reject", "rejectNothing", "throw", "noHandler", "noName"}
  PeriodicCheck = TRUE
  ApiCalls = {"retry", "remove", "destroy"}
  Careful = TRUE
  Faults = {"crash", "fetch", "finish", "check"}
  MaxFaults = 2
  MaxWaiting = 3
SYMMETRY Symmetry
INVARIANTS
  TypeOK
  KeepaliveBeatsCheck
  OneRunPerJob
  OnePlacePerJob
  NoDanglingId
  RetryBudget
PROPERTIES
  PunctualNeverReset
  KeepsLifecycle
CHECK_DEADLOCK FALSE
