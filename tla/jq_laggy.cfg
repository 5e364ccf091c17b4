SPECIFICATION LiveSpec
CONSTANTS
  Jobs = {uniq}
  Unique = {uniq}
  Workers = {w1, w2}
  Punctual = {}
  Runs = {r1, r2}
  None = None
  Retries = {2}
  RemoveOnSuccess = TRUE
  HasTimeout = TRUE
  StallInterval = 1
  Latency = 0
  CheckLag = 0
  Outcomes = {"resolve", "reject", "throw"}
  PeriodicCheck = TRUE
  ApiCalls = {"retry", "remove", "destroy"}
  Careful = FALSE
  Faults = {"crash", "fetch", "finish", "check"}
  MaxFaults = 2
  MaxWaiting = 1
INVARIANTS
  NoJobLost
  StallingAreActive
PROPERTY EveryJobEnds
CHECK_DEADLOCK FALSE
