SPECIFICATION LiveSpec
CONSTANTS
  Jobs = {plain}
  Unique = {}
  Workers = {w1, w2}
  Punctual = {w1, w2}
  Runs = {r1, r2}
  None = None
  Retries = {0, 2}
  RemoveOnSuccess = TRUE
  HasTimeout = TRUE
  StallInterval = 2
  Latency = 0
  CheckLag = 0
  Outcomes = {"resolve", "reject", "throw"}
  PeriodicCheck = FALSE
  ApiCalls = {}
  Careful = TRUE
  Faults = {"crash"}
  MaxFaults = 1
  MaxWaiting = 3
PROPERTY StalledIsReset
CHECK_DEADLOCK FALSE
