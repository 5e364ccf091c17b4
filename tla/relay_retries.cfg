SPECIFICATION Spec
CONSTANTS
  Jobs = {a}
  MaxStages = 2
  Foreign = {}
  Retries = {2}
  MaxFaults = 0
INVARIANT RetriesAsDocumented
CHECK_DEADLOCK FALSE
