SPECIFICATION Spec
CONSTANTS
  MaxConcurrency = 3
  MaxJobs = 9
  MaxDisconnects = 0
  MaxFetchErrors = 0
  MaxStuck = 0
INVARIANT RunningWithinConcurrency
CHECK_DEADLOCK FALSE
