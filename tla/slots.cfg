SPECIFICATION LiveSpec
CONSTANTS
  MaxConcurrency = 3
  MaxJobs = 4
  MaxDisconnects = 3
  MaxFetchErrors = 2
  MaxStuck = 1
INVARIANTS
  TypeOK
  QueuedAccounting
  NeverIdle
  SerialUpToTwo
PROPERTY JobsAreTaken
CHECK_DEADLOCK FALSE
