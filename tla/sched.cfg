SPECIFICATION LiveSpec
CONSTANTS
  Nodes = {n1, n2}
  n1 = n1
  n2 = n2
  LoopDelay = 3
  IdleDelay = 5
  HasSchedules = TRUE
  StallAfter = 1
  LockExpire = 5
  MaxRand = 1
  Forced = FALSE
  MaxBreaks = 1
  MaxSent = 2
INVARIANTS
  TypeOK
  LoopGoesOn
PROPERTIES
  LockGap
  SomeoneRuns
