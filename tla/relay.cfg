SPECIFICATION LiveSpec
CONSTANTS
  Jobs = {a, b}
  MaxStages = 3
  Foreign = {3}
  Retries = {0, 2}
  MaxFaults = 1
INVARIANTS
  TypeOK
  EachFailureTakesAStage
  ToldOfTheLastStage
PROPERTIES
  LastStageEnds
  KeepsLifecycle
CHECK_DEADLOCK FALSE
