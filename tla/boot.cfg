SPECIFICATION LiveSpec
INVARIANTS
  TypeOK
  OneAnswer
  MountedWithAll
PROPERTIES
  ErrorOnlyUnmounted
  Answered
CHECK_DEADLOCK FALSE
