SPECIFICATION Spec
CHECK_DEADLOCK FALSE
CONSTANTS
  Vectors <- LeavingVectors
  MaxCalls = 2
  MaxSignals = 1
  Terminal = TRUE
INVARIANTS TypeOK LeavesOnlyItsTimeout HandlerRunsOnce
