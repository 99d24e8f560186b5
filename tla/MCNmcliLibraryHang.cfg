SPECIFICATION FairSpec
CHECK_DEADLOCK FALSE
CONSTANTS
  Vectors <- HangVectors
  MaxCalls = 3
  MaxSignals = 0
  Terminal = FALSE
PROPERTY EveryCallReturns
