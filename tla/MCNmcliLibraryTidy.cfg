SPECIFICATION FairSpec
CHECK_DEADLOCK FALSE
CONSTANTS
  Vectors <- TidyVectors
  MaxCalls = 2
  MaxSignals = 0
  Terminal = TRUE
INVARIANTS NothingLeftBehind OptionsAreOwn
PROPERTIES EveryCallReturns
