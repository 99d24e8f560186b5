SPECIFICATION FairSpec
CHECK_DEADLOCK FALSE
CONSTANTS
  Tables <- MCTables
  Nums = {0, 1, 2}
  Searches <- MCSearches
  MaxString = 4
  CharSigned = TRUE
INVARIANTS
  ReadsInTable DeliveredComplete
  StringsInStructure FindsFirst
PROPERTIES WalkReturns
