CONSTANTS
  MaxRequests = 3
  MaxScripts = 2
  ScriptLists <- WaitingLists
  Persist = FALSE
  NoRequest = NoRequest
SPECIFICATION FairSpec
CHECK_DEADLOCK FALSE
PROPERTIES ImplementsService IdlesOut EveryRequestAnswered
INVARIANTS
  NoAssertionFails
  WaitScriptsSerialised
  RepliesOnceWhenOver
  NoRequestStranded
