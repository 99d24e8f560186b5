CONSTANTS
  None = None
  a1 = a1
  a2 = a2
  a3 = a3
  c1 = c1
  c2 = c2
  Agents <- MCAgents
  Connections <- MCConnections
  Owner <- MCOwner
  Identifier <- MCIdentifier
  Privileged = {c1}
  MaxRequests = 2
  Kinds <- MCKinds
  Ranks <- MCRanks
SPECIFICATION FairSpec
CHECK_DEADLOCK FALSE
INVARIANTS CalledBackOnce WaitsForOneThing SystemSecretsStay RequestsTrackAgents
PROPERTY EveryRequestEnds
