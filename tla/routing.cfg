SPECIFICATION FairSpec
CONSTANTS
  None = None
  NoServer = NoServer
  NoWhere = NoWhere
  a = a
  b = b
  c = c
  u1 = u1
  u2 = u2
  u3 = u3
  Nodes <- MCNodes
  Uris <- MCUris
  Setups <- MCSetups
  Queries <- MCQueries
  Slots = 1
  MaxFollows = 2
  MaxFaults = 1
INVARIANTS
  RouteInv
  ForwardedOnce
  PathTellsRoute
  ReachesCoverer
PROPERTIES
  ChainEnds
CHECK_DEADLOCK FALSE
