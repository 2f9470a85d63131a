SPECIFICATION FairSpec
CONSTANTS
  None = None
  BoundaryLayers <- MCBoundaryLayers
  Services <- MCServices
  Serves <- MCServes
  MaxVersion = 2
  MaxMisses = 2
  MaxFailures = 1
  MaxCrashes = 1
INVARIANTS
  DerivedFromLayers
  ReloadInv
PROPERTIES
  OneLoad
  CatchesUp
CHECK_DEADLOCK FALSE
