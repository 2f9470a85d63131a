SPECIFICATION FairSpec
CONSTANTS
  None = None
  w1 = w1
  w2 = w2
  Workers <- MCWorkers
  Configs <- MCConfigs
  SyncOps = {"sync"}
  MaxFaults = 4
INVARIANTS
  OneLeader
  PortsFree
  QuietAfterStop
PROPERTY
  SingletonsRun
CHECK_DEADLOCK FALSE
