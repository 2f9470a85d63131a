SPECIFICATION Spec
CONSTANTS
  None = None
  w1 = w1
  w2 = w2
  Workers <- MCWorkers
  Configs <- MCConfigs
  SyncOps = {"sync"}
  MaxFaults = 4
INVARIANTS
  ShutdownEndsStartup
CHECK_DEADLOCK FALSE
