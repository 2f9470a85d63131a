SPECIFICATION FairSpec
CONSTANTS
  leaf = leaf
  mid = mid
  top = top
  Nodes = {leaf, mid, top}
  Role <- ForestRole
  Upstream <- MCUpstream
  Kids <- ForestKids
  Nobody = Nobody
  Starting = {}
  MaxEdits = 1
  MaxReloads = 1
  MaxCrashes = 1
  MaxLosses = 1
INVARIANTS AsRecentAsStamped PushedWhenDone OnlyDeclaredCoverage
PROPERTIES CoverageNeverGoesBack StartupSyncCompletes
CHECK_DEADLOCK FALSE
