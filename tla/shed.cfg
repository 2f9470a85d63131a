SPECIFICATION FairSpec
CONSTANTS
  None = None
  Unknown = Unknown
  Sources = {s1, s2}
  RateLimit = 2
  Window = 2
  MaxRequests = 2
  PruneEvery = 3
  PruneSize = 1
  Trip = 4
  Clear = 5
  Grace = 2
  GisWatcher = TRUE
INVARIANTS
  SlidingWindow
  LimiterInv
PROPERTIES
  StaleSourcesDropped
  TripJustified
  SheddingShows
  QuietIsNormal
