SPECIFICATION FairSpec
CONSTANTS
  Workers = {w1, w2}
  Nobody = Nobody
  NoFile = NoFile
  Sources = {"child"}
  SourceIds = {"civic", "geo"}
  Stamps = {0, 1, 2, 3}
  Zoneless = {3}
  Requests <- PlainAndDelete
  AmsFiles <- NoFiles
  RootAMS = FALSE
  ReadErrors = FALSE
  SaveErrors = FALSE
  CoarseMtime = FALSE
  Up0 = {w1, w2}
  MaxWrites = 3
  MaxBoots = 0
  MaxReloads = 0
INVARIANTS
  KeysUnique
  StaleMemoryIsNoticed
PROPERTIES
  StampsNeverRegress
  WorkersConverge
  WritesEnd
CHECK_DEADLOCK FALSE
