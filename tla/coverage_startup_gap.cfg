SPECIFICATION FairSpec
CONSTANTS
  Workers = {w1, w2}
  Nobody = Nobody
  NoFile = NoFile
  Sources = {"child"}
  SourceIds = {"civic", "geo"}
  Stamps = {0, 1, 2, 3}
  Zoneless = {3}
  Requests <- PlainAndDelete
  AmsFiles <- NoFiles
  RootAMS = FALSE
  ReadErrors = FALSE
  SaveErrors = FALSE
  CoarseMtime = FALSE
  Up0 = {w1}
  MaxWrites = 1
  MaxBoots = 1
  MaxReloads = 0
PROPERTIES
  WorkersConverge
CHECK_DEADLOCK FALSE
