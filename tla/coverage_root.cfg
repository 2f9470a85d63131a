SPECIFICATION Spec
CONSTANTS
  Workers = {w1, w2}
  Nobody = Nobody
  NoFile = NoFile
  Sources = {"child", "root"}
  SourceIds = {"civic", "geo"}
  Stamps = {0, 1, 2}
  Zoneless = {1}
  Requests <- RootRequests
  AmsFiles <- RootFile
  RootAMS = TRUE
  ReadErrors = TRUE
  SaveErrors = TRUE
  CoarseMtime = TRUE
  Up0 = {}
  MaxWrites = 2
  MaxBoots = 2
  MaxReloads = 1
INVARIANTS
  WriterInv
  ProvisioningInMemory
PROPERTY SerialWrites
CHECK_DEADLOCK FALSE
