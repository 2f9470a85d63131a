SPECIFICATION Spec
CONSTANTS
  Hierarchy <- MCHierarchy
  AlwaysUnchecked = {"dt"}
  RclUnchecked = {"site"}
  NullUnchecked = {"pc"}
  Key = {"a1", "a2"}
  Admin = {"a1", "a2", "a3", "a4"}
  Required = {"a1", "a2", "rd", "hno"}
  Hno = "hno"
  Null = Null
  Empty = Empty
  NotNumber = NotNumber
  NoAnswer = NoAnswer
  SSAP <- MCSSAP
  RCL <- MCRCL
  Boundaries <- MCBoundaries
  Region <- MCRegion
  Queries <- MCQueries
INVARIANT RedirectsOutside
CHECK_DEADLOCK FALSE
