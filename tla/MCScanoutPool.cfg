SPECIFICATION Spec
CONSTANTS
  Sizes = {"fhd", "hd", "portrait"}
  Clocks = {"60"}
  UserFlags = {"interlace"}
  PrivateFlags = {"3d"}
  Portrait = {"portrait"}
  DerivedClock = "60"
  Connectors <- MCConnectors
  Bytes <- MCBytes
  None = None
  MaxRefusals = 2
INVARIANTS
  ScanoutIsLive
  PlanFitsPool
  KeyFollowsSlot
  NoOrphanSlot
  ObjectsAccounted
  FailedStaysFailed
  EveryCheckIsPlanned
PROPERTIES
  ImplementsContract
CHECK_DEADLOCK FALSE
