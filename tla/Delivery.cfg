SPECIFICATION Spec
CONSTANTS
  a = a
  b = b
  n1 = n1
  n2 = n2
  u1 = u1
  u2 = u2
  None = None
  Instance <- Pair
  Claims <- PairClaims
  Request <- AllRequests
  ClockOffset <- NoOffset
  NodeName = {n1}
  NodeUID = {u1}
  Sizes = {1}
  MaxNodeObjects = 1
  MaxProbes = 1
  MaxAgents = 1
  MaxRetired = 1
  RetiredTTL = 1
  MaxSnapshotAge = 1
  MaxFutureSkew = 1
  InventoryTTL = 1
  MaxNodes = 1
  MaxContainers = 2
  MaxClock = 1
  MaxEpoch = 2
  MaxScans <- PairScans
INVARIANTS
  IngestionTypeOK
  AckedWasStored
PROPERTIES
  StoredApart
CHECK_DEADLOCK FALSE
