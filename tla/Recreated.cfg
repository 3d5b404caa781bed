SPECIFICATION Spec
CONSTANTS
  a = a
  b = b
  n1 = n1
  n2 = n2
  u1 = u1
  u2 = u2
  None = None
  Instance <- Pair
  Claims <- RecreatedClaims
  Request <- AllRequests
  ClockOffset <- NoOffset
  NodeName = {n1}
  NodeUID = {u1, u2}
  Sizes = {1}
  MaxNodeObjects = 2
  MaxProbes = 2
  MaxAgents = 1
  MaxRetired = 1
  RetiredTTL = 2
  MaxSnapshotAge = 1
  MaxFutureSkew = 1
  InventoryTTL = 1
  MaxNodes = 1
  MaxContainers = 2
  MaxClock = 1
  MaxEpoch = 1
  MaxScans <- OneScan
INVARIANT
  RecordsMatchInventory
CHECK_DEADLOCK FALSE
