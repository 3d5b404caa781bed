SPECIFICATION Spec
CONSTANTS
  a = a
  b = b
  n1 = n1
  n2 = n2
  u1 = u1
  u2 = u2
  None = None
  Instance <- Pair
  Claims <- PairClaims
  Request <- AllRequests
  ClockOffset <- Ahead
  NodeName = {n1}
  NodeUID = {u1}
  Sizes = {1}
  MaxNodeObjects = 1
  MaxProbes = 1
  MaxAgents = 1
  MaxRetired = 1
  RetiredTTL = 4
  MaxSnapshotAge = 4
  MaxFutureSkew = 1
  InventoryTTL = 2
  MaxNodes = 1
  MaxContainers = 2
  MaxClock = 4
  MaxEpoch = 1
  MaxScans <- OneScan
PROPERTIES
  AppliedOnce
CHECK_DEADLOCK FALSE
