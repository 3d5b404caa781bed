SPECIFICATION CSpec
CONSTANTS
  a = a
  b = b
  c = c
  d = d
  e = e
  n1 = n1
  n2 = n2
  u1 = u1
  u2 = u2
  u3 = u3
  None = None
  Instance <- Pods
  Claims <- Identities
  Request <- SomeRequests
  NodeName = {n1, n2}
  NodeUID = {u1, u2, u3}
  MaxAgents = 2
  MaxRetired = 2
  RetiredTTL = 1
  MaxSnapshotAge = 2
  MaxFutureSkew = 1
  InventoryTTL = 1
  MaxNodes = 1
  MaxContainers = 2
  MaxClock = 2
  MaxEpoch = 2
INVARIANTS
  TypeOK
  OwnersMatchAgents
  RetiredAreInactive
  OwnerStaysCurrent
  WithinLimits
  ContextsMatchInventory
PROPERTIES
  EvidenceMonotone
  NoReclaimWithinTTL
  ImplementsRegister
CHECK_DEADLOCK FALSE
