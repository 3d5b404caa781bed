SPECIFICATION FairSpec
CONSTANTS
  Lease = {a}
  Instance = {1, 2}
  None = None
  MaxTime = 2
  Pending = 2
  Duration = 1
  MaxLeases = 1
  MaxSeen = 2
  MaxStreams = 1
  Calls = {"get", "delete", "stream"}
  Copied = {"bind", "stream"}
  CloseMayFail = TRUE
INVARIANTS TypeOK EngineHoldsHandle
PROPERTIES BoundAgain PromiseKept
CHECK_DEADLOCK FALSE
