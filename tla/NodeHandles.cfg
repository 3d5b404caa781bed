SPECIFICATION Spec
CONSTANTS
  Lease = {a, b}
  Instance = {1}
  None = None
  MaxTime = 2
  Pending = 2
  Duration = 1
  MaxLeases = 1
  MaxSeen = 2
  MaxStreams = 1
  Calls = {"stream", "preview"}
  Copied = {}
  CloseMayFail = TRUE
INVARIANTS HandlesBounded
CHECK_DEADLOCK FALSE
