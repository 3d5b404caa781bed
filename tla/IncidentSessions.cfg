SPECIFICATION Spec
CONSTANTS
  alice = alice
  bob = bob
  None = None
  Id = {1, 2}
  Slot = {h1, h2}
  Principal <- Operators
  NamespaceUID <- Uids
  Permitted <- Policy
  Notes = {"annotated"}
  Pods = {p}
  History = {h}
  Sessions = 2
  NamespaceSessions = 1
  Entries = 4
  SessionBytes = 5
  MaxEntryBytes = 1
  MaxCaptureBytes = 2
  MaxCaptures = 1
  Retention = 1
  MaxTime = 2
SYMMETRY Slots
INVARIANTS TypeOK LimitsHold ShutdownForgets
PROPERTY ImplementsTimeline
CHECK_DEADLOCK FALSE
