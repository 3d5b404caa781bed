SPECIFICATION FairSpec
CONSTANTS
  s1 = s1
  s2 = s2
  s3 = s3
  None = None
  OwnerOf <- Owners
  NamespaceOf <- Namespaces
  NodeOf <- Nodes
  Session = {s1}
  Call <- Cancelled
  AuditMayFail = FALSE
  Global = 1
  PerPrincipal = 1
  PerNamespace = 2
  PerNode = 1
INVARIANTS
  CleanupIsExclusive
  ConfirmedMeansGone
PROPERTIES
  ClosingIsFinal
  EntriesAreRemoved
  RequestsReturn
  ShutdownEnds
