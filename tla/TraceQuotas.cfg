SPECIFICATION Spec
CONSTANTS
  s1 = s1
  s2 = s2
  s3 = s3
  None = None
  OwnerOf <- Owners
  NamespaceOf <- Namespaces
  NodeOf <- Nodes
  Session = {s1, s3}
  Call <- Served
  AuditMayFail = TRUE
  Global = 2
  PerPrincipal = 1
  PerNamespace = 2
  PerNode = 1
INVARIANTS
  TypeOK
  WithinQuota
  WorkIsHeld
  AuditTrail
PROPERTIES
  ImplementsQuota
