CONSTANTS
  None = None
  Unresolved = Unresolved
  s1 = s1
  s2 = s2
  s3 = s3
  m1 = m1
  m2 = m2
  o1 = o1
  o2 = o2
  outer = outer
  inner = inner
  Structs <- MCStructs
  Ops <- MCOps
  Modules <- MCModules
  Within <- MCWithin
  IRs <- MCIRs

SPECIFICATION Spec
INVARIANTS
  TypeOK
  NoDanglingUse
  WorklistSound
  OnlyUnreadErased
PROPERTIES
  PrunesDeadStructs
  Terminates

CHECK_DEADLOCK FALSE
