CONSTANTS
  P = P
  S = S
  Sf = Sf
  T = T
  Tf = Tf
  h = h
  f = f
  x = x
  Top = Top
  Nobody = Nobody
  Symbols <- MCSymbols
  Kind <- MCKind
  Parent <- MCParent
  Included <- MCIncluded
  UseRelations <- MCUseRelations
  EraseTargets <- MCEraseTargets

SPECIFICATION Spec
INVARIANTS
  TypeOK
  UnsafeIsNeeded
  NoDanglingUnlessGivenUp
PROPERTY
  Terminates

CHECK_DEADLOCK FALSE
