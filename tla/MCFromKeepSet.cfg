CONSTANTS
  M = M
  Mf = Mf
  S = S
  Sf = Sf
  h = h
  g = g
  c = c
  x = x
  u = u
  Top = Top
  Symbols <- MCSymbols
  Kind <- MCKind
  Parent <- MCParent
  Included <- MCIncluded
  UseRelations <- MCUseRelations

SPECIFICATION Spec
INVARIANTS
  TypeOK
  NoDanglingUse
  KeepsOnlyReachable
PROPERTY
  Terminates

CHECK_DEADLOCK FALSE
