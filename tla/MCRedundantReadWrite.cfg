CONSTANTS
  d0 = d0
  d1 = d1
  a = a
  None = None
  CurrentRow = d0
  MaxOps = 4
  MaxRegions = 1
  Data <- MCData
  Consts <- MCConsts
  Args <- MCArgs
  Memories <- MCMemories
  Shapes <- MCShapes

SPECIFICATION Spec
INVARIANTS
  TypeOK
  StatefulReadsPreserved
  ReadsPreserved
  WritesPreserved
  NoDaisyChain

CHECK_DEADLOCK FALSE
