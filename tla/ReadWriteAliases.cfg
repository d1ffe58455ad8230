CONSTANTS
  d0 = d0
  d1 = d1
  a = a
  None = None
  CurrentRow = d0
  MaxOps = 4
  MaxRegions = 1
  Data <- MCData
  Consts <- MCConsts
  Args <- MCArgs
  Memories <- MCMemories
  Shapes <- MCArrayOnly

SPECIFICATION Spec
INVARIANT
  AllReadsPreserved

CHECK_DEADLOCK FALSE
