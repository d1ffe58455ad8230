CONSTANTS
  Prime = 7
  Circuits <- MCCircuits
SPECIFICATION Spec
INVARIANTS
  TypeOK
  EnsuresHold
PROPERTIES
  Settled
  StaysSound
  Narrows
  Terminates
CHECK_DEADLOCK FALSE
