CONSTANTS
  Prime = 7
  Circuits <- Orderings
SPECIFICATION Spec
INVARIANT Sound
CHECK_DEADLOCK FALSE
