SPECIFICATION Spec
CONSTANTS
  Programs <- MCPrograms
  Words <- MCWords
  IterationLimit = 4
  Modulus = 3
INVARIANTS TypeOK UsesUnchanged UsesResolve FailsOnlyForCause
PROPERTIES EndsFlat
CHECK_DEADLOCK FALSE
