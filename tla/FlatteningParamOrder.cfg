SPECIFICATION Spec
CONSTANTS
  Programs <- Triples
  Words <- MCWords
  IterationLimit = 4
  Modulus = 3
INVARIANT UsesUnchanged
CHECK_DEADLOCK FALSE
