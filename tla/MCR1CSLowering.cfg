CONSTANTS
  Programs <- MCPrograms
  MaxDegrees = {2, 3}
  ReuseAddresses = FALSE
  MaxAddress = 30
SPECIFICATION PipelineSpec
INVARIANTS
  TypeOK
  DefinitionsDominateUses
  HandlesLive
  SystemPreserved
  AuxDetermined
  FailsOnlyOnUnsupported
  AuxWrittenAfterDependencies
  OneProductPerConstraint
  CircuitEquivalent
PROPERTIES
  PipelineTerminates
CHECK_DEADLOCK FALSE
