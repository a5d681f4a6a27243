SPECIFICATION Spec
CONSTANTS
  Readers = {r1, r2}
  Scenarios <- MCScenarios
  None = none
INVARIANTS ExitTellsMostFailures TableKept
PROPERTIES LinkEnds
CHECK_DEADLOCK FALSE
