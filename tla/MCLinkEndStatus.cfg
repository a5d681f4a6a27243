SPECIFICATION Spec
CONSTANTS
  Readers = {r1, r2}
  Scenarios <- ExeFails
  None = none
INVARIANTS ExitTellsFailure
CHECK_DEADLOCK FALSE
