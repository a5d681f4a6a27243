SPECIFICATION Spec
CONSTANTS
  Readers = {r1, r2}
  Scenarios <- MapFails
  None = none
INVARIANTS ErrorsNonReentrant
CHECK_DEADLOCK FALSE
