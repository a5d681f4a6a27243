SPECIFICATION Spec
CONSTANTS
  PageSize = 4
  Size = 9
  OldSizes <- MCOldSizes
  StalePhys <- MCStalePhys
  DeleteOnError = TRUE
INVARIANTS RangesExact PagesKept DiskIsRight
CHECK_DEADLOCK FALSE
