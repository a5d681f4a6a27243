SPECIFICATION CacheSpec
CONSTANTS
  t1 = t1
  t2 = t2
  b1 = b1
  b2 = b2
  b3 = b3
  Threads = {t1, t2}
  Blocks = {b1, b2, b3}
  None = None
  PHYS_TABLE_MAX = 2
INVARIANTS CacheTypeOK BlocksAccounted
PROPERTIES CallsReturn ImplementsHeap
CHECK_DEADLOCK FALSE
