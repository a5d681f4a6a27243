SPECIFICATION Spec
CONSTANTS
  b1 = b1
  b2 = b2
  b3 = b3
  b4 = b4
  b5 = b5
  Blocks = {b1, b2, b3, b4, b5}
  PAGE_SIZE = 6
  LIST_MAX = 2
  MIN_SUB = 2
  HASH_SIZE = 3
  Sizes = {1, 3, 4}
  Null = Null
SYMMETRY AnyBlock
INVARIANTS PiecesDisjoint BlocksKept ListAlive
CHECK_DEADLOCK FALSE
