CONSTANTS
  Threads = {main, t1, t2, t3, t4}
  None = None
SPECIFICATION Spec
INVARIANTS
  IInv
  NoLostPost
PROPERTIES
  ImplementsLock
