CONSTANTS
  A = A  B = B  C = C  D = D
  a1 = a1  a2 = a2  b1 = b1  b2 = b2  c1 = c1  c2 = c2  d1 = d1
  x1 = x1  x2 = x2  y1 = y1  y2 = y2  z1 = z1  z2 = z2  w1 = w1
  None = None
  N_R_THREADS = 2
  SMP = FALSE
  Libs <- FourLibs
  Modules <- FourModules
  Symbols <- FourSymbols
  LibOf <- FourLibOf
  BlocksOf <- FourBlocksOf
  ModuleOf <- FourModuleOf
  Needs <- FourNeeds
  Defines <- FourDefines
  RootSets <- TwoOrAgain
SPECIFICATION Spec
INVARIANTS
  RequestsKept
  ListsKept
PROPERTIES
  Termination
  ImplementsFetch
CHECK_DEADLOCK FALSE
