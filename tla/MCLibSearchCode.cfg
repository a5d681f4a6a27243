SPECIFICATION Spec
CONSTANTS
  sa = sa
  sb = sb
  sc = sc
  L1 = L1
  L2 = L2
  None = None
  Syms = {sa, sb, sc}
  Libs = {L1, L2}
  Programs <- Clashing
  PAGE_SIZE = 4
  Word = 1
INVARIANT TypeTellsList
CHECK_DEADLOCK FALSE
