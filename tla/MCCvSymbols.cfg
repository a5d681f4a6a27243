SPECIFICATION Spec
CONSTANTS
  Block = 80
  MaxBuckets = 2039
  Page = 32
  Slack = 8
  Publics <- MCPublics
  Globals <- MCGlobals
  Statics <- MCStatics
  OddNames = {"g"}
  Loads <- MCLoads
INVARIANTS
  PagesHold
  BufferKept
  SymbolsFound
  TablesLead
  GlobalsKept
  DirectoryRight
CHECK_DEADLOCK FALSE
