CONSTANTS
  Threads = {main, t1, t2, t3}
  Consumer = main
  InitialUnits = 1
  MaxGiven = 6
SPECIFICATION StreamSpec
PROPERTIES
  ImplementsCredit
CHECK_DEADLOCK FALSE
