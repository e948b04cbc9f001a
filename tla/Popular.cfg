SPECIFICATION Spec
CONSTANTS
  w1 = w1
  w2 = w2
  Work <- MCWork
  NoDoc = NoDoc
  MaxQueue = 2
  Limit = 2
INVARIANTS
  RowsAreArrivals
PROPERTIES
  CrashOnlyIfRemoved
  ListedIsShown
CHECK_DEADLOCK FALSE
