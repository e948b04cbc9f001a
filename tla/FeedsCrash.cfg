SPECIFICATION Spec
CONSTANTS
  w1 = w1
  w2 = w2
  Work <- MCWork
  NoDoc = NoDoc
  NoWork = NoWork
  MaxQueue = 2
  MaxBusy = 2
  MaxHasty = 1
INVARIANTS
  NeverCrashes
CHECK_DEADLOCK FALSE
