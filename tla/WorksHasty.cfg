SPECIFICATION Spec
CONSTANTS
  w1 = w1
  w2 = w2
  w3 = w3
  Work <- MCWork1
  WorkOrder <- MCWorkOrder1
  NoDoc = NoDoc
  NoPage = NoPage
  MaxQueue = 3
  MaxBusy = 2
  MayFail = FALSE
  Careful = FALSE
INVARIANTS
  FlagsSettle
PROPERTIES
  Reenabled
CHECK_DEADLOCK FALSE
