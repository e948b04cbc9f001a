SPECIFICATION Spec
CONSTANTS
  w1 = w1
  w2 = w2
  w3 = w3
  Work <- MCWork3
  WorkOrder <- MCWorkOrder3
  NoDoc = NoDoc
  NoPage = NoPage
  MaxQueue = 2
  MaxBusy = 2
  MayFail = TRUE
  Careful = TRUE
INVARIANTS
  NoCrash
  ActsOnTapped
  ShowsWhatIs
PROPERTIES
  ImplementsPublication
CHECK_DEADLOCK FALSE
