SPECIFICATION Spec
CONSTANTS
  w1 = w1
  w2 = w2
  w3 = w3
  Work <- MCWork2
  WorkOrder <- MCWorkOrder2
  NoDoc = NoDoc
  NoPage = NoPage
  MaxQueue = 2
  MaxBusy = 3
  MayFail = FALSE
  Careful = FALSE
INVARIANTS
  RemovesTapped
CHECK_DEADLOCK FALSE
