SPECIFICATION Spec
CONSTANTS
  User = {"ann", "nobody"}
  Ops = {"set", "update", "like", "delete"}
  MaxPending = 2
  MaxWrites = 3
  MaxFaults = 2
INVARIANTS
  IInv
  ToldTruth
  NoHardAssert
  Converges
PROPERTIES
  ImplementsOutbox
  Drains
CHECK_DEADLOCK FALSE
