SPECIFICATION Spec
CONSTANTS
  w1 = w1
  w2 = w2
  NoDoc = NoDoc
  Work <- MCWork
  MaxQueue = 4
INVARIANTS
  SettledAgree
  PostedIsReadable
  NoHollowWork
  RefusedOnlyIfRemoved
PROPERTIES
  ImplementsGallery
  BornOnceGoneForGood
  DisplayFollows
