SPECIFICATION ResentSpec
CONSTANTS
  w1 = w1
  w2 = w2
  NoDoc = NoDoc
  Work <- MCWork
  MaxQueue = 5
SYMMETRY Symmetry
INVARIANTS
  SettledIsShown
  HollowOnlyIfRemoved
PROPERTIES
  ImplementsGallery
