SPECIFICATION Spec
CONSTANTS
  w1 = w1
  w2 = w2
  Work <- MCWork
  NoDoc = NoDoc
  NoWork = NoWork
  MaxQueue = 2
  MaxBusy = 2
  MaxHasty = 1
INVARIANTS
  LikesWhatIsShown
  ListedOnce
PROPERTIES
  CrashOnlyIfRemoved
  NoRepeat
  EnabledAgain
CHECK_DEADLOCK FALSE
