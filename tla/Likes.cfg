SPECIFICATION Spec
CONSTANTS
  MaxLikes = 2
  MaxQueue = 4
INVARIANTS
  RankedAsLiked
CHECK_DEADLOCK FALSE
