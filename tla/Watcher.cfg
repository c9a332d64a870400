SPECIFICATION FairSpec
CONSTANTS
  Files = {f1, f2, f3}
  Capacity = 2
  MaxChanges = 4
  StopEnabled = TRUE
  WalkFails = TRUE
INVARIANT NothingForgotten
PROPERTY FollowsTree
PROPERTY ChangesRead
PROPERTY StopHonoured
CHECK_DEADLOCK FALSE
