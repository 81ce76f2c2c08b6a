SPECIFICATION FairSpec
CHECK_DEADLOCK FALSE
CONSTANTS
  r1 = r1
  r2 = r2
  Orders = {1}
  Riders = {r1,r2}
  Null = Null
  Stale = 0
  Retention = 0
  MaxTime = 2
  MaxOpen = 2
INVARIANTS
  TrailIsEarned
PROPERTIES
  NothingAfterTheEnd
  PositionsGoForGood
