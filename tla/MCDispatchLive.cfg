SPECIFICATION FairSpec
CONSTANTS
  o1 = o1
  o2 = o2
  Orders = {o1, o2}
  Null = Null
  Riders <- MCRiders
  Located <- MCLocated
  Distance <- MCDistance
  Grain = 2
  Radius <- MCRadius
  AUTO_ASSIGN_RIDER = TRUE
  Deletable = {}
  MaxOpen = 0
PROPERTIES
  WaitingResolves
