SPECIFICATION Spec
CONSTANTS
  o1 = o1
  o2 = o2
  Orders = {o1, o2}
  Null = Null
  Riders <- MCRiders
  Located = {o1, o2}
  Distance <- MCTown
  Grain = 2
  Radius <- MCRadius
  AUTO_ASSIGN_RIDER = TRUE
  Deletable = {1}
  MaxOpen = 1
INVARIANTS
  NoRiderInStore
  RiderOnRecord
PROPERTIES
  DeclineHonoured
  NobodyIsPassedOver
  ImplementsCustody
