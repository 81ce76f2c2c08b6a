SPECIFICATION FairSpec
CHECK_DEADLOCK FALSE
CONSTANTS
  a1 = a1
  a2 = a2
  a3 = a3
  k1 = k1
  Null = Null
  Attempts = {a1, a2, a3}
  Products <- MCProducts
  Key <- MCKey
  Basket <- MCBasket
  Counts <- MCCounts
  MaxEdits = 1
INVARIANTS
  Conservation
  OneOrderPerKey
  NobodyWaitsInACircle
PROPERTIES
  SellsOnlyWhatIsThere
  EverybodyIsAnswered
