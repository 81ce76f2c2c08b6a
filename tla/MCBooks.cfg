SPECIFICATION Spec
CHECK_DEADLOCK FALSE
CONSTANTS
  o1 = o1
  o2 = o2
  r1 = r1
  r2 = r2
  m1 = m1
  m2 = m2
  Null = Null
  Orders = {o1, o2}
  Managers = {m1, m2}
  Riders = {r1, r2}
  Prices = {2, 3}
  Baskets <- MCBaskets
  MAX_QUANTITY_PER_ITEM = 2
  Hours <- MCHours
  Day = 2
  MaxTime = 4
  MaxPatches = 2
  FREE_DELIVERY_ABOVE = 6
  HANDLING_FEE = 1
  MIN_ORDER_VALUE = 4
  DELIVERY_FEE_INSTANT = 2
  Doors <- MCDoors
  Kinds = {"cash", "delivery", "summary"}
  DEFAULT_WINDOW_DAYS = 1
  MAX_WINDOW_DAYS = 1
CONSTRAINT Focus
SYMMETRY Symmetry
INVARIANTS
  BillKeepsItsWord
  OpenInItsHours
  SettledReportsAgree
  BookedIsCollectable
  HistoryKeepsItsPrice
PROPERTIES
  PauseHolds
  ClosedBooksStayClosed
