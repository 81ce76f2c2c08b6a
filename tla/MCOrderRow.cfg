SPECIFICATION Spec
CHECK_DEADLOCK FALSE
CONSTANTS
  r1 = r1
  r2 = r2
  Riders = {r1, r2}
  Null = Null
  Minute = 2
  Promise = 1
  Total = 2
  Stated <- MCStated
  MaxTime = 7
INVARIANTS
  Chronology
  MoneyMatchesOutcome
PROPERTIES
  SettledStaysSettled
  NoSurpriseLate
  ImplementsCustody
