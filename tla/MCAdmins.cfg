SPECIFICATION AdminsSpec
CONSTANTS
  Accounts = {a1, a2, a3}
  MaxEdits = 2
SYMMETRY Symmetric
INVARIANTS
  SomebodyAdministers
PROPERTIES
  EditsKeepTheRest
CHECK_DEADLOCK FALSE
