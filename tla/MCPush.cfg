SPECIFICATION PushFairSpec
CHECK_DEADLOCK FALSE
CONSTANTS
  t1 = t1
  t2 = t2
  r1 = r1
  r2 = r2
  e1 = e1
  Tokens = {t1, t2}
  Accounts = {r1, r2}
  Nobody = Nobody
  Events = {e1}
  Recipients <- MCRecipients
  MAX_BATCH = 2
  MaxDeletes = 1
INVARIANTS
  NoFalseAlarm
PROPERTIES
  RowsGoForAReason
  LaunchHeals
