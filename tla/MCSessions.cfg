SPECIFICATION Spec
CONSTANTS
  Kinds = {"admin", "rider", "customer"}
  TokenLife = 1
  SessionMax = 1
  MaxTime = 2
  MaxVersion = 1
  MaxTokens = 2
  MaxOpen = 2
CHECK_DEADLOCK FALSE
INVARIANTS
  RetiredStaysRetired
  OldSecretIsOut
  SessionsEnd
