SPECIFICATION Spec
CONSTANTS
  Kinds = {"rider"}
  TokenLife = 2
  SessionMax = 2
  MaxTime = 2
  MaxVersion = 2
  MaxTokens = 1
  MaxOpen = 2
CHECK_DEADLOCK FALSE
INVARIANTS
  SignOutIsFinal
