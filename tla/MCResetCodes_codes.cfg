CONSTANTS
  a1 = a1
  a2 = a2
  a3 = a3
  r1 = r1
  r2 = r2
  r3 = r3
  r4 = r4
  None = None
  Requests <- SomeRequests
  Asking <- Askers
  MaxAttempts = 2
  Cooldown = 1
  Expiry = 1
  MaxTime = 2
SPECIFICATION Spec
SYMMETRY Symmetry
INVARIANTS GuessesAreBounded ResetsNeedCodes CooldownLimitsCodes
CHECK_DEADLOCK FALSE
