CONSTANTS
  u1 = u1
  p1 = p1
  p2 = p2
  p3 = p3
  None = None
  Users <- OneUser
  Requests <- TwoRequests
  InitRole <- PlainUser
  Allowed <- RefreshAndChange
  Events = {}
SPECIFICATION Spec
INVARIANTS RevokedTokensCannotMint
CHECK_DEADLOCK FALSE
