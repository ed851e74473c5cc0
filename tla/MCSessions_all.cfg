CONSTANTS
  u1 = u1
  p1 = p1
  p2 = p2
  p3 = p3
  None = None
  Users <- OneUser
  Requests <- ThreeRequests
  InitRole <- PlainUser
  Allowed <- Anything
  Events = {"db_error", "redis_error", "token_expiry", "cache_ttl"}
SPECIFICATION Spec
SYMMETRY Symmetry
INVARIANTS RefreshTokenSingleUse RevocationCoversSnapshot NoLostBump NothingAheadOfRow HonouredJwtHasCurrentRole LatestPasswordInForce NobodyIsStuck
PROPERTIES AdminDeletesOnlyUsers
CHECK_DEADLOCK FALSE
