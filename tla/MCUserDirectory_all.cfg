CONSTANTS
  u1 = u1
  u2 = u2
  p1 = p1
  p2 = p2
  p3 = p3
  None = None
  Users = {u1, u2}
  Requests = {p1, p2, p3}
  MaxBalance = 2
  Asked <- MCAsked
SPECIFICATION Spec
INVARIANT ProfileCacheFollowsRow CountCacheFollowsTable
PROPERTY LedgerSpec
CHECK_DEADLOCK FALSE
