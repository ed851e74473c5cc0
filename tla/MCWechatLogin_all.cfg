CONSTANTS
  o1 = o1
  o2 = o2
  a = a
  b = b
  c1 = c1
  c2 = c2
  m1 = m1
  m2 = m2
  l1 = l1
  l2 = l2
  None = None
  OpenIds = {o1, o2}
  Users = {a, b}
  Codes = {c1, c2}
  Messages = {m1, m2}
  Logins = {l1, l2}
  WxOpenid <- MCWxOpenid
  MaxFailed = 1
SPECIFICATION Spec
SYMMETRY Symmetric
INVARIANT CaptchaOpensOneLogin SessionMatchesCaptcha CodeReachesItsUser
CHECK_DEADLOCK FALSE
