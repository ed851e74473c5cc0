CONSTANTS
  g1 = g1
  s1 = s1
  v1 = v1
  v2 = v2
  None = None
  Requests <- Everyone
  Allowed <- FourRequests
  MaxAttempts = 1
  MaxSends = 1
SPECIFICATION FairSpec
INVARIANTS GuessesAreBounded NoOrphanAccounts
PROPERTIES MailQueueDrains
CHECK_DEADLOCK FALSE
