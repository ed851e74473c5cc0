CONSTANTS
  r1 = r1
  r2 = r2
  Requests <- TwoRequests
  N = 2
  Retries = 2
  Break = 1
  HealthCheck = TRUE
SPECIFICATION FairRouterSpec
INVARIANTS GivesUpOnlyAfterAll 
PROPERTIES RecoveredReplicaReturns EveryReadReturns
