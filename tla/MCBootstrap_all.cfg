CONSTANTS
  i1 = i1
  i2 = i2
  i3 = i3
  Instances <- TwoInstances
  MaxWorker = 2
  Stale = 3
  MaxLate = 2
  Skew = 1
  Statements = 2
  Emails <- MCEmails
  Configured <- MCConfigured
  FirstUsers <- MCUsers
SPECIFICATION BootSpec
SYMMETRY Symmetry
INVARIANTS UniqueWorkerIds HeartbeatReachesOwnRow ServingHasSystemAccount
