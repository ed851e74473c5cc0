CONSTANTS
  c1 = c1
  c2 = c2
  NoOwner = NoOwner
  Callers <- TwoCallers
  LockTTL = 2
  MaxRetries = 2
SPECIFICATION FairSpec
INVARIANTS FreshGuardOwnsLock OwnersValueIsNotRecomputed
PROPERTIES LockIsFreed EveryCallReturns
