CONSTANTS
  t1 = t1
  t2 = t2
  Threads <- TwoThreads
  Calls = 5
  MaxTime = 3
  MaxMoves = 4
  SeqBits = 2
  WorkerBits = 2
  WorkerId = 1
SPECIFICATION GenSpec
SYMMETRY Symmetry
INVARIANTS SerialIdsAreGood
PROPERTIES IdsIncrease OwnTimeNeverDecreases
CHECK_DEADLOCK FALSE
