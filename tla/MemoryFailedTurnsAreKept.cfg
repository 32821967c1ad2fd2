CONSTANTS
  Content <- MCContent
  Near <- MCNear
  GuessTTL = 1
  CurrentTTL = 1
  Horizon = 1
  Writer = {w1, w2}
  Batches <- MCBatches
  FlushEvery <- MCFlushEvery
  w1 = w1
  w2 = w2
  Recalling = {w2}
  MaxAge = 1
  PerFlush = 3
  MaxTurns <- MCMaxTurns
  MaxFaults = 0
SPECIFICATION Spec
INVARIANTS
  FailedTurnsAreKept
CHECK_DEADLOCK FALSE
