CONSTANTS
  Content <- MCContent
  Near <- MCNear
  GuessTTL = 1
  CurrentTTL = 1
  Horizon = 1
  Writer = {w1, w2}
  Batches <- MCBatches
  FlushEvery <- MCFlushEvery
  w1 = w1
  w2 = w2
  Recalling = {w2}
  MaxAge = 1
  PerFlush = 2
  MaxTurns <- MCMaxTurns
  MaxFaults = 1
SPECIFICATION Spec
INVARIANTS
  TypeOK
  TurnsAreExtractedOnce
  
  VersionsMixOnlyInARace
PROPERTIES
  ImplementsLog
  GuessesSpareTheStated
CHECK_DEADLOCK FALSE
