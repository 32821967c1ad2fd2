CONSTANTS
  Runs = 4
  Call = {"scout", "lead"}
  Answer = {"x"}
  KeepTurns = 1
  MaxDepth <- MCMaxDepth
  Batches <- MCBatches
  Aside <- MCAside
  Workers = 1
  MaxTurns <- MCMaxTurns
SPECIFICATION Spec
INVARIANTS
  StartsFresh
CHECK_DEADLOCK FALSE
