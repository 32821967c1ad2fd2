CONSTANTS
  Runs = 4
  Call = {"scout", "lead"}
  Answer = {"x"}
  KeepTurns = 1
  MaxDepth <- MCMaxDepth
  Batches <- MCBatches
  Aside <- MCAside
  Workers = 1
  MaxTurns <- MCMaxTurns
SPECIFICATION FairSpec
INVARIANTS
  TypeOK
  ParentIsIsolated
  TreeIsBounded
  
PROPERTIES
  TicketsClose
CHECK_DEADLOCK FALSE
