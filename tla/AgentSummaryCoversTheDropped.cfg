CONSTANTS
  Runs = 2
  Call = {"fetch", "push", "rm"}
  Answer = {"x"}
  Blocked = {"rm"}
  NeedsApproval = {"fetch", "push"}
  Batches <- MCBatches
  KeepTurns = 1
  MaxAttempts = 3
  MinAttempts = 2
  MaxRounds = 1
  FailOpen = TRUE
  CompressAt = 3
  MaxTurns = 2
SPECIFICATION Spec
INVARIANT SummaryCoversTheDropped
CHECK_DEADLOCK FALSE
