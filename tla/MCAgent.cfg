CONSTANTS
  Runs = 2
  Call = {"fetch", "push", "rm"}
  Answer = {"x"}
  Blocked = {"rm"}
  NeedsApproval = {"fetch", "push"}
  Batches <- MCBatches
  KeepTurns = 1
  MaxAttempts = 3
  MinAttempts = 2
  MaxRounds = 1
  FailOpen = TRUE
  CompressAt = 3
  MaxTurns = 3
SPECIFICATION Spec
INVARIANTS
  TypeOK
  RequestsAreWellFormed
  NothingRanUnapproved
  CallsAreAskedOnce
  BudgetIsTheRunsOwn
  AnswersAreReviewed
CHECK_DEADLOCK FALSE
