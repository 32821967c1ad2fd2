CONSTANTS
  Caller = {t1, t2}
  Model = {"large", "small"}
  Chains <- MCChains
  MaxAttempts <- MCAttempts
  UnavailableRest = 2
  ExhaustedRest = 1
  Backoff = 1
SPECIFICATION FairSpec
INVARIANTS
  TypeOK
  FallbackIsEarned
  GivesUpForCause
PROPERTIES
  CallsEnd
