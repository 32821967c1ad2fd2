CONSTANTS
  Request = {r1, r2, r3}
  None = None
  HasParser = TRUE
  MaxPieces = 2
SPECIFICATION FairSpec
INVARIANTS
  TypeOK
PROPERTIES
  GenerationsDoNotInterleave
  RequestsEnd
CHECK_DEADLOCK FALSE
