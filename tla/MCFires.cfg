CONSTANTS
  Clock = {c1, c2}
  Thread = {1}
  Task = {"digest"}
  Fingerprint = {}
  Schedule <- MCSchedule
  PolicyOf <- MCPolicy
  Reports <- MCReports
  Lease = 1
  SearchLimit = 5
  MaxTime = 3
  MaxFaults = 1
SPECIFICATION FairSpec
INVARIANTS
  TypeOK
  FireOwnership
  LastDeliveredIsTrue
PROPERTIES
  ImplementsLedger
  WorkersAreFreed
  StopEnds
CHECK_DEADLOCK FALSE
