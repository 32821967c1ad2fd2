CONSTANTS
  Clock = {c1}
  Thread = {1}
  Task = {"monitor"}
  Fingerprint = {"disk"}
  Schedule <- MCSchedule
  PolicyOf <- MCPolicy
  Reports <- MCReports
  Lease = 5
  SearchLimit = 5
  MaxTime = 4
  MaxFaults = 0
SPECIFICATION MonitorSpec
INVARIANTS
  NewsOnlyOnce
  RemindersSpaced
CHECK_DEADLOCK FALSE
