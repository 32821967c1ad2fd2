CONSTANTS
  Hour = 2
  Day = 3
  Month = 3
  Year = 2
  Week = 3
  Dates <- MCDates
  Last = 35
  Offset <- MCOffset
  SearchMinutes = 12
  Exprs <- MCExprs
SPECIFICATION CronSpec
PROPERTIES
  NoMinuteIsPassedOver
  NoMinuteFiresTwice
  FiresAreWanted
CHECK_DEADLOCK FALSE
