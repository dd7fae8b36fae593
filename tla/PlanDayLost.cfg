SPECIFICATION LiveSpec
CONSTANTS
  DayCount = 2
  Request = {r1}
  Event = {e1, e2}
  MaxAttempts = 2
  NoRow = NoRow
  MaxFaults = 2
PROPERTIES
  WrittenDayIsCounted
CHECK_DEADLOCK FALSE
