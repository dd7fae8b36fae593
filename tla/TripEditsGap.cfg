SPECIFICATION EditsSpec
CONSTANTS
  DayCount = 2
  Request = {r1}
  Event = {e1}
  Editor = {w1}
  MaxAttempts = 1
  NoRow = NoRow
INVARIANTS
  CompleteMeansPlanned
CHECK_DEADLOCK FALSE
