SPECIFICATION SerialSpec
CONSTANTS
  DayCount = 2
  Request = {r1}
  Event = {e1, e2}
  Editor = {w1}
  MaxAttempts = 2
  NoRow = NoRow
INVARIANTS
  CursorStaysInOrder
CHECK_DEADLOCK FALSE
