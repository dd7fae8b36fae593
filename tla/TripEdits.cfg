SPECIFICATION EditsSpec
CONSTANTS
  DayCount = 1
  Request = {r1}
  Event = {e1, e2}
  Editor = {w1, w2}
  MaxAttempts = 2
  NoRow = NoRow
SYMMETRY Symmetry
CONSTRAINT ThreeAtOnce
INVARIANTS
  DeletedHoldsNoClaim
PROPERTIES
  DayReplacedWhenDeleted
  DeletingIsFinal
CHECK_DEADLOCK FALSE
