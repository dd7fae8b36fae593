SPECIFICATION Spec
CONSTANTS
  DayCount = 3
  Confirm = {c1}
  Worker = {}
  A = A
  B = B
  City <- TwoCities
  Routes <- ThreeRoutes
  MaxDeaths = 0
  MaxFails = 0
  Deletes = TRUE
CHECK_DEADLOCK FALSE
PROPERTY DeleteLockHolds
