SPECIFICATION Spec
CONSTANTS
  DayCount = 3
  Confirm = {c1}
  Worker = {}
  A = A
  B = B
  City <- TwoCities
  Routes <- ThreeRoutes
  MaxDeaths = 1
  MaxFails = 0
  Deletes = FALSE
INVARIANT RestingDaysFitRoute
