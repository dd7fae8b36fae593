SPECIFICATION Spec
CONSTANTS
  DayCount = 3
  Confirm = {c1, c2}
  Worker = {}
  A = A
  B = B
  City <- TwoCities
  Routes <- TwoRoutes
  MaxDeaths = 0
  MaxFails = 0
  Deletes = FALSE
INVARIANT KeptPlansAreStored
