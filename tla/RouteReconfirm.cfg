SPECIFICATION Spec
CONSTANTS
  DayCount = 3
  Confirm = {c1}
  Worker = {w1}
  A = A
  B = B
  City <- TwoCities
  Routes <- TwoRoutes
  MaxDeaths = 1
  MaxFails = 1
  Deletes = TRUE
INVARIANTS KeptPlansAreStored ConfirmedDaysFitRoute NoPlanTwice OnlyOvertakenMisfit
PROPERTY FailedStagingIsUndone
CHECK_DEADLOCK FALSE
