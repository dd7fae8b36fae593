SPECIFICATION MCSpec
CONSTANTS
  Requests = {r1, r2, r3}
  Hours = 2
  HoursPerDay = 2
  HourCap = 1
  DayCap = 1
  Trips = {t1, t2}
  MaxTrips = 1
  Dates = {1, 2}
  Watched = {t1}
CONSTRAINT TwoWriters
SYMMETRY Symmetry
INVARIANT QuotaHolds
PROPERTY DeletingStays
CHECK_DEADLOCK FALSE
