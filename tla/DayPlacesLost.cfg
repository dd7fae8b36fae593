SPECIFICATION Spec
CONSTANTS
  DayCount = 2
  Key = {k1, k2, k3}
  Editor = {w1}
  Suggester = {}
  Planner = {p1}
  SyncPlanner = {}
  None = None
  Together <- LostPlan
  Loss = Loss
  MaxPlaces = 3
  PruneTries = 2
  MaxStale = 1
SYMMETRY Symmetry
INVARIANTS PlacedIsVisited
CHECK_DEADLOCK FALSE
