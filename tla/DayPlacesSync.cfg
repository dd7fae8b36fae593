SPECIFICATION Spec
CONSTANTS
  DayCount = 2
  Key = {k1, k2, k3}
  Editor = {}
  Suggester = {s1}
  Planner = {}
  SyncPlanner = {y1}
  None = None
  Together <- SyncSuggest
  Loss = Loss
  MaxPlaces = 3
  PruneTries = 2
  MaxStale = 1
SYMMETRY Symmetry
INVARIANTS NoKeyTwice
CHECK_DEADLOCK FALSE
