SPECIFICATION Spec
CONSTANTS
  DayCount = 2
  Key = {k1, k2, k3,k4}
  Editor = {w1, w2}
  Suggester = {s1, s2}
  Planner = {}
  SyncPlanner = {}
  None = None
  Together <- TwoEdits
  Loss = Loss
  MaxPlaces = 3
  PruneTries = 2
  MaxStale = 1
SYMMETRY Symmetry
PROPERTY EditsKeepTheRest
CHECK_DEADLOCK FALSE
