SPECIFICATION Spec
CONSTANTS
  DayCount = 2
  Key = {k1, k2, k3, k4}
  Editor = {w1}
  Suggester = {s1, s2}
  Planner = {p1}
  SyncPlanner = {y1}
  None = None
  Together <- MCTogether
  Loss = Loss
  MaxPlaces = 3
  PruneTries = 2
  MaxStale = 1
SYMMETRY Symmetry
INVARIANTS PlacedIsVisited NoKeyTwice GoneIsEmpty
PROPERTY EditsKeepTheRest
CHECK_DEADLOCK FALSE
