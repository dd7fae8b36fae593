SPECIFICATION Spec
CONSTANTS
  Request = {r1}
  Kinds = {"place"}
  Day = {1}
  Traveler = Traveler
  None = None
  MaxPlaces = 3
  Tries = 2
  Faults <- DeadRemoved
  MaxFaults = 2
  Deletes = FALSE
INVARIANT AppendsAreClaimed
CHECK_DEADLOCK FALSE
