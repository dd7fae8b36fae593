SPECIFICATION Spec
CONSTANTS
  Request = {r1, r2, r3}
  Kinds = {"city"}
  Day = {1}
  Traveler = Traveler
  None = None
  MaxPlaces = 3
  Tries = 2
  Faults <- Aged
  MaxFaults = 2
  Deletes = FALSE
PROPERTY FreshClaimsStay
CHECK_DEADLOCK FALSE
