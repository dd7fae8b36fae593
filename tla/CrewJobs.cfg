SPECIFICATION Spec
CONSTANTS
  Request = {r1, r2}
  Kinds = {"propose", "city", "place"}
  Day = {1}
  Traveler = Traveler
  None = None
  MaxPlaces = 4
  Tries = 2
  Faults <- OneOfEach
  MaxFaults = 2
  Deletes = TRUE
INVARIANTS AppendsAreClaimedOnce OneCrewAtATime NoJobLingers
PROPERTIES JobsCompleteThemselves ConfirmedRouteIsKept
SYMMETRY Symmetry
CONSTRAINT DeleteIsAFault
CHECK_DEADLOCK FALSE
