SPECIFICATION Spec
CONSTANTS
  None = None
  MinPlaces = 3
  MaxPlaces = 3
  MaxMinutes = 4
  Crew <- MCCrew
  Lookup <- MCLookup
  Visited = {"seen"}
  ProfileNames = {"gone"}
  Missed <- MCMissed
  Existing <- MCExisting
  Hint <- MCHint
  MaxDay = 4
  MaxAttempts = 2
  Days = 4
  Plan = {1, 2, 3, 4}
  City <- MCCity
  Budget = 12
  HintSize = 2
  Today <- MCToday
  Nothing = None
  Kind <- MCKind
  Norm <- MCNorm
  MaxCount = 3
  Long4 = {"meiji", "ueno", "shrine", "park"}
  Long5 = {"meiji", "shrine"}
INVARIANTS NoFoodOnlyDay RefusedStaysOut
CHECK_DEADLOCK FALSE
