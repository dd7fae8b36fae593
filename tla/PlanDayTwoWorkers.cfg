SPECIFICATION Spec
CONSTANTS
  DayCount = 2
  Request = {r1}
  Event = {e1, e2}
  MaxAttempts = 2
  NoRow = NoRow
SYMMETRY Symmetry
INVARIANTS
  TypeOK
  NoSkippedDay
  InOrder
  CompleteMeansPlanned
  OneOwner
PROPERTIES
  DayWrittenOnce
  ImplementsItinerary
