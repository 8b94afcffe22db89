SPECIFICATION FairSpec
CONSTANTS
  NDi = 4
  NTrip = 2
  TripDi <- TripInputs
INVARIANTS
  TypeOK
  SoeAlternates
PROPERTIES
  SteadyLevelReported
  HeldTripExecuted
