SPECIFICATION Spec
CONSTANTS
  NDi = 4
  NTrip = 2
  TripDi <- TripInputs
INVARIANTS
  TripOncePerActivation
