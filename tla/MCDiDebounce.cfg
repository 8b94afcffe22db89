SPECIFICATION Spec
CONSTANTS
  Channels = {c1}
  ActThreshold = 16
  RetThreshold = 10
  Guard = 3
INVARIANTS
  TypeOK
  SteadyInputReported
  NoStaleEvidence
PROPERTIES
  ChangeNeedsEvidence
