SPECIFICATION MCSpec
CONSTANTS
  Levels = {0, 1, 2}
  MAXNUM = 2
  Addresses <- Lines
  Names <- OnlyDefault
  Minutes = {10}
  Erased = Erased
  MaxRecords = 3
INVARIANTS
  TypeOK
  IdleMeansDurable
  QueueHoldsLast
PROPERTIES
  AddressKept
