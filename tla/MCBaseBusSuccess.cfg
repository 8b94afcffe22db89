SPECIFICATION Spec
CONSTANTS
  Levels = {0, 1}
  Outputs = {1}
  Channels = {2}
  BackOff = 2
  Byte = 6
  BusyLimit = 1
PROPERTIES
  SuccessMeansExecuted
