SPECIFICATION StationSpec
CONSTANTS
  Words <- MCWords
  OutputNumbers = {1, 2}
  Pcbs = {p1, p2, p3}
  Null = Null
  Frames = {f1, f2}
  ETH_RXBUFNB = 2
  Segments <- MCSegments
  Index = 32
  CanByte = 4
  CanWord = 16
  ErrLimit = 7
  Crystal = 3
  Fast = 4
  HalfWord = 2
  LongWord = 1048576
  Settings = {2}
SYMMETRY PartSymmetry
INVARIANTS
  StationTypeOK
  DialogueSound
  ListSound TextsReachSession
   RxNoticed
  ModbusOutputs ModbusAnswers
  CanOnlineTrue
  RtcSourceKnown
PROPERTIES
  OutputAsAsked StoredAsAsked
  CallbacksAsPromised
  RecordsInOrder
