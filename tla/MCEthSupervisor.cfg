SPECIFICATION NetFairSpec
CONSTANTS
  Levels = {0, 1, 2}
  Hours = 2
  Minutes = 2
  eth_link_time = 1
  eth_recv_time = 1
  ETH_SWRST_COUNT = 2
  Quiet = FALSE
  MaxConsoleResets = 1
  NetifNumbers = 2
  Zero_Character = 1
INVARIANTS
  TypeOK
  FlagServed
  SocketsAlternate
  CountsMinutes
  WalksEnd
  UpMeansRunning
PROPERTIES
  RecoversWhileLinked
