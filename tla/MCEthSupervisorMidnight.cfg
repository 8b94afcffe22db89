SPECIFICATION NetFairSpec
CONSTANTS
  Levels = {0}
  Hours = 2
  Minutes = 2
  eth_link_time = 1
  eth_recv_time = 1
  ETH_SWRST_COUNT = 2
  Quiet = TRUE
  MaxConsoleResets = 0
  NetifNumbers = 2
  Zero_Character = 1
PROPERTIES
  LostLinkReset
