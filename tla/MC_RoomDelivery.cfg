SPECIFICATION DeliverySpec
CONSTANTS
  ana = ana
  Clients <- OneClient
  LaneCap = 2
  CatchupMaxGap = 1
  MinViewers = 1
  Affinities = {TRUE}
  MaxLog = 3
  MaxJoins = 2
  MaxFaults = 1
  MaxLag = 0
INVARIANTS
  NoSilentLoss
  NoGap
PROPERTIES
  NeverRegresses
  EndIsDelivered
CHECK_DEADLOCK FALSE
