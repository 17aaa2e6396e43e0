SPECIFICATION ASpec
CONSTANTS
  Users = {1, 2}
  Seller = 2
  Reqs = {r1}
  BidAmounts = {2, 5}
  RuleSet <- SpokenRules
  Durations = {2}
  MaxMoney = 8
  DedupeTTL = 1
  MaxTime = 2
  MaxSeq = 2
  RapidPair = 1
  SurgeGap = 2
  ColdGap = 2
  Suppression = 2
  CallTimeout = 1
  StallLatency = 1
  Affinities = {TRUE, FALSE}
  MaxRestarts = 1
INVARIANTS
  CommentaryIsFit
PROPERTIES
  NoColdAfterEnd
  HammerAired
CHECK_DEADLOCK FALSE
