SPECIFICATION CSpec
CONSTANTS
  Users = {1, 2, 3, 4}
  Seller = 4
  Reqs = {0, 1, 2}
  BidAmounts = {2, 4}
  RuleSet <- FrozenRules
  Durations = {3}
  MaxMoney = 5
  DedupeTTL = 8
  MaxTime = 4
  MaxSeq = 2
  Sims = {2, 3}
  HumanReqs = {0}
  DefaultOn = TRUE
  BidsTarget = 1
  QuietExtra = 1
  CallLatency = 1
  Patches <- PatchedRules
  MaxLost = 1
INVARIANTS
  CrowdBoundaries
PROPERTIES
  CrowdEnds
CHECK_DEADLOCK FALSE
