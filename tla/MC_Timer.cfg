SPECIFICATION TSpec
CONSTANTS
  Users = {1, 2}
  Seller = 2
  Reqs = {r1}
  BidAmounts = {3, 5}
  RuleSet <- TimerRules
  Durations = {1}
  MaxMoney = 5
  DedupeTTL = 1
  MaxTime = 3
  MaxSeq = 4
  Workers = {w1, w2}
  MaxFaults = 1
INVARIANTS
  IndexNeverLate
PROPERTIES
  HammerFalls
  IndexDrains
