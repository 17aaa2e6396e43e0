SPECIFICATION RSpec
CONSTANTS
  Users = {1, 2}
  Seller = 2
  Reqs = {r1}
  BidAmounts = {2}
  RuleSet <- SealedRules
  Durations = {1}
  MaxMoney = 3
  DedupeTTL = 1
  MaxTime = 1
  MaxSeq = 2
  Handlers = {h1}
  ExpiryMargin = 1
  Skews = {1}
INVARIANTS
  SealedSecrecy
CHECK_DEADLOCK FALSE
