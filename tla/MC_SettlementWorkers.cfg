SPECIFICATION SSpec
CONSTANTS
  Users = {1, 3}
  Seller = 3
  Reqs = {r1}
  BidAmounts = {1, 2}
  RuleSet <- EnglishRules
  Durations = {1}
  MaxMoney = 2
  DedupeTTL = 1
  MaxTime = 1
  MaxSeq = 3
  Writers = {w1, w2}
  Patches = {}
  MaxFaults = 1
INVARIANTS
  RecordsMatchSale
PROPERTIES
  PaidStaysPaid
  EvidenceCatchesUp
CHECK_DEADLOCK FALSE
