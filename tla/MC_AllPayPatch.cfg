SPECIFICATION SSpec
CONSTANTS
  Users = {1, 2}
  Seller = 2
  Reqs = {r1}
  BidAmounts = {1, 2}
  RuleSet <- SettledRules
  Durations = {1}
  MaxMoney = 2
  DedupeTTL = 1
  MaxTime = 1
  MaxSeq = 2
  Writers = {w1}
  Patches <- EnglishRules
  MaxFaults = 0
INVARIANTS
  NoOrderForAllPay
CHECK_DEADLOCK FALSE
