SPECIFICATION SSpec
CONSTANTS
  Users = {1, 2, 3}
  Seller = 3
  Reqs = {r1}
  BidAmounts = {1, 2}
  RuleSet <- SettledRules
  Durations = {1}
  MaxMoney = 2
  DedupeTTL = 1
  MaxTime = 1
  MaxSeq = 3
  Writers = {w1}
  Patches <- AllPayRules
  MaxFaults = 1
INVARIANTS
  LedgerMatchesSale
PROPERTIES
  SaleSettles
CHECK_DEADLOCK FALSE
