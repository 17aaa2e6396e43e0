SPECIFICATION RSpec
CONSTANTS
  Users = {1, 2, 3}
  Seller = 3
  Reqs = {r1}
  BidAmounts = {2, 3}
  RuleSet <- RoutedRules
  Durations = {2}
  MaxMoney = 3
  DedupeTTL = 3
  MaxTime = 3
  MaxSeq = 2
  Handlers = {h1}
  ExpiryMargin = 1
  Skews = {1}
INVARIANTS
  CacheNeverAhead
PROPERTIES
  FastRejectAgrees
  RoutedAsFrozen
  StandingsStayHidden
CHECK_DEADLOCK FALSE
