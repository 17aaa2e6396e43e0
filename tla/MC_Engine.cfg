SPECIFICATION Spec
CONSTANTS
  Users = {1, 2, 3}
  Seller = 3
  Reqs = {r1, r2}
  BidAmounts = {0, 3, 4, 5, 6, 7}
  RuleSet <- MCRules
  Durations = {2}
  MaxMoney = 7
  DedupeTTL = 2
  MaxTime = 4
  MaxSeq = 6
INVARIANTS
  TypeOK
  StreamLockstep
  TerminalEventLast
  HammerSeparatesBids
  AcksAreBacked
  PriceLadder
  ExtensionsBounded
  SealedSecrecy
PROPERTIES
  TerminalIsFinal
  AcksAreKept
  ImplementsOutcome
CHECK_DEADLOCK FALSE
