SPECIFICATION FSpec
CONSTANTS
  Users = {1, 2, 3, 4, 5}
  Seller = 5
  Reqs = {r1}
  BidAmounts = {9, 10, 13}
  RuleSet <- ParentRules
  Durations = {1}
  MaxMoney = 24
  DedupeTTL = 2
  MaxTime = 1
  MaxSeq = 4
  Requests = {q1, q2}
  Bodies <- FormalBodies
  PatchedModes = {"VICKREY"}
  Seconds = {1, 2}
  MaxChildren = 2
  Estimates = {0, 12, 40}
  MaxSane = 20
  StepUnit = 2
  Placeholder = 10
SYMMETRY Sym
INVARIANTS
  SealedPayment
  FloorIsMet
  AdviceIsUsable
  RetriesAgree
CHECK_DEADLOCK FALSE
