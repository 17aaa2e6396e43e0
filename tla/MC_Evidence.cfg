SPECIFICATION Spec
CONSTANTS
    Workers = {1}
    Readers = {1}
    MaxSeq = 2
    MaxTime = 2
    MaxFaults = 1
    Removals = "quiet"
INVARIANTS
  ChainHasNoGap
  NothingSkipped
  VerdictIsHonest
  GreenMeansProjected
CHECK_DEADLOCK FALSE
