SPECIFICATION FairRunsSpec
CONSTANTS
  w1 = w1
  w2 = w2
  Thread = {w1, w2}
  Items = 2
  Capacity = 1
  MaxStarts = 3
  MaxFacts = 2
INVARIANT SealsRestOnEvidence
INVARIANT OneRunAtStake
PROPERTY RefusalsAreDue
PROPERTY ImplementsChain
PROPERTY RunEnds
CHECK_DEADLOCK FALSE
