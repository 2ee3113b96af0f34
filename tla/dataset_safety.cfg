SPECIFICATION FairSpec
CONSTANTS
  p1 = p1
  p2 = p2
  q1 = q1
  d1 = d1
  d2 = d2
  d3 = d3
  None = None
  Publisher = {p1, p2}
  Quarantiner = {q1}
  Dataset = {d1, d2, d3}
  Supersedes <- MCSupersedes
  Inputs <- MCInputs
  Targets = {d1, d3}
  Nested = {d1}
  MaxCalls = 4
  MaxCrashes = 1
INVARIANT RowsNameTrees
PROPERTY ImplementsLedger
PROPERTY CallsEnd
CHECK_DEADLOCK FALSE
