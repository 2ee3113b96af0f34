CONSTANTS
  Birth <- BlockBirth
  Deploy = 1
  Cutoff = 2
  WindowSize = 2
  CohortSize = 1
  Events <- BlockEvents
  Worker = {w1, w2}
  Steward = {}
  Domains <- BlockDomains
  Policies = {"logs_first", "inline"}
  MaxAttempts = 2
  MaxGen = 0
  MaxFaults = 1
  None = None
SPECIFICATION EngineSpec
SYMMETRY MCSymmetry
INVARIANTS ClaimsAgree CoverageIsExact
PROPERTIES OnlyHolderMoves
CHECK_DEADLOCK FALSE
