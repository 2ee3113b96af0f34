CONSTANTS
  Birth <- PoolBirth
  Deploy = 1
  Cutoff = 1
  WindowSize = 2
  CohortSize = 2
  Events <- PoolEvents
  Worker = {w1}
  Steward = {s1}
  Domains <- PoolDomains
  Policies = {"logs_first"}
  MaxAttempts = 2
  MaxGen = 1
  MaxFaults = 1
  None = None
SPECIFICATION EngineSpec
PROPERTIES NeverDropsValid
CHECK_DEADLOCK FALSE
