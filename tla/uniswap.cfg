CONSTANTS
  Orgs <- MCOrgs
  Ranges <- MCRanges
  Sizes <- MCSizes
  MaxBody = 2
  None = None
  InFlight = 1
  MaxAttempts = 2
  MaxProvider = 20
  Budgets = {12}
  Caps <- MCCaps
  MaxFaults = 1
  Cutoff = 3
  Splits = {3}
  Kinds <- MCKinds
  Logged <- MCLogged
  Source = {"primary", "secondary"}
  Orchestrator = {o1, o2}
  Plans <- MCPlans
  Production <- Whole
  MaxTroubles = 1
SPECIFICATION Spec
INVARIANTS BudgetHolds SealsAuthenticate SelectionIsJustified ReportsReplay
PROPERTIES ProgramsEnd
CHECK_DEADLOCK FALSE
