SPECIFICATION Spec
CONSTANTS
  Runner = {r1, r2}
  Directories <- MCDirectories
  Idle = Idle
  h1v1 = h1v1
  h1v2 = h1v2
  paper = paper
  trial = trial
  venueA = venueA
  x1 = x1
  x2 = x2
  Version = {h1v1, h1v2}
  HypothesisOf <- MCHypothesisOf
  Evidence = {paper, trial}
  Literature = {paper}
  Decision = {1, 2}
  SeedOf <- MCSeedOf
  Writer = {w1}
  None = None
  MaxEntries = 4
  Clock = {0, 1}
  Time = {0, 1, 2}
  Open = 3
  Instrument = {i1}
  Rate = {f1, f2}
  Name = {n1}
  Venue = {venueA}
  Global = "global"
  Target = {x1, x2}
  VenueOf <- MCVenueOf
  Asker = {a1}
  Nothing = Nothing
  AliasTime = {0, 1}
  MaxRows = 3
INVARIANTS SchemaIsAPrefix DecisionsStand OneAnswer PinnedWasNamed
PROPERTY HistoryIsStable
CHECK_DEADLOCK FALSE
