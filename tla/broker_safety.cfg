SPECIFICATION MCSpec
CONSTANTS
  o1 = o1
  o2 = o2
  m1 = m1
  b1 = b1
  y1 = y1
  y2 = y2
  NoRequest = NoRequest
  NoOrder = NoOrder
  Operator = {o1, o2}
  Artifact = {m1}
  Payloads <- MCPayloads
  MaxEvents = 4
  MaxClock = 1
  Broker = {b1}
  Trades <- MCTrades
  Order = {y1, y2}
  MaxSends = 3
  MaxRestarts = 1
INVARIANTS LiveIsAuthorized OthersAreKnown
PROPERTIES EventsFollowLifecycle OrdersWereApproved
CHECK_DEADLOCK FALSE
SYMMETRY MCSymmetry
