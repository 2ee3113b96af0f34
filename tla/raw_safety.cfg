SPECIFICATION Spec
CONSTANTS
  w1 = w1
  w2 = w2
  r1 = r1
  t1 = t1
  t2 = t2
  c1 = c1
  c2 = c2
  a1 = a1
  a2 = a2
  m1 = m1
  None = None
  Writer = {w1, w2}
  Reconciler = {}
  Temp = {t1, t2}
  Content = {c1, c2}
  AcqId = {a1, a2}
  Meta = {m1}
  Jobs <- MCJobs
  DryRun = FALSE
  EagerAge = FALSE
  MaxAttempts = 3
  MaxCrashes = 1
INVARIANT AckedIsRegistered
PROPERTY ImplementsLedger
SYMMETRY MCSymmetry
CHECK_DEADLOCK FALSE
