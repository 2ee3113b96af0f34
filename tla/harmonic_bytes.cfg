SPECIFICATION MCSpec
CONSTANTS
  w1 = w1
  w2 = w2
  i1 = i1
  i2 = i2
  c1 = c1
  c2 = c2
  a = a
  b = b
  c = c
  None = None
  Worker = {w1, w2}
  Identity = {i1, i2}
  Content = {c1, c2}
  Size <- MCSize
  Ceiling = 2
  MaxRuns = 2
  Absent = Absent
  Key = {a, b, c}
  Listed <- Sizes
  Actual <- Bodies
  Bound = {a, c}
  Doubled = {b}
  Malformed = {c}
  Held = {a}
  DownloadBudget = 4
  Allowance = 4
  Streams = TRUE
  MaxSource = 2
  MaxCrashes = 1
INVARIANTS ChargesAreBacked BytesAreCovered LineageIsExact NeverStranded
PROPERTIES RecoveryLeavesNoDebt ImplementsBudget
SYMMETRY MCSymmetry
CHECK_DEADLOCK FALSE
