CONSTANTS
  a1 = a1
  k1 = k1
  k2 = k2
  Attachments = {a1}
  Closers = {k1, k2}
  ExecutorStalls = TRUE
  RuntimeDrops = TRUE
SPECIFICATION Spec
SYMMETRY ClientSymmetry
CHECK_DEADLOCK FALSE
INVARIANTS
  NoOrphan
  CloseCancelsAll
  FinalReportReleases
