CONSTANTS
  a1 = a1
  Attachments = {a1}
  Closers = {}
  ExecutorStalls = FALSE
  RuntimeDrops = FALSE
SPECIFICATION Spec
CHECK_DEADLOCK FALSE
INVARIANT ClosesAgree
