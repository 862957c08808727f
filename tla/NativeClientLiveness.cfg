CONSTANTS
  a1 = a1
  k1 = k1
  Attachments = {a1}
  Closers = {k1}
  ExecutorStalls = FALSE
  RuntimeDrops = TRUE
SPECIFICATION Spec
CHECK_DEADLOCK FALSE
PROPERTIES
  StartupAnswered
  ClientCloseReturns
