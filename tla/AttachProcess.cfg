\* One permit in all, so that the second semaphore refuses; a back-off that
\* doubles once and then stays.
CONSTANTS
  l1 = l1
  l2 = l2
  k1 = k1
  k2 = k2
  Listeners = {l1, l2}
  Http = {l2}
  Locals = {k1, k2}
  MaxListener = 1
  MaxTotal = 1
  MaxDelay = 2
SPECIFICATION Spec
CHECK_DEADLOCK FALSE
INVARIANTS
  BudgetsExact
  BackoffKept
  ExitReleases
PROPERTIES
  ProcessStops
