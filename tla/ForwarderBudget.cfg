CONSTANTS
  l1 = l1
  l2 = l2
  k1 = k1
  k2 = k2
  k3 = k3
  Listeners = {l1, l2}
  Http = {}
  Locals = {k1, k2, k3}
  MaxListener = 1
  MaxTotal = 3
  MaxDelay = 2
SPECIFICATION Spec
CHECK_DEADLOCK FALSE
INVARIANT ProcessBudget
