CONSTANTS
  c1 = c1
  c2 = c2
  Calls = {c1, c2}
  Plain = {c2}
  Limit = 1
  ReadBytes = 2
  MaxBody = 2
  MaxSize = 3
  MaxInterim = 1
SPECIFICATION Spec
CHECK_DEADLOCK FALSE
INVARIANTS
  BodyWhole
  FreedUnborrowed
  CloseReleases
PROPERTIES
  PausedBodyEnds
