\* Fairness makes the state graph expensive: one route and a smaller bound,
\* still enough for a connection, its loss and the attempt to replace it.
SPECIFICATION Spec
CONSTANTS
  Callers = {c1, c2}
  MaxStreams = 1
  Routes = {"none"}
  MaxRevision = 3
PROPERTIES
  ShutdownCompletes
  DeadConnectionWithdrawn
  WaitersWake
CHECK_DEADLOCK FALSE
