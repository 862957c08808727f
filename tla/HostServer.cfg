CONSTANTS
  c1 = c1
  s1 = s1
  s2 = s2
  Connections = {c1}
  Streams = {s1, s2}
  Requests <- MCRequests
  MaxTcp = 1
SPECIFICATION Spec
CHECK_DEADLOCK FALSE
INVARIANTS
  OneResponseHead
  PermitsConserved
  NoDetachedUpload
PROPERTIES
  HalfCloseSurvives
  StopSendingReleases
  ShutdownCompletes
