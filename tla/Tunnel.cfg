CONSTANTS
  MaxBody = 3
  ChunkLen = 2
  MaxFrame = 3
  MaxSize = 4
  Window = 2
  IdleTimeout = 3
SPECIFICATION Spec
CHECK_DEADLOCK FALSE
INVARIANTS
  UploadWhole
  LimitExact
  ExpiresOnlyIdle
PROPERTIES
  ImplementsExchange
  RequestMovesOn
  SilentRelayEnds
