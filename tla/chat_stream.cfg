SPECIFICATION FairSpec
CONSTANTS
  Clients = {"web", "mobile"}
  MaxTurns = 2
  MaxChunks = 2
  MaxLost = 2
  LateBreak = FALSE
INVARIANTS
  TypeOK
  OneInFlight
  TextIsReply
  LogInOrder
  Remembered
PROPERTY KeepsPromise
CHECK_DEADLOCK FALSE
