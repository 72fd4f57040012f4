SPECIFICATION Spec
CONSTANTS
  Clients = {"web", "mobile"}
  MaxTurns = 1
  MaxChunks = 1
  MaxLost = 1
  LateBreak = TRUE
PROPERTY FinalStays
CHECK_DEADLOCK FALSE
