SPECIFICATION ServiceSpec
CONSTANTS
  Ips = {"ip"}
  Users = {"u"}
  Nobody = "nobody"
  Paths = {"api_auth", "api", "page"}
  MaxHits <- MCMaxHits
  Window = 2
  TicksPerSecond = 2
  MaxTicks = 6
  Names = {ann, bob}
  Emails = {a, b}
  NoEmail = none
  MaxLinks = 3
  MaxRequests = 4
  MaxSeconds = 2
  Life = 2
  LinkLife = 1
  Messages <- MCMessages
  Cores <- MCCores
  MaxTurns = 3
  MaxSwaps = 1
SYMMETRY Symmetry
INVARIANTS
  TypeOK
  Budget
  EndedStaysEnded
  VerifiedIsProven
  NotLockedOut
  LinkOnce
  HurtLingers
  HurtFades
  RecallsItsOwn
PROPERTY RetryHonest
CHECK_DEADLOCK FALSE
