SPECIFICATION FairSpec
CONSTANTS
  t1 = t1
  t2 = t2
  e1 = e1
  Opener = Opener
  None = None
  Turns = {t1, t2}
  Enders = {e1}
  SeedN = 2
  MinMsgs = 4
  Overlap = FALSE
  MaxSid = 3
  MaxCrash = 0
  MaxFault = 1
  MaxRaise = 1
  MaxOutage = 1
  MaxOutreach = 1
PROPERTY OwedTurnPickedUp
CHECK_DEADLOCK FALSE
