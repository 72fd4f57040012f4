SPECIFICATION Spec
CONSTANTS
  t1 = t1
  t2 = t2
  t3 = t3
  e1 = e1
  Opener = Opener
  None = None
  Turns = {t1, t2, t3}
  Enders = {e1}
  SeedN = 2
  MinMsgs = 4
  Overlap = TRUE
  MaxSid = 2
  MaxCrash = 0
  MaxFault = 0
  MaxRaise = 0
  MaxOutage = 0
  MaxOutreach = 0
INVARIANT NeverReReflected
CHECK_DEADLOCK FALSE
