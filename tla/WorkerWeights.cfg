CONSTANTS
  r1 = r1
  r2 = r2
  a = a
  b = b
  s = s
  d = d
  buf = buf
  dbuf = dbuf
  Ranks = {r1, r2}
  Launches <- SmallLaunches
  Lora = lora
  DraftPattern = DraftPattern
  SupportsDraft = TRUE
  MaxSessions = 2
  MaxFaults = 1
SPECIFICATION Spec
INVARIANTS TypeOK ClientView IdleTargetsBase RanksAgree
CHECK_DEADLOCK FALSE
