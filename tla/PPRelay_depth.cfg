CONSTANTS
  PPSize = 2
  Reqs = {r1}
  Slots = {s1}
  NoReq = NoReq
  K = 2
  Speculative = TRUE
  Plens = {1}
  MaxLen = 5
  MaxInFlight = 3
  MaxSteps = 7
  MaxAborts = 0
SPECIFICATION Spec
INVARIANTS OutputsRelayed
