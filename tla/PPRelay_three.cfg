CONSTANTS
  PPSize = 3
  Reqs = {r1, r2}
  Slots = {s1, s2}
  NoReq = NoReq
  K = 2
  Speculative = TRUE
  Plens = {1, 2}
  MaxLen = 5
  MaxInFlight = 4
  MaxSteps = 5
  MaxAborts = 0
SPECIFICATION Spec
INVARIANTS CollectivesMatch RelayedAgreement
SYMMETRY Symmetry
