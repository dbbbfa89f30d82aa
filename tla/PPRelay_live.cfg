CONSTANTS
  PPSize = 2
  Reqs = {r1, r2}
  Slots = {s1}
  NoReq = NoReq
  K = 2
  Speculative = TRUE
  Plens = {1}
  MaxLen = 5
  MaxInFlight = 3
  MaxSteps = 7
  MaxAborts = 1
SPECIFICATION FairSpec
INVARIANTS TypeOK CollectivesMatch RelayedAgreement
PROPERTY StepsComplete
\* A run ends at MaxSteps; a pipeline stuck before it fails StepsComplete.
CHECK_DEADLOCK FALSE
