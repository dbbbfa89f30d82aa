CONSTANTS
  hidden_states = hidden_states
  residual = residual
  PPSize = 3
  Hops <- BothHops
  MaxInFlight = 3
  MaxSteps = 4
SPECIFICATION Spec
INVARIANT TypeOK
PROPERTIES Refines PassesThrough
