SPECIFICATION Spec
CONSTANTS
  Launches <- SmallLaunches
CHECK_DEADLOCK FALSE
INVARIANTS LoadExact
PROPERTIES WrittenOnce LoadEnds
