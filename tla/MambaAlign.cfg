CONSTANTS
  Launches <- SmallLaunches
SPECIFICATION Spec
INVARIANTS TypeOK RunningExact CheckpointsExact
