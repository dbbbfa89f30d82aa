SPECIFICATION Spec
CONSTANTS
  Launches <- SmallLaunches
INVARIANTS TypeOK KvExact DraftsSound
CHECK_DEADLOCK FALSE
