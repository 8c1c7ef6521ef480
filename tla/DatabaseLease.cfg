SPECIFICATION LiveSpec
CONSTANTS
  Deployments = {a, b}
  None = none
  Length = 3
  Renewal = 1
  Window = 1
  Bounds <- MCBounds
INVARIANTS RunsAlone StopBeforeIsTrue
PROPERTY IsServed
CHECK_DEADLOCK FALSE
