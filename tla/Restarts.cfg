SPECIFICATION LiveSpec
CONSTANTS
  Versions = {1, 2, 3}
  Good = {1, 2}
  First = 1
  None = none
  Requests = {r1, r2}
  Bounds <- MCBounds
INVARIANTS CarriedOnce RequestStands OwnRestartIsPlanned FallsBackToWhatRan
PROPERTY HostComesBack
CHECK_DEADLOCK FALSE
