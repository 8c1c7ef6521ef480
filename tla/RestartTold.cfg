SPECIFICATION LiveSpec
CONSTANTS
  Versions = {1, 2, 3}
  Good = {1, 2}
  First = 1
  None = none
  Requests = {r1}
  Bounds <- FellBounds
PROPERTY CalledAfterFallback
CHECK_DEADLOCK FALSE
