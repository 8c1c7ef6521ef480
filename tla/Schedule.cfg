SPECIFICATION Spec
CONSTANTS
  Rules = {"once", "clock", "native"}
  Bounds <- MCBounds
INVARIANTS ActsOnceUnlessCrossed PassedIsHandled ActiveIsArmed
PROPERTIES EndedStands
CHECK_DEADLOCK FALSE
