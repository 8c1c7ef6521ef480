SPECIFICATION Spec
CONSTANTS
  Tasks = {t1}
  Bound <- Deep
INVARIANTS VersionsInTurn OnItsWayOnce NoForgottenHandback
PROPERTIES DeliverySpec SettledStands
CHECK_DEADLOCK FALSE
