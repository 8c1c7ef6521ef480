SPECIFICATION LiveSpec
CONSTANTS
  Tasks = {t1}
  Bound <- Live
PROPERTY TasksSettle
CHECK_DEADLOCK FALSE
