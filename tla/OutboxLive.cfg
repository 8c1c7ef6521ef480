SPECIFICATION LiveSpec
CONSTANTS
  Turns = {e1}
  FileParts = {1}
  MaxLines = 3
  Bound <- Told
PROPERTY LinesSettle
CHECK_DEADLOCK FALSE
