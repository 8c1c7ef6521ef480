SPECIFICATION Spec
CONSTANTS
  Turns = {e1, e2}
  FileParts = {2}
  MaxLines = 3
  Bound <- Rough
INVARIANTS OneByOne NoTailAfterFailure RowsTellTheTruth
SYMMETRY Alike
CHECK_DEADLOCK FALSE
