SPECIFICATION Spec
CONSTANTS
  Calls = {c1}
  Inputs = {file, search, integration}
  Local = {file}
  Gated = {integration}
  Threads = {t1, t2}
  NoLock = free
  Block = 2
  Window = 1
  Bounds <- MCBounds
INVARIANTS RunsOnce AnswersStand NoLocalToolAfterTask ClockIsKept
PROPERTIES GivenIsNotCut
SYMMETRY Alike
CHECK_DEADLOCK FALSE
