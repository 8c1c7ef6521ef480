SPECIFICATION LiveSpec
CONSTANTS
  Workers = {w1, w2, w3}
  Attempts = {a1, a2}
  None = none
  Bounds <- MCBounds
INVARIANTS ToldCameBack StopsAreOfTheHost NoWorkerLeftOverUnlessOverlap
PROPERTIES ComesUp ToldInTheEnd
CHECK_DEADLOCK FALSE
