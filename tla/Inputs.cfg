SPECIFICATION LiveSpec
CONSTANTS
    MaxLines = 2
    Bound <- MCBound
INVARIANTS CarriedOnce AbsorbedGetsNoTurn AnsweredOnceUnlessShownBefore
PROPERTIES InputsSettle InArrivalOrder SavedWorkStands
CHECK_DEADLOCK FALSE
