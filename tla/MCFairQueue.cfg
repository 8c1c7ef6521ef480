CONSTANTS
    Scenes = {s1, s2, s3}
    Items = {item}
    NoScene = none
    MaxQueued = 3
    MaxStreak = 6
SPECIFICATION WaitsSpec
INVARIANTS AtMostTwoBeforeAPeer WaitIsBounded
