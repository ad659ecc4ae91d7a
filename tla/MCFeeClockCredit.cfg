\* The comment on the clock: it advances only while the session is ready.
CONSTANTS
    Period = 7
    FeeStart = 2
    FeeDuration = 3
    MaxIteration = 2
    MaxLost = 2
SPECIFICATION Spec
INVARIANT CreditsMinedTime
