\* The comment on the fee schedule: the client returns to the user's pool.
CONSTANTS
    Period = 7
    FeeStart = 2
    FeeDuration = 3
    MaxIteration = 2
    MaxLost = 2
SPECIFICATION FairSpec
PROPERTY FeeReturns
