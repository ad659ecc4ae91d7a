\* Windows that last into the next hours, lost connections, time without end.
CONSTANTS
    Period = 7
    FeeStart = 2
    FeeDuration = 3
    MaxIteration = 2
    MaxLost = 2
SPECIFICATION FairSpec
INVARIANTS
    ChargeBounded
    OncePerHour
PROPERTIES
    ServedFeeEnds
    FeeComesBack
