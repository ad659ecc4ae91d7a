SPECIFICATION MCSpec
CONSTANTS
    None = None
    Rotations = {"light", "twin", "heavy"}
    Page <- MCPage
    Preferred <- MCPreferred
    ClassBatch <- MCClassBatch
    FastLite = {"light", "twin"}
    Capacity = 7
    Budget = 8
    Align = 1
    Caps = {0, 3}
    MinTuned = 3
    Samples = 2
    SlotCount = 3
    Quantum = 3
    MinBatch = 3
    OpeningBatch = 3
    Latencies = {70, 95, 109, 125}
    Stable = 2
    MarginalWins = 2
    LostCooldown = 2
    WonCooldown = 1
    Confirmed = 3
    Reopen = 3
    CleanScans = 2
    CnFamily <- MCCnFamily
    Seeds = {0, 3}
CONSTRAINT MCApart
INVARIANTS TypeOK BatchInBounds FairComparison TunedOnItsBatch
PROPERTIES ProgressKept
VIEW MCView
