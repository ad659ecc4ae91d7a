\* Three workers with uneven, fixed slices and idle workers: the inductive
\* invariant, the abstract batch, and liveness.
CONSTANTS
    Threads = 3
    Lanes = 2
    NonceSpace = 32
    ShareWork = FALSE
    Keys = {"k1", "k2"}
    Targets = {"easy", "hard"}
    Solutions <- MCSolutions
    Requests <- MCUneven
    MaxRuns = 2
    None = None
SPECIFICATION FairSpec
INVARIANTS
    Synchronised
PROPERTIES
    ImplementsBatchHash
    RunReturns
    DestructorJoins
