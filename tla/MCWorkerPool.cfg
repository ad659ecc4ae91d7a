\* Two workers, refilled chunks and fixed slices, two batches in a row.
CONSTANTS
    Threads = 2
    Lanes = 4
    NonceSpace = 32
    ShareWork = TRUE
    Keys = {"k1", "k2"}
    Targets = {"easy", "hard"}
    Solutions <- MCSolutions
    Requests <- MCRequests
    MaxRuns = 2
    None = None
SPECIFICATION Spec
INVARIANTS
    Handover
    ExactAnswer
    LearntFromWholeBatch
