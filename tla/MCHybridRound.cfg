\* Safety: one GPU, a region that a full and a shortened scan do not divide,
\* a CPU region that a batch does not divide, two jobs.
CONSTANTS
    NumGpus = 1
    GpuSpace = 3
    NonceSpace = 8
    Extranonces = 3
    Sizes = {1, 2}
    CpuTotal = 2
    MaxCandidates = 1
    MaxGenerations = 2
    Modes = {"service", "blocking", "gpu"}
    None = None
SPECIFICATION Spec
INVARIANTS
    RegionsApart
    CountedWasComputed
PROPERTIES
    CpuNoncesFresh
    NothingStartsAfterStop
CHECK_DEADLOCK FALSE
