\* Two GPUs: a result of one is submitted while the other scans, jobs arrive
\* in between, rounds end with scans in flight.
CONSTANTS
    NumGpus = 2
    GpuSpace = 2
    NonceSpace = 4
    Extranonces = 2
    Sizes = {1}
    CpuTotal = 1
    MaxCandidates = 1
    MaxGenerations = 2
    Modes = {"service", "blocking", "gpu"}
    None = None
SPECIFICATION FairSpec
INVARIANTS
    SubmitsWhatWasHashed
    StaleForAReason
    SilentAfterFailure
PROPERTY RoundReturns
CHECK_DEADLOCK FALSE
