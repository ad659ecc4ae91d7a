\* Two GPUs: stale and fresh results, full and shortened scans, errors, drains,
\* uploads and the destructor.
CONSTANTS
    NumGpus = 2
    Batches = {1, 2}
    Starts = {a}
    MaxJobs = 2
    None = None
SPECIFICATION FairSpec
INVARIANTS
    IInv
    LearnedBatchKept
PROPERTIES
    EngineQuiet
    ImplementsScanSlots
    DrainReturns
    StopJoins
