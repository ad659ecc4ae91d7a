\* The statement of the documentation about completed work, for one GPU.
CONSTANTS
    NumGpus = 1
    GpuSpace = 1
    NonceSpace = 2
    Extranonces = 2
    Sizes = {1}
    CpuTotal = 1
    MaxCandidates = 0
    MaxGenerations = 2
    Modes = {"service"}
    None = None
SPECIFICATION Spec
PROPERTY OldJobWorkCounted
CHECK_DEADLOCK FALSE
