SPECIFICATION Spec
CONSTANTS
    VariantCount = 3
    Rotations <- MCRotations
    Representative <- MCRepresentative
    None = None
    Cut = Cut
    QuickBatches <- MCQuickBatches
    FullBatches <- MCFullBatches
    WorkerSamples = 1
    WidthSamples = 1
    FinalSamples = 2
    SaveEvery = 2
    SampleBound = 2
    Main = Main
    Gpu = Gpu
    Writers <- MCWriters
    Pieces = 2
    Starts <- MCStarts
    Environments <- MCEnvironments
INVARIANTS UsableTuning RightHashes WholeLines ScreenHandover GivesBack
PROPERTIES EndsCleanly ChoosingAdvances
CHECK_DEADLOCK FALSE
