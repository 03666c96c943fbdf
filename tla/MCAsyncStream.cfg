SPECIFICATION FairSpec
CONSTANTS
    PagesPerSegment = 2
    MaxUnits = 9
    DefaultPagesPerBatch = 3
    BatchSizes = {0, 1, 2}
    Ranges <- MCRanges
    IoErrors = {"open", "pread"}
    BadPages = {2}
    Cancellation = TRUE
INVARIANTS
    AsyncInv
    OneBatchInMemory
PROPERTIES
    ImplementsScan
    Terminates
