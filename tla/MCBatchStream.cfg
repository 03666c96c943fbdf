SPECIFICATION FairSpec
CONSTANTS
    PagesPerSegment = 2
    MaxUnits = 9
    DefaultPagesPerBatch = 3
    BatchSizes = {0, 1, 2}
    Ranges <- MCRanges
    IoErrors = {"open", "pread"}
    BadPages = {}
INVARIANTS
    StreamInv
    InOrder
    OnlyRequestedPages
    Complete
PROPERTIES
    ImplementsScan
    Terminates
