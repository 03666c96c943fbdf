SPECIFICATION Spec
CONSTANTS
    PagesPerSegment = 2
    MaxUnits = 9
    DefaultPagesPerBatch = 3
    BatchSizes = {0, 1, 2}
    Ranges <- MCRanges
    IoErrors = {}
    BadPages = {}
    Cancellation = TRUE
INVARIANTS
    InnerNoneWhileInFlight
