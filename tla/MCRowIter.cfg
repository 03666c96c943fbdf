SPECIFICATION FairSpec
CONSTANTS
    PagesPerSegment = 2
    MaxUnits = 8
    U16 = 3
    PageLayouts <- MCPageLayouts
INVARIANTS
    IterInv
    PageMatchesCtid
    RowsExact
    RowsComplete
PROPERTIES
    ImplementsScan
    Terminates
CHECK_DEADLOCK FALSE
