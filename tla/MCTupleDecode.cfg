SPECIFICATION Spec
CONSTANTS
    Tables <- MCTables
    Values <- MCValues
    MayDrop = FALSE
    MaxAdded = 2
    Projections <- MCProjections
    BitmapBits = 2
INVARIANTS
    OffsetExact
    ValuesExact
    FailsWithCause
CHECK_DEADLOCK FALSE
