SPECIFICATION Spec
CONSTANTS
    Tables <- MCTables
    Values <- MCValues
    MayDrop = TRUE
    MaxAdded = 0
    Projections <- MCProjections
    BitmapBits = 2
INVARIANTS
    ValuesExact
CHECK_DEADLOCK FALSE
