SPECIFICATION WalkFairSpec
CONSTANTS
    PagesPerSegment = 2
    MaxUnits = 13
    MetadataErrors = TRUE
INVARIANTS
    SizeWasReal
    FullButLast
    WalkInv
PROPERTIES
    WalkEnds
CHECK_DEADLOCK FALSE
