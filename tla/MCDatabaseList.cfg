SPECIFICATION Spec
CONSTANTS
    Dbs <- MCDbs
    DbNames = {"x", "y"}
    Slots = 2
    MaxChanges = 4
INVARIANTS
    ListInv
    UntouchedFound
    ListedExisted
CHECK_DEADLOCK FALSE
