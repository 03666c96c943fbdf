SPECIFICATION ClusterSpec
CONSTANTS
    PageNumbers = 2
    MaxSlots = 2
    MaxTxns = 2
    MaxChanges = 2
    Operations = {"insert", "update", "delete", "lock", "abort", "vacuum"}
    CheckpointFirst = TRUE
INVARIANTS
    VisibilityInv
    NothingFromTheFuture
    NothingSuperseded
    OneCommittedVersion
    UntouchedReturned
CHECK_DEADLOCK FALSE
