SPECIFICATION ClusterSpec
CONSTANTS
    PageNumbers = 2
    MaxSlots = 2
    MaxTxns = 2
    MaxChanges = 2
    Operations = {"insert", "abort"}
    CheckpointFirst = TRUE
INVARIANTS
    WrittenByCommitted
CHECK_DEADLOCK FALSE
