SPECIFICATION FairSpec
CONSTANTS
    b1 = b1
    b2 = b2
    b3 = b3
    b4 = b4
    Batches = {b1, b2, b3, b4}
    Earlier <- MCEarlier
    MaxQueueLen = 1
    DrainPerCycle = 2
    Faults = {"lost_reply", "push", "trim", "count", "push_reply", "pop_reply", "unreadable", "requeue", "restart"}
    MaxFaults = 2
INVARIANTS
    TypeOK
    StoredOnce
    EveryBatchAccounted
PROPERTIES
    BufferDrains
