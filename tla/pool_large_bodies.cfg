CONSTANTS
    s1 = s1
    s2 = s2
    s3 = s3
    a1 = a1
    a2 = a2
    idle = idle
    Requests <- SyncReqs
    Kind <- AllSync
    NSync = 1
    NAsync = 0
    QueueSlots = 1
    Idle = idle
SPECIFICATION Spec
INVARIANTS LargeBodiesBounded
