CONSTANTS
    s1 = s1
    s2 = s2
    s3 = s3
    a1 = a1
    a2 = a2
    idle = idle
    Requests <- MixedReqs
    Kind <- Mixed
    NSync = 1
    NAsync = 1
    QueueSlots = 1
    Idle = idle
SPECIFICATION Spec
SYMMETRY SymAsync
INVARIANTS PermitsBalance NoOrphan FinalizeSafe PoolSafe
