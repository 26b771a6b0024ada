CONSTANTS
    NSync = 1
    NAsync = 1
    NTpc = 1
    NBridge = 0
    Faults <- PoolSpawnOnly
SPECIFICATION RunSpec
INVARIANTS FailedSpawnQuiet
