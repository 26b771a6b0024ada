CONSTANTS
    NSync = 2
    NAsync = 2
    NTpc = 3
    NBridge = 2
    Faults <- AllFaults
    Conns = {c1, c2, c3}
    MaxConnections = 2
    GcWorkers = {w1}
    Threshold = 2
    Failsafe = 3
    MaxRequests = 12
    AlLoops = {l1}
    AlConns = {a1, a2, a3}
    AlFds = 2
    AlTls = TRUE
    AlPorts <- OnePort
    RmServers = {s1, s2, s3}
    RmSpawns = 3
    RsProducers = {p1, p2}
    RsRequests = {q1, q2}
    RsCap = 2
    RsChunks = 4
    RsNobody = RsNobody
SPECIFICATION ServerSpec
INVARIANTS RunSafe SlotsExact SlotOutlivesThread NoHandlerAfterRefusal GcSafe AlSafe
PROPERTIES RunEnds SlotsReturn LullCollects AlLoopsEnd RmCorrect RsCorrect
CHECK_DEADLOCK FALSE
