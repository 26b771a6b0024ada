CONSTANTS
    MaxRoutes = 3
    Counts = {0, 1, 2, 3}
    Physical = 1
    Logical = 2
    Bridge = 1
    Default = Default
    PbServers = {"a", "b", "c"}
    PbAsked <- MCAsked
    PbPorts = {1, 2, 3}
    PbCopies = 2
    TsN = 2
    TsSteps = 2
    o1 = o1
    o2 = o2
    o3 = o3
    ShObjects = {o1, o2, o3}
    ShAppOf <- MCAppOf
    ShInWorker = {o2}
    ShMin <- MCMin
    ShMax = 1
    ShAmounts <- MCAmounts
    ShOps = 2
    ShNobody = ShNobody
    RtMethods = {"GET", "HEAD", "POST"}
    RtAsked = {"GET", "HEAD", "POST", "get", "head", "post", "PURGE"}
    RtUpperOf <- MCUpper
    RtPaths = {"a", "b"}
    RtPatterns = {"a", "b", "{x}", "{y}", "colon"}
    RtFiles = {"b"}
    RtMost = 3
    HcRequests = {h1, h2}
    HcBefore = 1
    HcAfter = 1
    HcOutcomes = {"none", "resp", "stream", "badresp", "raise"}
    q1 = q1
    q2 = q2
    q3 = q3
    SfRequests = {q1, q2, q3}
    SfLen <- MCLen
    SfOf <- MCOf
    SfCap = 2
    SfMax = 2
    RpReqs = {r1, r2}
    RpThreads = {t1, t2}
    RpRange = 4
    RpEvery = 2
    RpFloor = 500
    CoReqs = {"r1", "r2"}
    CoOffered <- MCOffered
    CoRaw <- MCRaw
    CoInline = 3
    CoSlots = 1
    CoMaxMin = 4
    CoNoBuf = "nobuf"
SPECIFICATION PartsSpec
INVARIANTS EveryCallServed WorkersKnowRoutes PlanSafe HcSafe TsSafe PbSafe SfSafe CoSafe RtSafe RpSafe
PROPERTIES ShCorrect
CHECK_DEADLOCK FALSE
