SPECIFICATION MdSpec
CONSTANTS
    b1 = b1
    b2 = b2
    i1 = i1
    g1 = g1
    g2 = g2
    t1 = t1
    t2 = t2
    p1 = p1
    MdBridged = {b1, b2}
    MdInline = {i1}
    MdBlocking = {g1, g2}
    MdStreamed = {b2, g2}
    MdBridgeThreads = {t1, t2}
    MdPoolThreads = {p1}
    MdCapacity = 1
    MdRunner = MdRunner
    MdNone = MdNone
INVARIANTS MdSafe
PROPERTIES MdImplements MdEnds
CHECK_DEADLOCK FALSE
