CONSTANTS
    Frames = 4
    Bytes <- FourFrames
    MaxSize = 2
    Capacity = 1
    Readers = {r1, r2}
    Handler = r1
    None = None
SPECIFICATION BsFairSpec
INVARIANTS BodySafe
PROPERTIES BodyEnds
CHECK_DEADLOCK FALSE
