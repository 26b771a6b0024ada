CONSTANTS
    Frames = 1
    Bytes <- OneFrame
    MaxSize = 1
    Capacity = 1
    Readers = {r1, r2}
    Handler = r1
    None = None
SPECIFICATION BsFairSpec
PROPERTIES ReadsReturn
CHECK_DEADLOCK FALSE
