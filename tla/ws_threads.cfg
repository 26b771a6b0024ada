CONSTANTS
    c1 = c1
    c2 = c2
    c3 = c3
    Conns <- Two
    MaxConnections = 1
SPECIFICATION Spec
INVARIANTS ThreadsBounded
CHECK_DEADLOCK FALSE
