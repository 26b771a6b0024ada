CONSTANTS
    PgCallers = {c1, c2}
    PgRequests <- MCRequests
    PgUnset = PgUnset
    PgDefaultMax = 1
    PgDefaultTimeout = 30
    PgMain = {c1}
    CurRows = 2
    CurCapacity = 2
    CurReaders = {r1, r2, r3}
    CurNobody = CurNobody
SPECIFICATION Spec
INVARIANTS PgSafe CurSafe
PROPERTIES PgDelivers CurEnds
CHECK_DEADLOCK FALSE
