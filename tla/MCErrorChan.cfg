SPECIFICATION Spec
CONSTANTS
    Publishers = {p1, p2, p3, p4, p5, p6}
    ErrorChanBuffer = 2
SYMMETRY Perms
INVARIANTS
    TypeOK
    GaveUpOutpaced
    BurstObservable
    MostRecentKept
CHECK_DEADLOCK FALSE
