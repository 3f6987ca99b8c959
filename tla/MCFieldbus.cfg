SPECIFICATION Spec
CONSTANTS
    Callers = {c1, c2, c3}
    Names <- MCNames
    None = None
    MaxSessions = 3
    MaxRegs = 2
SYMMETRY Perms
INVARIANTS
    TypeOK
    SessionOwned
    OnlyLateReported
CHECK_DEADLOCK FALSE
