SPECIFICATION Spec
CONSTANTS
    Callers = {c1, c2}
    Names <- MCNames
    None = None
    MaxSessions = 2
    MaxRegs = 2
INVARIANT OwnDisconnectNotAFault
CHECK_DEADLOCK FALSE
