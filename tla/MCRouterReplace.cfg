SPECIFICATION Spec
CONSTANTS
    Dests = {d1}
    Callers = {c1, c2}
    None = None
    MaxSubs = 2
    MaxTokens = 2
    ChanCap = 1
INVARIANT UnexpectedExitReported
CHECK_DEADLOCK FALSE
