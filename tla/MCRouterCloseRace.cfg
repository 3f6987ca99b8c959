SPECIFICATION FairSpec
CONSTANTS
    Dests = {d1}
    Callers = {c1, c2}
    None = None
    MaxSubs = 2
    MaxTokens = 2
    ChanCap = 1
PROPERTIES
    CloseReturns
CHECK_DEADLOCK FALSE
