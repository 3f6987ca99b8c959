SPECIFICATION Spec
CONSTANTS
    Requests = {r1}
    Nonces = {n1}
    None = None
    MaxReplies = 1
INVARIANT ExpiryIsReported
CHECK_DEADLOCK FALSE
