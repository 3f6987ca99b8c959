SPECIFICATION FairSpec
CONSTANTS
    Requests = {r1, r2}
    Nonces = {n1, n2}
    None = None
    MaxReplies = 2
INVARIANTS
    TypeOK
    OwnReply
    NoReplyMissed
    NothingLeftSubscribed
PROPERTIES
    BoundedByCtx
CHECK_DEADLOCK FALSE
