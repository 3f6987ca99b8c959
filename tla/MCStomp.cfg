SPECIFICATION FairSpec
CONSTANTS
    Subs = {s1}
    CtxSubs = {s1}
    Callers = {c1}
    CtxCaller = CtxCaller
    None = None
    SrcBuf = 1
    ChanBuf = 1
    MaxMsgs = 4
INVARIANTS
    TypeOK
    NoUnsubscribeUnderClose
    OneAttempt
    ForwardedIsPrefix
    EndKnown
    EndedIsReal
PROPERTIES
    UnsubscribeReturns
    ImplementsSubscription
    SubscriptionEnds
    EndReachesBridges
    DisconnectReturns
CHECK_DEADLOCK FALSE
