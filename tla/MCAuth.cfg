SPECIFICATION FairSpec
CONSTANTS
    Configs <- MCConfigs
    Texts <- MCTexts
    MaxStepErrLen = 12
INVARIANTS
    TypeOK
    OnlyOverlookedLeft
    LegsInOrder
    TeardownSettled
    LogLineSafe
PROPERTIES
    ExchangeReturns
CHECK_DEADLOCK FALSE
