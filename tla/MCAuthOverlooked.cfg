SPECIFICATION Spec
CONSTANTS
    Configs <- MCConfigs
    Texts <- MCTexts
    MaxStepErrLen = 12
INVARIANT SocketsReleased
CHECK_DEADLOCK FALSE
