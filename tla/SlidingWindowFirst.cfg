\* The first packet may be lost or overtaken.
SPECIFICATION Spec
CONSTANTS
    a = a
    b = b
    Ends <- BothEnds
    MaxData <- OneWay
    ReplayWindow = 3
    MaxClockSkew = 0
    WindowSize = 3
    MaxRetries = 0
    FirstInOrder = FALSE
INVARIANT AckedIsReceived
CHECK_DEADLOCK FALSE
