\* Both directions at once, with a network that delivers.
SPECIFICATION FairSpec
CONSTANTS
    a = a
    b = b
    Ends <- BothEnds
    MaxData <- TwoTwo
    ReplayWindow = 4
    MaxClockSkew = 0
    WindowSize = 1
    MaxRetries = 0
    FirstInOrder = TRUE
PROPERTY EverythingDelivered
CHECK_DEADLOCK FALSE
