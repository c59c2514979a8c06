\* Up to four packets one way and one the other, two in flight, a replay window
\* of three; DATA packets get through, SACKs need not.
SPECIFICATION FairSpec
CONSTANTS
    a = a
    b = b
    Ends <- BothEnds
    MaxData <- FourOne
    ReplayWindow = 3
    MaxClockSkew = 0
    WindowSize = 2
    MaxRetries = 1
    FirstInOrder = TRUE
INVARIANTS
    TypeOK
    AckedIsReceived
    NothingWithheld
PROPERTIES
    ImplementsStream
    OneDirectionDelivered
    WindowSettles
CHECK_DEADLOCK FALSE
