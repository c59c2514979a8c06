\* A window of 3 and 7 numbers, so that the window slides right past packets
\* still in the network; one clock tick of skew, two ticks of time.
SPECIFICATION Spec
CONSTANTS
    ReplayWindow = 3
    MaxClockSkew = 1
    SeqLimit = 7
    MaxSends = 8
    MaxTime = 2
INVARIANTS
    TypeOK
    NoDoubleAccept
    WindowExact
    WindowBounded
    NoFalseReject
PROPERTY ImplementsAtMostOnce
CHECK_DEADLOCK FALSE
