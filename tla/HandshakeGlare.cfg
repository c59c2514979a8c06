\* Both devices call initiate() for each other.
SPECIFICATION Spec
CONSTANTS
    a = a
    b = b
    c = c
    Nil = Nil
    Devices <- TwoDevices
    Calls <- BothCall
    Restarters = {}
    Senders <- TwoDevices
    ReplayWindow = 2
    MaxClockSkew = 0
    MaxRestarts = 0
    MaxSends = 1
    MaxTime = 0
INVARIANT SameSecretSameKey
CHECK_DEADLOCK FALSE
