\* One rotation of each end of a session.
SPECIFICATION Spec
CONSTANTS
    a = a
    b = b
    Devices = {a, b}
    MaxRotations = 1
    MaxSends = 2
    ReplayWindow = 2
    MaxClockSkew = 0
INVARIANT SessionsSurvive
CHECK_DEADLOCK FALSE
