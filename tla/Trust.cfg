\* Two devices with up to two rotations between them; transitions stamped now or
\* one tick ahead.
SPECIFICATION Spec
CONSTANTS
    a = a
    b = b
    c = c
    d = d
    None = None
    Ids <- FourIds
    Initial <- TwoFirst
    Endorsements <- Cyclic
    Suspects <- OneFirst
    AllowTofu = TRUE
    MinTrust = 1
    MaxDepth = 2
    MaxRotations = 1
    MaxClockSkew = 0
    MaxTime = 1
INVARIANTS TypeOK Rooted EndorsedHasEndorsers AppliedOnce
PROPERTY NeverDowngraded
CHECK_DEADLOCK FALSE
