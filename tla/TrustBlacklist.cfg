\* The same store; the operator may blacklist one identity.
SPECIFICATION Spec
CONSTANTS
    a = a
    b = b
    c = c
    d = d
    None = None
    Ids <- FourIds
    Initial <- TwoFirst
    Endorsements <- Cyclic
    Suspects <- OneFirst
    AllowTofu = TRUE
    MinTrust = 1
    MaxDepth = 2
    MaxRotations = 1
    MaxClockSkew = 0
    MaxTime = 1
PROPERTY MigratesOnlyTrusted
CHECK_DEADLOCK FALSE
