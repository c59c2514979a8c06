\* Three routers, all linked, and their routes to c.  A registered route scores
\* 1/3, more than the 0.95 * 0.81/3 of a route over one router.
SPECIFICATION FairSpec
CONSTANTS
    a = a
    b = b
    c = c
    Nodes = {a, b, c}
    Links = {{a, b}, {b, c}, {a, c}}
    Destinations = {c}
    RecvTimeouts = TRUE
    MaxHop = 4
    MaxTrust = 19
    Trusts = {20}
    Latencies = {3}
    MaxInbox = 1
    MaxLosses = 1
INVARIANTS
    TypeOK
    LoopFree
    WithinHopCount
    NothingDropped
PROPERTIES
    ReadersStop
    PacketsArrive
