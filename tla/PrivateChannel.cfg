\* Two packets of the channel and the cover packets between them.  The
\* backoff 2, 3 and polls one tick late just fit into the clock skew; the
\* numbers drawn meanwhile, one real and one cover packet, can fill the replay
\* window.
SPECIFICATION PrivateSpec
CONSTANTS
    ReplayWindow = 2
    MaxClockSkew = 3
    BaseTimeout = 2
    MaxTimeout = 3
    MaxRetries = 1
    PollDelay = 1
    MaxSends = 3
    MaxReal = 2
    CoverInterval = 2
    MaxPad = 7
    TargetSize = 10
    BlockSize = 4
    RandomPad = 1
    Lengths = {1, 2, 3, 8, 9}
INVARIANTS
    TypeOK
    Accounted
    AckedIsDelivered
    NeverReportedEarly
    RetransmissionFresh
    PaddingRoundTrip
PROPERTIES
    NoFutileRetransmission
    Settles
