\* Two packets of the channel, one retry each.
SPECIFICATION Spec
CONSTANTS
    ReplayWindow = 3
    MaxClockSkew = 3
    BaseTimeout = 2
    MaxTimeout = 3
    MaxRetries = 1
    PollDelay = 1
    MaxSends = 2
INVARIANT AttemptsMade
