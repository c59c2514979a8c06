\* Three devices: a may call b or c.  The applications of a and b restart once
\* each, so that sessions are re-keyed, and b sends as many packets as the replay
\* window holds besides its KEY_EXCHANGE; packets go stale after one tick.
SPECIFICATION FairSpec
CONSTANTS
    a = a
    b = b
    c = c
    Nil = Nil
    Devices <- ThreeDevices
    Calls <- CallsOfA
    Restarters = {a, b}
    Senders = {b}
    ReplayWindow = 2
    MaxClockSkew = 0
    MaxRestarts = 1
    MaxSends = 3
    MaxTime = 1
INVARIANTS
    TypeOK
    KeyConfirmed
    ConfirmedBySomePeer
    SequenceUnique
    NoDuplicateDelivery
    EphemeralsForgotten
PROPERTY HandshakeCompletes
CHECK_DEADLOCK FALSE
