SPECIFICATION Spec
CONSTANTS
    s1 = s1
    s2 = s2
    w1 = w1
    Senders = {s1, s2}
    Workers = {w1}
    MaxSendArray = 2
    MaxPackets = 2
SYMMETRY Symmetry
INVARIANTS
    TypeOK
    NoPacketLost
    OvershootBounded
    StuckBehindFullQueueOnly
    FaultOnlyWhenCrowded
PROPERTY
    ImplementsPipe
CHECK_DEADLOCK FALSE
