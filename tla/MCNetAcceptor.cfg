SPECIFICATION FairSpec
CONSTANTS
    Buffers = {b1, b2, b3}
    Workers = {w1, w2}
    Registered = 2
    MaxPeers = 6
    NoBuffer = none
INVARIANTS TypeOK LastAccepts ClosedByShutdown
PROPERTY EventuallyAccepted
CHECK_DEADLOCK FALSE
