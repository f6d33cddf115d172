SPECIFICATION Spec
CONSTANTS
    NetThreads = {n1, n2}
    GameThreads = {g1, g2}
    MaxUses = 2
    MaxReads = 3
    MaxPackets = 3
SYMMETRY Symmetry
INVARIANTS TypeOK PacketsAreAnnounced StraysNeedOverlap PoolBalance
CHECK_DEADLOCK FALSE
