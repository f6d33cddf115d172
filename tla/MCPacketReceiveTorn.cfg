SPECIFICATION Spec
CONSTANTS
    Tag = 9
    MaxContent = 2
    Contents <- MCContents
    MaxPackets = 1
INVARIANT DeliversPackets
CHECK_DEADLOCK FALSE
