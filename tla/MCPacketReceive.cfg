SPECIFICATION Spec
CONSTANTS
    Tag = 9
    MaxContent = 2
    Contents <- MCContents
    MaxPackets = 3
INVARIANTS
    TypeOK
    IntactUntilTorn
    NoWrongAccusation
    NothingWaits
PROPERTIES
    TornOnlyIfBytesAreMissing
    EventuallyDelivered
CHECK_DEADLOCK FALSE
