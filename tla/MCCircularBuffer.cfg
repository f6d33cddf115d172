SPECIFICATION Spec
CONSTANTS
    a = a
    b = b
    Byte = {a, b}
    Junk = Junk
    MaxPacketSize = 2
    DefBufferSize = 3
    MaxBufferSize = 6
INVARIANTS
    TypeOK
    OverrunOnlyPastEnd
PROPERTY ImplementsByteQueue
CHECK_DEADLOCK FALSE
