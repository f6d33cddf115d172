SPECIFICATION Spec
CONSTANTS
    w1 = w1
    Senders = {w1}
    Workers = {w1}
    MaxSendArray = 2
    MaxPackets = 6
PROPERTY
    EventuallySent
CHECK_DEADLOCK FALSE
