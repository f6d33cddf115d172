SPECIFICATION Spec
CONSTANTS
    s1 = s1
    w1 = w1
    Senders = {s1}
    Workers = {w1}
    MaxSendArray = 2
    MaxPackets = 2
INVARIANT NoFault
CHECK_DEADLOCK FALSE
