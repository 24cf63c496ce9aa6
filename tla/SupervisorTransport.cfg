SPECIFICATION Spec
CONSTANTS
    Clients = {"c1"}
    Closers = {"k1", "k2"}
    MaxRequests = 1
    MaxNoise = 1
INVARIANT NoFalseAlarm
CHECK_DEADLOCK FALSE
PROPERTIES
    ChannelIsKept
    CallsReturn
