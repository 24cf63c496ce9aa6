SPECIFICATION Spec
CONSTANTS
    Clients = {"c1", "c2"}
    Closers = {"k1"}
    MaxRequests = 2
    MaxNoise = 1
INVARIANT RefusedNeverRuns
CHECK_DEADLOCK FALSE
