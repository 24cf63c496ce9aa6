SPECIFICATION Spec
CONSTANTS
    Setups = {{"arm"}}
    Objects = {}
    QueueCapacity = 1
    MaxPlannerRequests = 2
    MaxUtterances = 2
    MaxGestures = 2
    MaxSegments = 4
    MaxRepetitions = 1
    MaxVersion = 2
INVARIANT NeverOverlaps
CHECK_DEADLOCK FALSE
