SPECIFICATION Spec
CONSTANTS
    Setups = {{"speech"}, {"arm"}}
    Objects = {"box"}
    QueueCapacity = 1
    MaxPlannerRequests = 2
    MaxUtterances = 2
    MaxGestures = 2
    MaxSegments = 4
    MaxRepetitions = 1
    MaxVersion = 2
INVARIANTS
    PauseGateHolds
    GestureFacesItsObstruction
    SpokenOnceInOrder
PROPERTIES
    CancelEndsTheRun
    CancelEndsTheWorkers
CHECK_DEADLOCK FALSE
