SPECIFICATION Spec
CONSTANTS
    Settling = 1
    NoAnchor = NoAnchor
    NoOrigin = NoOrigin
    Slices = 2
    SliceTravel = 2
    TurnSlip = 1
    Goal = 4
    MaxTurns = 2
    MaxTail = 1
    MaxEpisodes = 2
    MaxMotions = 2
    MaxMishaps = 1
    PushPhases = {"off"}
    ScanTolerance = 1
    Resets = {TRUE, FALSE}
INVARIANTS
    PoseIsTrue
    GoalWasReached
    CleanMeansReleased
    FaultIsNotDriven
PROPERTIES
    EpisodeEnds
CHECK_DEADLOCK FALSE
