\* One robot without a gate, two HTTP threads, and liveness.
CONSTANTS
    Service = {s1}
    NoService = noService
    Gated = FALSE
    Client = {c1, c2}
    Closer = closer
    Request = {r1, r2}
    HistoryLimit = 1
    MaxAttempts = 3
    MaxRevision = 2
SPECIFICATION FairSpec
CHECK_DEADLOCK FALSE
INVARIANTS
    SignalBelongsToEpisode
    EpisodeIsolation
    ShutdownIsFinal
    RequestRunsOnce
PROPERTIES
    FaultStaysLatched
    StoppedNeverStarts
    StopSettles
