\* Two robots whose services share the episode gate, one HTTP thread and the closer.
CONSTANTS
    Service = {s1, s2}
    NoService = noService
    Gated = TRUE
    Client = {c1}
    Closer = closer
    Request = {r1, r2}
    HistoryLimit = 1
    MaxAttempts = 2
    MaxRevision = 1
CONSTRAINT FewStarts
SYMMETRY Symmetry
SPECIFICATION Spec
CHECK_DEADLOCK FALSE
INVARIANTS
    OneEpisodeDrives
    GateTracksWork
