\* Two user requests, six leases and reservations.
CONSTANTS
    UserRequest = {u1, u2}
    MaxGeneration = 6
SPECIFICATION AuthoritySpec
CHECK_DEADLOCK FALSE
INVARIANTS
    PreemptedIdleIsCancelled
    ReservationSpentOnce
PROPERTIES
    FaultIsFinal
