\* One incarnation is enough: it dies while the coordinator registers it.
SPECIFICATION Spec
CONSTANTS
    Workers = {1}
    Clients = {c1}
    Options <- ClaimOptions
    MaxRequests = 1
INVARIANT
    ClosedSessionIsFenced
CHECK_DEADLOCK FALSE
