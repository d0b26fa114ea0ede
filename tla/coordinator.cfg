\* Two incarnations of one backend, a control client and every way to stop.
SPECIFICATION Spec
CONSTANTS
    Workers = {1, 2}
    Clients = {c1}
    Options <- RunOptions
    MaxRequests = 2
INVARIANTS
    TypeOK
    EndedSessionIsFenced
    StopJoinsEverySession
PROPERTIES
    HandoffImplementsHandler
    HandoffReturnsEventually
    StopReturns
CHECK_DEADLOCK FALSE
