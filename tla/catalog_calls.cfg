\* Every catalog mutation, in every order.
SPECIFICATION Spec
CONSTANTS
    Threads = {}
    Backends = {b1}
    NoBackend = NoBackend
    BootKinds = {"health"}
    Mandatory = {"health", "trust"}
    DefaultNeeds = {"health"}
    Initial <- RunningFree
    Requests <- Simples
    RegEvidence <- RegFresh
    Publications <- GoodOrBad
    Denials <- AllowAll
    FenceGenerations <- NoGeneration
    MaxBackends = 2
    MaxHistory = 2
    MaxIncarnations = 2
    MaxGen = 2
    MaxBackendGen = 2
    MaxBoot = 2
    MaxReg = 2
    MaxModelGen = 2
    MaxEpoch = 1
    MaxTime = 0
    MaxDecision = 0
    MaxDispatch = 0
    t1 = t1
    t2 = t2
    b1 = b1
    b2 = b2
    Workload = {"register_model", "retire_model", "register_backend", "unregister_backend", "fence_backend_boot", "apply_evidence", "update_latency", "set_trust", "set_cost", "set_snapshot"}
INVARIANTS
    IndexMatchesScan
    FencedNotRegistered
PROPERTIES
    AuthorityMonotone
\* The router is passive: it stops when no caller calls or a bound is reached.
CHECK_DEADLOCK FALSE
