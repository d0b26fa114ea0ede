\* Fences, re-registrations, evidence, shutdown and start racing route, revalidate and dispatch.
SPECIFICATION Spec
SYMMETRY Symmetry
CONSTANTS
    Threads = {t1, t2}
    Backends = {b1}
    NoBackend = NoBackend
    BootKinds = {"health"}
    Mandatory = {"health", "trust"}
    DefaultNeeds = {"health"}
    Initial <- RunningFree
    Requests <- Simples
    RegEvidence <- RegFresh
    Publications <- JustBad
    Denials <- AllowAll
    FenceGenerations <- NoGeneration
    MaxBackends = 2
    MaxHistory = 2
    MaxIncarnations = 2
    MaxGen = 1
    MaxBackendGen = 1
    MaxBoot = 2
    MaxReg = 2
    MaxModelGen = 1
    MaxEpoch = 2
    MaxTime = 0
    MaxDecision = 1
    MaxDispatch = 1
    t1 = t1
    t2 = t2
    b1 = b1
    b2 = b2
    Workload = {"start", "shutdown", "route", "revalidate", "dispatch", "register_backend", "fence_backend_boot", "apply_evidence"}
INVARIANTS
    CurrentAuthority
    NoHandoffAfterFence
PROPERTIES
    OldEpochNeverRevived
\* The router is passive: it stops when no caller calls or a bound is reached.
CHECK_DEADLOCK FALSE
