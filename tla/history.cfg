\* Concurrent commits at max_route_history, with revalidations, dispatches and new evidence.
SPECIFICATION Spec
SYMMETRY Symmetry
CONSTANTS
    Threads = {t1, t2}
    Backends = {b1}
    NoBackend = NoBackend
    BootKinds = {"health"}
    Mandatory = {"health", "trust"}
    DefaultNeeds = {"health"}
    Initial <- RunningFree
    Requests <- Simples
    RegEvidence <- RegFresh
    Publications <- JustGood
    Denials <- AllowAll
    FenceGenerations <- NoGeneration
    MaxBackends = 2
    MaxHistory = 2
    MaxIncarnations = 2
    MaxGen = 1
    MaxBackendGen = 1
    MaxBoot = 1
    MaxReg = 1
    MaxModelGen = 1
    MaxEpoch = 1
    MaxTime = 0
    MaxDecision = 3
    MaxDispatch = 1
    t1 = t1
    t2 = t2
    b1 = b1
    b2 = b2
    Workload = {"route", "revalidate", "dispatch", "record_completion", "apply_evidence"}
INVARIANTS
    TypeOK
    HistoryConsistent
    CompletionTraceable
    JudgesItsRecord
\* The router is passive: it stops when no caller calls or a bound is reached.
CHECK_DEADLOCK FALSE
