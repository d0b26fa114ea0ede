\* Evidence, price, expiry and shutdown racing the fallback walk of reroute.
SPECIFICATION Spec
CONSTANTS
    Threads = {t1}
    Backends = {b1, b2}
    NoBackend = NoBackend
    BootKinds = {"health"}
    Mandatory = {"health", "trust"}
    DefaultNeeds = {"health"}
    Initial <- RunningAll
    Requests <- RetryingExpiring
    RegEvidence <- RegFresh
    Publications <- JustGood
    Denials <- AllowAll
    FenceGenerations <- NoGeneration
    MaxBackends = 2
    MaxHistory = 2
    MaxIncarnations = 2
    MaxGen = 1
    MaxBackendGen = 1
    MaxBoot = 1
    MaxReg = 1
    MaxModelGen = 1
    MaxEpoch = 2
    MaxTime = 1
    MaxDecision = 2
    MaxDispatch = 1
    t1 = t1
    t2 = t2
    b1 = b1
    b2 = b2
    Workload = {"start", "shutdown", "route", "revalidate", "reroute", "apply_evidence", "set_cost"}
INVARIANTS
    CurrentAuthority
    FallbackJudged
    SupersededWasReplaced
\* The router is passive: it stops when no caller calls or a bound is reached.
CHECK_DEADLOCK FALSE
