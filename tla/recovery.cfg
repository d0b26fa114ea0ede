\* One saver, two processes, and crashes at every point of a save.
SPECIFICATION Spec
CONSTANTS
    Savers = {s1}
    SaveOnShutdown = FALSE
    MaxIncarnations = 1
    DefaultIncarnations = 2
    MaxHistory = 1
    MaxBoot = 2
    MaxId = 2
    MaxProcess = 2
    MaxEpoch = 3
INVARIANTS
    TypeOK
    FileLoads
    RecoveredNeverCurrent
    SavedFencesSurvive
PROPERTIES
    DurableIdNotReissued
CHECK_DEADLOCK FALSE
