\* A state whose image is over max_payload_bytes is saved and cannot be loaded.
SPECIFICATION Spec
CONSTANTS
    limits <- TightLimits
    Inputs <- Samples
    Variants = {"typical", "full"}
INVARIANTS
    SavedStateLoads
CHECK_DEADLOCK FALSE
