\* Both codecs over a value of every layout: empty, typical, at and over each limit.
SPECIFICATION Spec
CONSTANTS
    limits <- SmallLimits
    Inputs <- Samples
    Variants = {"zero", "typical", "full", "long_list", "long_string", "bad_enum"}
INVARIANTS
    TypeOK
    MessageSurvives
    StateSurvives
    DamageRefused
    ImageDeterministic
CHECK_DEADLOCK FALSE
