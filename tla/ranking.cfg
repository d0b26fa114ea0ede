\* Candidates of one request, with small integers in which a large observation overflows.
SPECIFICATION Spec
CONSTANTS
    Candidates = {1, 2, 3}
    Requests <- Both
    Weights <- DefaultWeights
    Scale = 20
    Reference = 20
    MaxScore = 1023
    Bases <- AnyBase
    Values = {0, 1, 60}
    MaxChanges = 1
INVARIANTS
    TypeOK
    RankingCanonical
    ScoreExact
PROPERTIES
    MissingNeverFavoured
    WinnerStays
CHECK_DEADLOCK FALSE
