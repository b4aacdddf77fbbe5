SPECIFICATION Spec
CONSTANTS
    MaxCandidates = 1
    MaxBraces = 1
CHECK_DEADLOCK FALSE
INVARIANTS
    UncheckedIsNoScore
