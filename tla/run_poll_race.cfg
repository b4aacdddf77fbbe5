SPECIFICATION Spec
CONSTANTS
    Visitors = {v1, v2}
    Sources = {s1}
    NoHeader = noheader
    Global = global
    MAX_RUNS = 1
    MAX_SOURCE_RUNS = 2
    MAX_GLOBAL_RUNS = 2
    HOUR = 3
    MAX_CONCURRENCY = 1
    RUN_TIMEOUT_S = 2
    MAX_STORED_RUNS = 1
    EventUrl = FALSE
    Readers = {t1}
    RunBound = 2
    MaxTime = 3
CHECK_DEADLOCK FALSE
INVARIANTS
    PollIsAnswered
SYMMETRY VisitorSymmetry
