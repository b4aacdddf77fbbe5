SPECIFICATION FairSpec
CONSTANTS
    Visitors = {v1, v2}
    Sources = {s1}
    NoHeader = noheader
    Global = global
    MAX_RUNS = 1
    MAX_SOURCE_RUNS = 2
    MAX_GLOBAL_RUNS = 2
    HOUR = 3
    MAX_CONCURRENCY = 2
    RUN_TIMEOUT_S = 2
    MAX_STORED_RUNS = 1
    EventUrl = TRUE
    Readers = {t1}
    RunBound = 3
    MaxTime = 5
CHECK_DEADLOCK FALSE
INVARIANTS
    SlotsAccounted
    PendingIffLive
    HourlyAllowance
    StoreBound
    OnlyOwnerLearns
PROPERTIES
    ImplementsLifecycle
    EveryRunEnds
