SPECIFICATION FairSpec
CONSTANTS
    Visitors = {v1}
    Sources = {s1}
    NoHeader = noheader
    Global = global
    MAX_RUNS = 1
    MAX_SOURCE_RUNS = 1
    MAX_GLOBAL_RUNS = 1
    HOUR = 3
    MAX_CONCURRENCY = 1
    RUN_TIMEOUT_S = 2
    MAX_STORED_RUNS = 1
    EventUrl = TRUE
    Readers = {}
    RunBound = 1
    MaxTime = 3
CHECK_DEADLOCK FALSE
PROPERTIES
    EmitNeverFailsRun
