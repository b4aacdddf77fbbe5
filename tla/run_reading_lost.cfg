SPECIFICATION BudgetSpec
CONSTANTS
    Visitors = {v1}
    Sources = {s1}
    NoHeader = noheader
    Global = global
    MAX_RUNS = 1
    MAX_SOURCE_RUNS = 1
    MAX_GLOBAL_RUNS = 1
    HOUR = 4
    MAX_CONCURRENCY = 1
    RUN_TIMEOUT_S = 3
    MAX_STORED_RUNS = 1
    EventUrl = FALSE
    Readers = {}
    RunBound = 1
    MaxTime = 4
    METIS_CEILING_S = 2
CHECK_DEADLOCK FALSE
PROPERTIES
    ReadingStaysVisible
