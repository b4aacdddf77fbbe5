SPECIFICATION Spec
CONSTANTS
    MaxDepth = 1
    MaxNodes = 3
    TreeBound = 4
    MaxPolls = 3
    PollTimeout = 1
    DnsTimeout = 1
    ReadTimeout = 2
    CheckTimeout = 4
    StopTimeout = 1
    MaxResponse = 2
CHECK_DEADLOCK FALSE
INVARIANTS
    ReportIsDeserved
    ReportIsOrdered
PROPERTIES
    EveryCheckEnds
