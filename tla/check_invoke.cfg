SPECIFICATION FairSpec
CONSTANTS
    Visitors = {v1}
    NoVisitor = novisitor
    Sources = {s1, s2}
    Global = global
    VisitorLimit = 3
    SourceLimit = 2
    GlobalLimit = 3
    HOUR = 2
    TTL = 2
    MAX_CHALLENGES = 1
    MaxChecks = 1
    MaxAttempts = 2
    CheckTime = 1
    Addresses = {pub1, pub2, priv}
    Public = {pub1, pub2}
    NoAddress = noaddress
    Requests = {q1, q2}
    ChargeBound = 4
    ChallengeBound = 3
    MaxTime = 3
CHECK_DEADLOCK FALSE
INVARIANTS
    AtMostOneInvoke
    InvokeProven
    RunningIffExecuting
    SlotsAccounted
    HourlyAllowance
    OvershootBounded
PROPERTIES
    ReportStable
    ImplementsOneInvoke
    EveryCheckEnds
