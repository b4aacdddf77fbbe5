SPECIFICATION FairSpec
CONSTANTS
    Runs = {r1, r2, r3}
    NoRun = norun
    Capacity = 1
    Loops = {l1, l2}
    Deadline = 3
    FetchTimeout = 2
CHECK_DEADLOCK FALSE
INVARIANTS
    OneRunAtATime
    ShownIsPolled
    ShownWasPublished
PROPERTIES
    OnlyBodiesStall
