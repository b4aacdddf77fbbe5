SPECIFICATION Spec
CONSTANTS
    Python = {p1, p2}
    TypeScript = {t1}
    AttemptBound = 3
CHECK_DEADLOCK FALSE
INVARIANTS
    ChargesAreAuthorized
    SentIsOnRecord
    SuccessIsSaved
