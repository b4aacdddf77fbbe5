SPECIFICATION TrustSpec
CONSTANTS
    MaxCandidates = 2
    MaxBraces = 3
    Product = product
    Capability = capability
    Other = other
    Details = {d1, d2}
    Deep = deep
    Extras = {e1, e2}
    Keys = {k1, k2}
    Malformed = malformed
    Weak = weak
CHECK_DEADLOCK FALSE
INVARIANTS
    FoundIsLast
    GreenIsDeserved
    CausesAreShown
    VerifiedIffDeserved
    OnlyUnnamedRaises
