SPECIFICATION Spec
CONSTANTS
    Manifests = {m1, m2}
    Unreadable = unreadable
    ChallengeBound = 2
    FileBound = 2
CHECK_DEADLOCK FALSE
INVARIANTS
    FormIsBound
    ShownIsStored
    PanelsAgree
PROPERTIES
    WaitsOnlyForNetwork
