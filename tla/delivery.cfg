SPECIFICATION StartSpec
CONSTANTS
    Langs = {en, ru}
    English = en
    SwitchBound = 2
    Kits = {python, typescript}
    EditBound = 2
    BuildBound = 2
CHECK_DEADLOCK FALSE
INVARIANTS
    LanguagesAgree
    CheckedIsFaithful
    SavedIsOneBuild
    PageAgrees
PROPERTIES
    WaitsEnd
