SPECIFICATION Spec
CONSTANTS
    PageSize = 3
    VSize = 9
    FSize = 6
    Frames = {0, 1}
    Translations <- MCTranslations
    RunLists = {}
    Lengths = {1, 3, 5, 7}
    MaxCalls = 2
    WriteEnabled = TRUE
    None = None
INVARIANT
    ReadReturnsRange
CHECK_DEADLOCK FALSE
