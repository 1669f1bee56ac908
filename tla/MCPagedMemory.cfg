SPECIFICATION Spec
CONSTANTS
    PageSize = 3
    VSize = 9
    FSize = 7
    Frames = {1, 2, 3}
    Translations <- MCTranslations
    RunLists <- MCRunLists
    Lengths = {1, 3, 5, 7}
    MaxCalls = 2
    WriteEnabled = TRUE
    None = None
INVARIANTS
    TypeOK
    ReadExact
PROPERTIES
    WriteConfined
CHECK_DEADLOCK FALSE
