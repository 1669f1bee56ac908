SPECIFICATION ProfileSpec
CONSTANTS
    Names <- MCNames
    Graphs <- MCGraphs
    MaxAttempts = 2
INVARIANTS
    DependenciesFirst
    NothingLost
CHECK_DEADLOCK FALSE
