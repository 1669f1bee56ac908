SPECIFICATION VoteSpec
CONSTANTS
    Good = Good
    Stale = Stale
    PyNone = PyNone
    Dtbs = {Good, Stale}
    Images <- MCImages
INVARIANTS
    WellStacked
    BestStack
    RightDtb
PROPERTY
    VotingEnds
CHECK_DEADLOCK FALSE
