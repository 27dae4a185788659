CONSTANTS
    Threads = {"main", "routine"}
    Script <- TwoWriters
    Size = 2
    ChanCap = 1
    MayClose = TRUE
    MaxOthers = 1
    Other = Other
    Failed = Failed
    None = None
SPECIFICATION FairSpec
INVARIANTS TypeOK HandledInOrder StreamIsWhole
PROPERTIES StreamIsClosed OthersAreHeard
CHECK_DEADLOCK FALSE
