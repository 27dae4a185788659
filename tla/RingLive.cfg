CONSTANTS
    Bits = 3
    Nodes = {0, 5}
    Seed = 5
    Nil = Nil
    MayLose = TRUE
    MaxCrashes = 2
    MaxInFlight = 8
    MaxAfterCrash = 8
SPECIFICATION FairSpec
PROPERTIES PairConverges PredecessorComesBack
CHECK_DEADLOCK FALSE
