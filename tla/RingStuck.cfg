CONSTANTS
    Bits = 3
    Nodes = {0, 1, 5}
    Seed = 0
    Nil = Nil
    MayLose = FALSE
    MaxCrashes = 0
    MaxInFlight = 2
    MaxAfterCrash = 0
SPECIFICATION FairSpec
PROPERTIES EveryNodeStabilizes
CHECK_DEADLOCK FALSE
