\* Files on the ring: two nodes, one file.
CONSTANTS
    Bits = 3
    Nodes = {0, 5}
    Seed = 5
    Nil = Nil
    MayLose = FALSE
    MaxCrashes = 1
    MaxInFlight = 2
    MaxAfterCrash = 2
    Files = {3}
    MaxCalls = 2
    MaxCallsAfterCrash = 1
SPECIFICATION FilesSpec
INVARIANTS FilesTypeOK ResponsibleHasFile DeleteReachesAll
PROPERTIES RefinesRing FilesStay
CHECK_DEADLOCK FALSE
