CONSTANTS
    Bits = 3
    Nodes = {0, 2, 5}
    Seed = 2
    Nil = Nil
    MayLose = TRUE
    MaxCrashes = 1
    MaxInFlight = 3
    MaxAfterCrash = 2
SPECIFICATION Spec
INVARIANTS TypeOK SeedReachable NotAloneWithPredecessor AgreementIsOrder PredecessorLooksNoFurther
CHECK_DEADLOCK FALSE
