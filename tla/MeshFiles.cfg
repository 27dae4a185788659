CONSTANTS
    Nodes = {n1, n2, n3}
    Starts <- TwoOrMore
    Modes <- GoodModes
    MaxEvents = 3
    None = None
SPECIFICATION Spec
SYMMETRY Renaming
INVARIANTS TypeOK GetIsFile LastCallDone LoneGetFindsFile LoneGetGoesOn
CHECK_DEADLOCK FALSE
