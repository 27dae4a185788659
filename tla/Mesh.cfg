CONSTANTS
    n1 = n1
    n2 = n2
    n3 = n3
    n4 = n4
    Nodes <- Four
    Calls <- ChainAndJoins
    MaxCalls = 3
    None = None
SPECIFICATION Spec
INVARIANTS TypeOK KeysFollowCalls GivenAreMet OrderlyMeshIsWhole
CHECK_DEADLOCK FALSE
