CONSTANTS
    Nodes = {n1, n2, n3}
    Starts <- AllNodes
    Modes <- DefaultMode
    MaxEvents = 2
    None = None
SPECIFICATION Spec
INVARIANTS CopyIsFile
CHECK_DEADLOCK FALSE
