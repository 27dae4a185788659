CONSTANTS
    Bits = 3
    Nodes = {0, 2, 5}
    Creator = 0
    Fixers = {0}
    Clients = {0}
    Keys = {1, 5, 6}
    Notified = {0}
    Nil = Nil
    MaxReqs = 2
SPECIFICATION Spec
INVARIANTS NoDeadlock
CHECK_DEADLOCK FALSE
