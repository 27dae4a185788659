CONSTANTS
    Architecture = "mesh"
    Encryption = "AES"
    Stores = {s1, s2}
    Deletes = {d1}
    Reads = {r1}
    None = None
SPECIFICATION Spec
INVARIANTS TypeOK  GarbageNeedsOverlap
CHECK_DEADLOCK FALSE
