CONSTANTS
    Sizes = {0, 1, 2, 3, 4, 5, 6, 7, 8, 9, 10, 11}
    Counts = {0, 1, 2, 3, 4}
SPECIFICATION Spec
INVARIANTS TypeOK PartsCoverFile PartsAreEven CombinedIsFile
CHECK_DEADLOCK FALSE
