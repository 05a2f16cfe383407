CONSTANTS
    maxBytes = 3
    maxFiles = 3
    Sizes = {1, 2, 4}
    MaxLines = 6
    MayFail <- AllButShift
SPECIFICATION Spec
INVARIANTS TypeOK FilesBounded KeepsNewest
PROPERTIES OnlyOldestIsLost
CHECK_DEADLOCK FALSE
