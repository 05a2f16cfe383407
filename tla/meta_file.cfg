CONSTANTS
    u1 = u1
    u2 = u2
    r1 = r1
    r2 = r2
    Uploaders = {u1}
    Downloaders = {r1, r2}
    MaxLen = 2
    MaxTouch = 5
    DiskFull = TRUE
    UploadThenShare = TRUE
SPECIFICATION Spec
SYMMETRY WriterSymmetry
INVARIANTS TypeOK RenamesItsOwn
PROPERTIES NotForgotten TouchesInOrder WritesAtomically
CHECK_DEADLOCK FALSE
