CONSTANTS
    u1 = u1
    u2 = u2
    r1 = r1
    r2 = r2
    Uploaders = {u1, u2}
    Downloaders = {}
    MaxLen = 2
    MaxTouch = 3
    DiskFull = FALSE
    UploadThenShare = TRUE
SPECIFICATION Spec
PROPERTIES NotForgotten
CHECK_DEADLOCK FALSE
