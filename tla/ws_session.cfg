CONSTANTS
    k1 = k1
    k2 = k2
    Conns = {c1}
    Keys = {k1, k2}
    Certs <- Rotation
    AccessTokens <- SomeTokens
    MinTier = "paid"
    MaxReply = 2
    MaxBuffered = 1
    MaxClock = 3
SPECIFICATION FairSpec
INVARIANTS TypeOK FramesAreWhole AdmittedByLiveKey SessionIsTimed
PROPERTIES ExpiredSessionEnds RotationIsPickedUp
CHECK_DEADLOCK FALSE
