CONSTANTS
    Lengths <- BoundaryLengths
    ControlLengths = {125}
    maxFrameSize = 65536
    maxMessageSize = 65662
    MaxFrames = 4
SPECIFICATION Spec
INVARIANTS TypeOK MessagesArriveWhole ChunksArePaired RefusedForCause
CHECK_DEADLOCK FALSE
