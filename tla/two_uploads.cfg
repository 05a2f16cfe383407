CONSTANTS
    h1 = h1
    h2 = h2
    d1 = d1
    d2 = d2
    l1 = l1
    alice = alice
    bob = bob
    tok = tok
    Handlers = {h1, h2}
    Sweeper = sweeper
    DirectIds = {d1, d2}
    LinkIds = {}
    Pubkeys = {alice, bob}
    Tokens = {tok}
    StartUploads <- TwoAndFlag
    LinkStart <- Drive
    MaxChunks = 1
    maxTransfersPerSender = 1
    TTL = 0
    MaxClock = 1
    DiskFull = TRUE
    Requests = {"start_upload", "download", "complete"}
    Crashes = FALSE
    UploadThenShare = FALSE
SPECIFICATION Spec
SYMMETRY HandlerSymmetry
INVARIANTS SenderCap
CHECK_DEADLOCK FALSE
