CONSTANTS
    h1 = h1
    h2 = h2
    d1 = d1
    d2 = d2
    l1 = l1
    alice = alice
    bob = bob
    tok = tok
    Handlers = {h1}
    Sweeper = sweeper
    DirectIds = {d1}
    LinkIds = {}
    Pubkeys = {alice, bob}
    Tokens = {tok}
    StartUploads <- SmallUpload
    LinkStart <- Drive
    MaxChunks = 1
    maxTransfersPerSender = 1
    TTL = 0
    MaxClock = 0
    DiskFull = FALSE
    Requests = {"start_upload", "chunk", "download", "complete"}
    Crashes = TRUE
    UploadThenShare = FALSE
SPECIFICATION Spec

INVARIANTS ReceivedIsWhole
CHECK_DEADLOCK FALSE
