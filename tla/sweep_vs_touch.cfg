CONSTANTS
    h1 = h1
    h2 = h2
    d1 = d1
    d2 = d2
    l1 = l1
    alice = alice
    bob = bob
    tok = tok
    Handlers = {h1}
    Sweeper = sweeper
    DirectIds = {}
    LinkIds = {l1}
    Pubkeys = {alice, bob}
    Tokens = {tok}
    StartUploads <- NoUploads
    LinkStart <- Drive
    MaxChunks = 1
    maxTransfersPerSender = 1
    TTL = 0
    MaxClock = 1
    DiskFull = FALSE
    Requests = {"link_start", "link_put", "link_get"}
    Crashes = FALSE
    UploadThenShare = FALSE
SPECIFICATION Spec

PROPERTIES SweepSparesTouched
CHECK_DEADLOCK FALSE
