CONSTANTS
    h1 = h1
    h2 = h2
    d1 = d1
    d2 = d2
    l1 = l1
    alice = alice
    bob = bob
    tok = tok
    Handlers = {h1}
    Sweeper = sweeper
    DirectIds = {}
    LinkIds = {l1}
    Pubkeys = {alice, bob}
    Tokens = {tok}
    StartUploads <- NoUploads
    LinkStart <- OneTimeTwo
    MaxChunks = 2
    maxTransfersPerSender = 1
    TTL = 0
    MaxClock = 0
    DiskFull = FALSE
    Requests = {"link_start", "link_put", "link_get", "link_delete"}
    Crashes = TRUE
    UploadThenShare = TRUE
SPECIFICATION Spec

INVARIANTS NeverUnburnable
CHECK_DEADLOCK FALSE
