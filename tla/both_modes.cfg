CONSTANTS
    h1 = h1
    h2 = h2
    d1 = d1
    d2 = d2
    l1 = l1
    alice = alice
    bob = bob
    tok = tok
    Handlers = {h1, h2}
    Sweeper = sweeper
    DirectIds = {l1}
    LinkIds = {l1}
    Pubkeys = {alice, bob}
    Tokens = {tok}
    StartUploads <- LinkIdAgain
    LinkStart <- OneTimeTwo
    MaxChunks = 2
    maxTransfersPerSender = 1
    TTL = 0
    MaxClock = 0
    DiskFull = TRUE
    Requests = {"start_upload", "chunk", "download", "complete", "link_start", "link_put", "link_get", "link_delete"}
    Crashes = TRUE
    UploadThenShare = FALSE
SPECIFICATION Spec
SYMMETRY HandlerSymmetry
INVARIANTS TypeOK CoveredIsBurning BurnIsEarned
CHECK_DEADLOCK FALSE
