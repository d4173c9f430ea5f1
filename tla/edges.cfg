\* Two clients behind the proxy, two requests per window of two ticks.  A cap
\* that is no multiple of the chunk, and names that move at any time.
SPECIFICATION EdgesSpec
CONSTANTS
    Proxy = Proxy
    Clients = {c1, c2}
    BehindProxy = TRUE
    TrustForwarded = TRUE
    Limit = 2
    Window = 2
    PruneEvery = 3
    MaxKeys = 1
    MaxTime = 4
    Addresses = {a, b, lan}
    Blocked = {lan}
    MaxBytes = 4
    Chunk = 3
    RejectDemo = TRUE
INVARIANTS
    BufferBounded
    PinnedIsJudged
    AcceptedIsReal
PROPERTIES
    SlidingWindowSpec
    CrowdIsActive
    EveryCallEnds
CHECK_DEADLOCK FALSE
