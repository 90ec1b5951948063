SPECIFICATION SessionSpec
CONSTANTS
    c1 = c1
    c2 = c2
    n1 = n1
    n2 = n2
    None = None
    Conn <- TwoConns
    App <- OneApp
    Name <- Names
    RequestId = {}
    PinnedKeys = {}
    defer_media_relay = FALSE
    HostReusesIds = TRUE
    MAX_PENDING_CACHE_EVICTIONS = 1
    MAX_PENDING_RELAY_FRAMES = 1
    RESOLVED_AUTH_ID_MEMORY = 1
    MaxStreamId = 1
    MaxQuestions = 0
INVARIANTS RelaysOwnClaim LeftFramesMarked
SYMMETRY ConnNameSymmetry
CHECK_DEADLOCK FALSE
