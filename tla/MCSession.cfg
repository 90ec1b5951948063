SPECIFICATION FairSessionSpec
CONSTANTS
    c1 = c1
    c2 = c2
    n1 = n1
    n2 = n2
    None = None
    Conn <- OneConn
    App <- OneApp
    Name <- Names
    RequestId = {1}
    PinnedKeys <- OneName
    defer_media_relay = TRUE
    HostReusesIds = TRUE
    MAX_PENDING_CACHE_EVICTIONS = 1
    MAX_PENDING_RELAY_FRAMES = 0
    RESOLVED_AUTH_ID_MEMORY = 2
    MaxStreamId = 2
    MaxQuestions = 2
INVARIANTS NoLeakedRoute RoleWasGranted RelayApproved
PROPERTY RequestsEnd
CHECK_DEADLOCK FALSE
