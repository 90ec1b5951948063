SPECIFICATION Spec
CONSTANTS
    MAX_SKIP_DEPTH = 2
    MAX_OBJECT_KEYS = 9
    MAX_MODEX_CHAIN_LAYERS = 2
    MAX_MULTITRACK_SUBTRACKS = 2
    ROUTE_SIZE = 4
    MAX_FOURCCS = 2
    MAX_SO_EVENTS = 2
    MAX_SO_BYTES = 2
    MESSAGES_PER_RECV = 4
    MAX_TRACKS_PER_RECV = 4
    MAX_AGGREGATE_SUBTAGS = 3
    MAX_PENDING_RELAY_FRAMES = 3
    MAX_MESSAGES_PER_POLL = 5
    TS_MODULUS = 4
    MAX_MESSAGES = 2
    Setups <- MCSetups
    Texts <- MCTexts
    Inputs <- MCInputs
    Later <- MCLater
INVARIANTS MediaAuthorized PlayersServed ReadersAgree ContentsExact Negotiated ReadBack
CHECK_DEADLOCK FALSE
