CONSTANTS
    MediaUnits = 2
    PingUnits = 1
    ReplyUnits = 1
    InitUnits = 1
    soft = 2
    hard = 4
    congestion_timeout = 1
    SEND_PROGRESS_BYTES = 3
    PING_INTERVAL = 1
    PING_TIMEOUT = 2
    WRITE_STALL_TIMEOUT = 2
    MAX_PENDING_PINGS = 4
    INIT_REPLAY_COOLDOWN = 1
    Tls = FALSE
    MaxFrames = 2
    MaxOut = 5
    None = None
SPECIFICATION Spec
CHECK_DEADLOCK FALSE
INVARIANTS DroppedExactly 
PROPERTY GapClosedByResync
