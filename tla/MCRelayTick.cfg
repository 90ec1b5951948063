SPECIFICATION TickSpec
CONSTANTS
    c1 = c1
    c2 = c2
    x1 = x1
    r1 = r1
    r2 = r2
    None = None
    ConnOrder <- TwoConns
    Local = {c1, c2}
    External = {x1}
    Route = {r1, r2}
    KeyBytes <- OneByteKeys
    ExternalRoute <- RouteOfExternal
    Track = {}
    Payload <- Payloads
    Frames <- FrameSet
    Bodies <- BodiesOf
    max_stream_cache_bytes = 100
    MAX_STREAM_CACHE_KEYS_PER_PUBLISHER = 4
    MAX_STREAM_CACHE_ENTRIES = 4
    MAX_CACHED_INIT_FRAME_BYTES = 2
    MAX_CACHED_KEYFRAME_BYTES = 2
    MAX_PENDING_RELAY_FRAMES = 1
    Releasable = {c1}
    Deferrable <- PutOff
    Playable = {r1}
    Early = {c1}
    MaxCommands = 1
INVARIANTS ReplayNotAbandoned TrackedByOwner
CHECK_DEADLOCK FALSE
