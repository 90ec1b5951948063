SPECIFICATION CacheSpec
CONSTANTS
    p1 = p1
    p2 = p2
    x1 = x1
    r1 = r1
    r2 = r2
    r3 = r3
    t1 = t1
    t2 = t2
    None = None
    Local = {p1, p2}
    External = {x1}
    Route = {r1, r2, r3}
    KeyBytes <- OneByteKeys
    ExternalRoute <- RouteOfExternal
    Track = {t1, t2}
    Payload <- Payloads
    Frames <- FrameSet
    max_stream_cache_bytes = 6
    MAX_STREAM_CACHE_KEYS_PER_PUBLISHER = 2
    MAX_STREAM_CACHE_ENTRIES = 2
    MAX_CACHED_INIT_FRAME_BYTES = 2
    MAX_CACHED_KEYFRAME_BYTES = 2
INVARIANTS WithinByteCap EntriesTracked PeersKept
PROPERTY KeyframeDiscarded
SYMMETRY LocalSymmetry
CHECK_DEADLOCK FALSE
