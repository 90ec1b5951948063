SPECIFICATION Spec
CONSTANTS
    c1 = c1
    c2 = c2
    x1 = x1
    r1 = r1
    r2 = r2
    None = None
    ConnOrder <- Conns
    External = {x1}
    ExternalRoute <- OnFirstRoute
    Route = {r1, r2}
    Audience <- Players
    FrameBytes <- Sizes
    max_relay_sends_per_poll = 2
    MAX_PENDING_RELAY_FRAMES = 2
    max_pending_relay_bytes = 2
    export_max_frames = 2
    export_max_bytes = 2
    MaxFrames = 3
    MaxRead = 1
    MaxBuffered = 1
    RR_WRAP = 2
INVARIANTS ExportExact BudgetsHold
PROPERTIES PublisherOrder
CHECK_DEADLOCK FALSE
