SPECIFICATION Spec
CONSTANTS
    r1 = r1
    r2 = r2
    None = None
    Route <- Routes
    PUBLISH_MEDIA_REQUIRED_TIMEOUT = 2
    RTMP_SESSION_SETUP_TIMEOUT = 4
    pending_auth_timeout = 5
SYMMETRY SameRoutes
CHECK_DEADLOCK FALSE
INVARIANTS UselessDropped SilentPublisherDropped DroppedForCause
