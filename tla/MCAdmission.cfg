CONSTANTS
    s1 = s1
    s2 = s2
    s3 = s3
    a1 = a1
    a2 = a2
    Sock = {s1, s2, s3}
    Addr = {a1, a2}
    peer_ip <- Ips
    Port = 3
    Tls = {1}
    max_connections = 2
    max_connections_per_addr = 1
    max_pending_tls_per_addr = 1
    MAX_PENDING_TLS_HANDSHAKES = 2
    TLS_HANDSHAKE_TIMEOUT = 1
    MAX_ACCEPTS_PER_POLL = 2
    EXTERNAL_PUBLISHER_ID_BIT = 3
SPECIFICATION Spec
SYMMETRY SameAddr
INVARIANTS CapsHold NewConnsServed ListenersTakeTurns
