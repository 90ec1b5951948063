CONSTANTS
    c1 = c1
    c2 = c2
    c3 = c3
    c4 = c4
    b = b
    Csid <- MCCsid
    Byte <- MCByte
    MsgTypeId <- MCZero
    MsgStreamId <- MCZero
    MsgLength <- MCMsgLength
    TsLimit = 1
    ExtMarker = 1
    AnnouncedChunkSize <- MCAnnouncedChunkSize
    DEFAULT_CHUNK_SIZE = 1
    MAX_PEER_CHUNK_SIZE = 3
    ReservedBit = 5
    MAX_CHUNK_STREAMS = 3
    max_msg_length = 3
    max_active_csids = 2
    max_reassembly_bytes = 3
SPECIFICATION Spec
SYMMETRY CsidSymmetry
INVARIANTS
    IInv
    NoDesync
CHECK_DEADLOCK FALSE
