CONSTANTS
    Csid <- MCCsid
    Byte <- MCByte
    MsgTypeId <- MCMsgTypeId
    MsgStreamId <- MCMsgStreamId
    MsgLength <- MCMsgLength
    TsLimit = 8
    ExtMarker = 4
    AnnouncedChunkSize <- MCAnnouncedChunkSize
    DEFAULT_CHUNK_SIZE = 1
    MAX_PEER_CHUNK_SIZE = 2
    ReservedBit = 4
    MAX_CHUNK_STREAMS = 3
    max_msg_length = 3
    max_active_csids = 2
    max_reassembly_bytes = 3
    FrameTypes <- MCFrameTypes
    FrameTimestamps <- MCFrameTimestamps
    FrameLengths <- MCFrameLengths
    MaxMessages = 3
SPECIFICATION WireSpec
INVARIANTS
    InSync
PROPERTY ImplementsChannel
