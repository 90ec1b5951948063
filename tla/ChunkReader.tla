---------------------------- MODULE ChunkReader ----------------------------
(***************************************************************************)
(* The inbound chunk layer of one connection: the registry of chunk        *)
(* streams (chunk/state.rs) and chunk_read (chunk/reader.rs), which takes  *)
(* one chunk off the receive buffer and reassembles messages.              *)
(*                                                                         *)
(* A chunk is a header of one of the four formats followed by payload      *)
(* bytes.  The receive buffer itself is not a variable: a call of          *)
(* chunk_read is handed the header at the read cursor, and whether the     *)
(* whole chunk has arrived is a nondeterministic choice.  What the call    *)
(* did to the cursor is kept in `consumed'.                                *)
(***************************************************************************)
EXTENDS Integers, Sequences, FiniteSets

CONSTANTS
    Csid,                   \* chunk stream ids a peer uses
    Byte,                   \* payload bytes
    MsgTypeId, MsgStreamId, \* message type ids and message stream ids
    MsgLength,              \* values of the 24-bit message length field
    TsLimit,                \* timestamps are counted modulo TsLimit (2^32)
    ExtMarker,              \* 0xFFFFFF: an extended timestamp follows
    AnnouncedChunkSize,     \* values a SetChunkSize message may carry
    DEFAULT_CHUNK_SIZE,     \* 128, also the least size accepted
    MAX_PEER_CHUNK_SIZE,    \* larger announcements are clamped to this
    ReservedBit,            \* 0x80000000: sizes from here on are refused
    MAX_CHUNK_STREAMS,
    max_msg_length, max_active_csids, max_reassembly_bytes

ASSUME ChunkReaderAssumption ==
    /\ IsFiniteSet(Csid)
    /\ MsgLength \subseteq Nat
    /\ 0 \in MsgLength /\ 0 \in MsgStreamId /\ 0 \in MsgTypeId
    /\ TsLimit \in Nat /\ ExtMarker \in Nat /\ 0 < ExtMarker /\ ExtMarker <= TsLimit
    /\ AnnouncedChunkSize \subseteq Nat
    /\ DEFAULT_CHUNK_SIZE \in Nat \ {0}
    /\ MAX_PEER_CHUNK_SIZE \in Nat /\ MAX_PEER_CHUNK_SIZE >= DEFAULT_CHUNK_SIZE
    /\ ReservedBit \in Nat
    /\ MAX_CHUNK_STREAMS \in Nat
    /\ max_msg_length \in Nat
    /\ max_active_csids \in Nat
    /\ max_reassembly_bytes \in Nat

VARIABLES
    streams,                  \* ChunkRegistry.streams, looked up by csid
    reassembly_bytes_in_use,  \* running total over the reassembly buffers
    reassembling_count,       \* running count of streams mid-message
    default_chunk_size,       \* chunk size given to new streams
    msg,                      \* the last completed message
    rc,                       \* what the last call returned
    consumed                  \* what the last call took off the receive buffer

registry == <<streams, reassembly_bytes_in_use, reassembling_count, default_chunk_size>>
vars == <<registry, msg, rc, consumed>>

Timestamp == 0 .. TsLimit - 1

(* The timestamp field of a header: the 24-bit field itself, or the marker *)
(* followed by a four-byte value (which a peer may choose freely).         *)
TimestampField == {t \in [ext : BOOLEAN, value : Timestamp] : ~t.ext => t.value < ExtMarker}

(* Formats 0 to 3 carry ever fewer of the fields.  *)
Header ==
    [fmt : {0}, csid : Csid, ts : TimestampField, msg_length : MsgLength,
         msg_type_id : MsgTypeId, msg_stream_id : MsgStreamId]
    \cup [fmt : {1}, csid : Csid, ts : TimestampField, msg_length : MsgLength,
              msg_type_id : MsgTypeId]
    \cup [fmt : {2}, csid : Csid, ts : TimestampField]
    \cup [fmt : {3}, csid : Csid]

ChunkSize == DEFAULT_CHUNK_SIZE .. MAX_PEER_CHUNK_SIZE

ChunkStream ==
    [in_use : BOOLEAN, chunk_size : ChunkSize, has_message_header : BOOLEAN,
     type0_timestamp : Timestamp, type0_msg_length : MsgLength,
     type0_msg_type_id : MsgTypeId, type0_msg_stream_id : MsgStreamId,
     type0_ext_ts : BOOLEAN, last_delta : Timestamp,
     reassembly_bytes_read : Nat, reassembly_buf : Seq(Byte), reassembling : BOOLEAN]

Message ==
    [csid : Csid, fmt : 0 .. 3, timestamp : Timestamp, msg_length : MsgLength,
     msg_type_id : MsgTypeId, msg_stream_id : MsgStreamId, payload : Seq(Byte)]

NoMessage == [fmt |-> -1]

(* ChunkStream::default().  *)
DefaultStream ==
    [in_use |-> FALSE, chunk_size |-> DEFAULT_CHUNK_SIZE, has_message_header |-> FALSE,
     type0_timestamp |-> 0, type0_msg_length |-> 0,
     type0_msg_type_id |-> 0, type0_msg_stream_id |-> 0,
     type0_ext_ts |-> FALSE, last_delta |-> 0,
     reassembly_bytes_read |-> 0, reassembly_buf |-> <<>>, reassembling |-> FALSE]

Init ==
    /\ streams = [c \in Csid |-> DefaultStream]
    /\ reassembly_bytes_in_use = 0
    /\ reassembling_count = 0
    /\ default_chunk_size = DEFAULT_CHUNK_SIZE
    /\ msg = NoMessage
    /\ rc = "Ok0"
    /\ consumed = "nothing"

-----------------------------------------------------------------------------
(* Registry operations.                                                    *)

SaturatingSub(a, b) == IF a >= b THEN a - b ELSE 0

Registered == {c \in Csid : streams[c].in_use}

(* The stream get_or_create_index hands back: the registered one or a new  *)
(* one with the current default chunk size.                                *)
StreamFor(c) ==
    IF streams[c].in_use THEN streams[c]
    ELSE [DefaultStream EXCEPT !.in_use = TRUE, !.chunk_size = default_chunk_size]

(* get_or_create_index's own checks: reactivating a dormant stream counts  *)
(* against the cap just like opening a new one.                            *)
GetOrCreateFails(c) ==
    IF streams[c].in_use
      THEN ~streams[c].reassembling /\ reassembling_count >= max_active_csids
      ELSE \/ reassembling_count >= max_active_csids
           \/ Cardinality(Registered) >= MAX_CHUNK_STREAMS

(* Fault: a registered stream passes the peek whatever the cap says.  *)
CanGetOrCreateIfRegistered(c) ==
    \/ streams[c].in_use
    \/ /\ reassembling_count < max_active_csids
       /\ Cardinality(Registered) < MAX_CHUNK_STREAMS

CanGetOrCreate(c) ==
    IF streams[c].in_use
      THEN streams[c].reassembling \/ reassembling_count < max_active_csids
      ELSE /\ reassembling_count < max_active_csids
           /\ Cardinality(Registered) < MAX_CHUNK_STREAMS

(* reassembling_count after set_stream_reassembling(c, flag).  *)
CountAfter(c, flag) ==
    CASE streams[c].reassembling = flag -> reassembling_count
      [] flag /\ ~streams[c].reassembling -> reassembling_count + 1
      [] ~flag /\ streams[c].reassembling -> SaturatingSub(reassembling_count, 1)

-----------------------------------------------------------------------------
(* chunk_read, phase 1: everything is decided by peeking.                  *)

StartsAnew(h) == h.fmt \in {0, 1}

EffectiveLength(h) ==
    IF StartsAnew(h) THEN h.msg_length ELSE StreamFor(h.csid).type0_msg_length

(* Payload bytes still missing, at most one chunk of them.  *)
NextBytes(length, have, chunk_size) ==
    LET remaining == SaturatingSub(length, have)
    IN  IF remaining <= chunk_size THEN remaining ELSE chunk_size

ToRead(h) ==
    NextBytes(EffectiveLength(h),
              IF StartsAnew(h) THEN 0 ELSE StreamFor(h.csid).reassembly_bytes_read,
              StreamFor(h.csid).chunk_size)

(* Whether four bytes of extended timestamp follow the header.  *)
HasExtendedTimestamp(h) ==
    IF h.fmt = 3 THEN streams[h.csid].type0_ext_ts ELSE h.ts.ext

(* The connection's aggregate reassembly budget.  A chunk that restarts    *)
(* its stream gives back what the stream holds.                            *)
OverBudget(h) ==
    LET replaced == IF StartsAnew(h) THEN Len(StreamFor(h.csid).reassembly_buf) ELSE 0
    IN  /\ ToRead(h) > 0
        /\ SaturatingSub(reassembly_bytes_in_use, replaced) + ToRead(h)
             > max_reassembly_bytes

PeekRejects(h) ==
    LET s == streams[h.csid]
    IN  \/ h.fmt >= 2 /\ ~s.in_use
        \/ h.fmt = 2 /\ s.reassembly_bytes_read # 0
        \/ EffectiveLength(h) > max_msg_length
        \/ OverBudget(h)
        \/ h.fmt >= 2 /\ ~s.has_message_header
        \/ ~CanGetOrCreate(h.csid)

(* Fewer bytes have arrived than the next check needs: nothing is touched. *)
ChunkReadNeedsMore ==
    /\ rc # "Err"
    /\ rc' = "Ok0"
    /\ consumed' = "nothing"
    /\ UNCHANGED <<registry, msg>>

-----------------------------------------------------------------------------
(* chunk_read, phases 2 and 3: the header is off the buffer.               *)

(* The same limits are checked again; failing here would leave the payload *)
(* in the buffer behind a header that is gone.                             *)
LateRejects(h) ==
    LET s == streams[h.csid]
    IN  \/ OverBudget(h)
        \/ GetOrCreateFails(h.csid)
        \/ h.fmt >= 2 /\ s.reassembly_bytes_read = 0 /\ ~s.has_message_header

(* Err: from a check on the peeked header, or from one that came too late. *)
ChunkReadRejects(h) ==
    /\ rc # "Err"
    /\ PeekRejects(h) \/ LateRejects(h)
    /\ rc' = "Err"
    /\ consumed' = IF PeekRejects(h) THEN "nothing" ELSE "header"
    /\ UNCHANGED <<registry, msg>>

(* A format 0 or 1 header discards whatever the stream was reassembling.   *)
Restarted(h) ==
    IF StartsAnew(h)
      THEN [StreamFor(h.csid) EXCEPT !.reassembly_bytes_read = 0, !.reassembly_buf = <<>>]
      ELSE StreamFor(h.csid)

(* Formats 1 and 2 carry a delta; format 3 repeats the last delta when it  *)
(* starts a message and changes nothing when it continues one.             *)
ApplyHeader(s, h) ==
    CASE h.fmt = 0 ->
           [s EXCEPT !.has_message_header = TRUE,
                     !.type0_timestamp = h.ts.value,
                     !.type0_msg_length = h.msg_length,
                     !.type0_msg_type_id = h.msg_type_id,
                     !.type0_msg_stream_id = h.msg_stream_id,
                     !.type0_ext_ts = h.ts.ext,
                     !.last_delta = h.ts.value]
      [] h.fmt = 1 ->
           [s EXCEPT !.has_message_header = TRUE,
                     !.type0_timestamp = (@ + h.ts.value) % TsLimit,
                     !.type0_msg_length = h.msg_length,
                     !.type0_msg_type_id = h.msg_type_id,
                     !.type0_ext_ts = h.ts.ext,
                     !.last_delta = h.ts.value]
      [] h.fmt = 2 ->
           [s EXCEPT !.type0_timestamp = (@ + h.ts.value) % TsLimit,
                     !.type0_ext_ts = h.ts.ext,
                     !.last_delta = h.ts.value]
      [] h.fmt = 3 ->
           IF s.reassembly_bytes_read = 0
             THEN [s EXCEPT !.type0_timestamp = (@ + s.last_delta) % TsLimit]
             ELSE s

WithHeader(h) == ApplyHeader(Restarted(h), h)

(* Payload bytes phase 3 reads, computed afresh from the updated stream.   *)
PayloadRead(h) ==
    LET s == WithHeader(h)
    IN  NextBytes(s.type0_msg_length, s.reassembly_bytes_read, s.chunk_size)

Completes(h) ==
    LET s == WithHeader(h)
    IN  s.reassembly_bytes_read + PayloadRead(h) >= s.type0_msg_length

(* Fault: a restart drops the bytes without giving them back.  *)
GrownWithoutRelease(h) == reassembly_bytes_in_use + PayloadRead(h)

(* The running total after the restart's release and the chunk's growth.   *)
Grown(h) ==
    SaturatingSub(reassembly_bytes_in_use,
                  IF StartsAnew(h) THEN Len(StreamFor(h.csid).reassembly_buf) ELSE 0)
      + PayloadRead(h)

ChunkReadPartial(h, data) ==
    LET s == WithHeader(h)
    IN  /\ rc # "Err"
        /\ ~PeekRejects(h)
        /\ ~LateRejects(h)
        /\ ~Completes(h)
        /\ streams' = [streams EXCEPT ![h.csid] =
                         [s EXCEPT !.reassembly_buf = @ \o data,
                                   !.reassembly_bytes_read = @ + PayloadRead(h),
                                   !.reassembling = TRUE]]
        /\ reassembly_bytes_in_use' = Grown(h)
        /\ reassembling_count' = CountAfter(h.csid, TRUE)
        /\ rc' = "Ok0"
        /\ consumed' = "chunk"
        /\ UNCHANGED <<default_chunk_size, msg>>

ChunkReadCompletes(h, data) ==
    LET s == WithHeader(h)
        payload == s.reassembly_buf \o data
    IN  /\ rc # "Err"
        /\ ~PeekRejects(h)
        /\ ~LateRejects(h)
        /\ Completes(h)
        /\ streams' = [streams EXCEPT ![h.csid] =
                         [s EXCEPT !.reassembly_buf = <<>>,
                                   !.reassembly_bytes_read = 0,
                                   !.reassembling = FALSE]]
        /\ reassembly_bytes_in_use' = SaturatingSub(Grown(h), Len(payload))
        /\ reassembling_count' = CountAfter(h.csid, FALSE)
        /\ msg' = [csid |-> h.csid, fmt |-> h.fmt, timestamp |-> s.type0_timestamp,
                   msg_length |-> s.type0_msg_length,
                   msg_type_id |-> s.type0_msg_type_id,
                   msg_stream_id |-> s.type0_msg_stream_id,
                   payload |-> payload]
        /\ rc' = "Ok1"
        /\ consumed' = "chunk"
        /\ UNCHANGED default_chunk_size

ChunkRead(h, data) ==
    \/ ChunkReadRejects(h)
    \/ ChunkReadPartial(h, data)
    \/ ChunkReadCompletes(h, data)

-----------------------------------------------------------------------------
(* Control messages and registry calls that change the same state.         *)

(* Oversized announcements are clamped, not refused.  *)
ClampedChunkSize(raw) == IF raw <= MAX_PEER_CHUNK_SIZE THEN raw ELSE MAX_PEER_CHUNK_SIZE

(* read_set_chunk_size, then set_all_chunk_size with the clamped value.    *)
SetChunkSize(raw) ==
    /\ rc # "Err"
    /\ consumed' = "nothing"
    /\ UNCHANGED <<reassembly_bytes_in_use, reassembling_count, msg>>
    /\ IF raw < DEFAULT_CHUNK_SIZE \/ raw >= ReservedBit
         THEN rc' = "Err" /\ UNCHANGED <<streams, default_chunk_size>>
         ELSE LET size == ClampedChunkSize(raw)
              IN  /\ rc' = "Ok0"
                  /\ default_chunk_size' = size
                  /\ streams' = [c \in Csid |->
                        IF streams[c].in_use THEN [streams[c] EXCEPT !.chunk_size = size]
                                             ELSE streams[c]]

(* Give back what a registered stream holds and mark it dormant, leaving   *)
(* `after' in its place.                                                   *)
DiscardReassembly(c, after) ==
    /\ rc # "Err"
    /\ streams[c].in_use
    /\ reassembly_bytes_in_use' =
         SaturatingSub(reassembly_bytes_in_use, Len(streams[c].reassembly_buf))
    /\ reassembling_count' = CountAfter(c, FALSE)
    /\ streams' = [streams EXCEPT ![c] = after]
    /\ rc' = "Ok0"
    /\ consumed' = "nothing"
    /\ UNCHANGED <<default_chunk_size, msg>>

(* An Abort control message keeps the header context.  *)
AbortStream(c) ==
    DiscardReassembly(c,
        [streams[c] EXCEPT !.reassembly_buf = <<>>, !.reassembly_bytes_read = 0,
                           !.reassembling = FALSE])

(* reset_stream forgets the header context too.  *)
ResetStream(c) ==
    DiscardReassembly(c,
        [DefaultStream EXCEPT !.in_use = TRUE, !.chunk_size = default_chunk_size])

(* destroy() then init(): the client starts a new session.  *)
Destroy ==
    /\ streams' = [c \in Csid |-> DefaultStream]
    /\ reassembly_bytes_in_use' = 0
    /\ reassembling_count' = 0
    /\ default_chunk_size' = DEFAULT_CHUNK_SIZE
    /\ rc' = "Ok0"
    /\ consumed' = "nothing"
    /\ UNCHANGED msg

Next ==
    \/ ChunkReadNeedsMore
    \/ \E h \in Header : \E data \in [1 .. PayloadRead(h) -> Byte] : ChunkRead(h, data)
    \/ \E raw \in AnnouncedChunkSize : SetChunkSize(raw)
    \/ \E c \in Csid : AbortStream(c) \/ ResetStream(c)
    \/ Destroy

Spec == Init /\ [][Next]_vars

-----------------------------------------------------------------------------
(* Properties.                                                             *)

(* Every variable has the type the Rust declarations give it.  *)
TypeOK ==
    /\ streams \in [Csid -> ChunkStream]
    /\ reassembly_bytes_in_use \in Nat
    /\ reassembling_count \in Nat
    /\ default_chunk_size \in ChunkSize
    /\ msg \in Message \cup {NoMessage}
    /\ rc \in {"Ok0", "Ok1", "Err"}
    /\ consumed \in {"nothing", "header", "chunk"}

(* The bytes held in reassembly buffers, as <<stream, position>> pairs.  *)
HeldBytes == UNION {{c} \X (1 .. Len(streams[c].reassembly_buf)) : c \in Csid}

Reassembling == {c \in Csid : streams[c].reassembling}

(* reassembly_bytes_in_use is the number of bytes the streams hold.  The   *)
(* registry never recounts: restarts, completions, aborts and resets must  *)
(* each give back exactly what they drop.                                  *)
ByteAccounting == reassembly_bytes_in_use = Cardinality(HeldBytes)

(* reassembling_count is the number of streams with their flag set.  *)
ActiveAccounting == reassembling_count = Cardinality(Reassembling)

(* What a connection really holds stays within its two limits.  *)
WithinLimits ==
    /\ Cardinality(HeldBytes) <= max_reassembly_bytes
    /\ Cardinality(Reassembling) <= max_active_csids

(* "reassembly_bytes_read is only 0 between messages, never mid-message":  *)
(* format 3 relies on it to tell a continuation from a new message.  A     *)
(* stream mid-message holds what it counted and still misses bytes, and    *)
(* a stream between messages holds none.                                   *)
MidMessage ==
    \A c \in Csid :
        LET s == streams[c]
        IN  /\ s.reassembling <=> s.reassembly_bytes_read > 0
            /\ s.reassembly_bytes_read = Len(s.reassembly_buf)
            /\ s.reassembling => /\ s.in_use
                                 /\ s.has_message_header
                                 /\ s.reassembly_bytes_read < s.type0_msg_length
                                 /\ s.type0_msg_length <= max_msg_length

(* An error never leaves the cursor behind a header: every check that can  *)
(* fail after phase 2 has already been made in phase 1.                    *)
NoDesync == rc = "Err" => consumed # "header"

(* A delivered payload has the length its header announced.  *)
WholeMessage == rc = "Ok1" => Len(msg.payload) = msg.msg_length

(* All of this together, whatever chunks, aborts and chunk sizes a peer    *)
(* sends: the registry's running totals are exact, its limits hold and     *)
(* continuations are told from new messages.  None is inductive alone:     *)
(* that the bytes a stream gives back are bytes it was charged for needs   *)
(* MidMessage, and that no saturating subtraction ever saturates needs     *)
(* both counters to be exact.                                              *)
IInv == TypeOK /\ MidMessage /\ ByteAccounting /\ ActiveAccounting /\ WithinLimits
=============================================================================
