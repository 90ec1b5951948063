----------------------------- MODULE MediaWire -----------------------------
(***************************************************************************)
(* One direction of a connection between two peers of this library: the    *)
(* outbound encoder (chunk/writer.rs, chunk/media_out.rs), the send        *)
(* buffer and the staged relay media of a server connection                *)
(* (session/conn.rs, server/mod.rs), the socket, and ChunkReader at the    *)
(* other end.                                                              *)
(*                                                                         *)
(* A chunk in flight is its header, whether four bytes of extended         *)
(* timestamp follow, and its payload bytes.  How the socket splits bytes   *)
(* is ChunkReader's business (ChunkReadNeedsMore), so chunks move whole.   *)
(***************************************************************************)
EXTENDS ChunkReader

CONSTANTS
    FrameTypes,        \* subset of {"Audio", "Script", "Video"}
    FrameTimestamps,   \* timestamps frames may carry
    FrameLengths,      \* payload lengths of frames
    MaxMessages        \* bound on messages sent

VARIABLES
    last,              \* MediaHeaderTracker.last
    out_chunk_size,    \* outbound chunk size in force
    media_stream_id,   \* message stream the sender's media goes to
    staged,            \* chunks staged by the relay fan-out
    send_buffer,       \* chunks queued for the socket
    wire,              \* chunks the socket has taken
    sent,              \* messages encoded and not yet handled (history)
    sent_count,        \* messages encoded so far
    handled,           \* the reader's last message has been handled
    got                \* what the receiver handled last

senderVars == <<last, out_chunk_size, media_stream_id, staged, send_buffer, sent_count>>
wireVars == <<vars, senderVars, wire, sent, handled, got>>

(* media_chunk_stream: chunk stream and message type of a frame.  *)
MediaCsid(ft) == CASE ft = "Audio" -> 4 [] ft = "Script" -> 5 [] ft = "Video" -> 6
MediaTypeId(ft) == CASE ft = "Audio" -> 8 [] ft = "Script" -> 18 [] ft = "Video" -> 9

NoHeader == [msg_stream_id |-> -1, timestamp |-> 0, msg_length |-> 0, msg_type_id |-> 0]

WireInit ==
    /\ Init
    /\ last = [ft \in FrameTypes |-> NoHeader]
    /\ out_chunk_size = DEFAULT_CHUNK_SIZE
    /\ media_stream_id = 1
    /\ staged = <<>> /\ send_buffer = <<>> /\ wire = <<>>
    /\ sent = <<>> /\ sent_count = 0
    /\ handled = TRUE
    /\ got = <<>>

-----------------------------------------------------------------------------
(* The encoder.                                                            *)

FieldFor(ts) == [ext |-> ts >= ExtMarker, value |-> ts]

(* write_chunk_body: the payload in pieces of at most `size' bytes, every  *)
(* piece after the first behind a format 3 header.  An empty payload is    *)
(* one piece.  Continuations repeat the extended timestamp.                *)
ChunksOf(header, payload, size, ext) ==
    LET len == Len(payload)
        pieces == 1 + SaturatingSub(len, 1) \div size
    IN  [i \in 1 .. pieces |->
           [hdr  |-> IF i = 1 THEN header ELSE [fmt |-> 3, csid |-> header.csid],
            ext  |-> IF i = 1 THEN header.ts.ext ELSE ext,
            data |-> SubSeq(payload, (i - 1) * size + 1,
                            IF i * size <= len THEN i * size ELSE len)]]

(* chunk_write: a full header with an absolute timestamp.  *)
ChunkWrite(m) ==
    ChunksOf([fmt |-> 0, csid |-> m.csid, ts |-> FieldFor(m.timestamp),
              msg_length |-> Len(m.payload), msg_type_id |-> m.msg_type_id,
              msg_stream_id |-> m.msg_stream_id],
             m.payload, out_chunk_size, m.timestamp >= ExtMarker)

(* Fault: a delta is used for timestamps beyond the marker too.  *)
CompressibleAnyTimestamp(ft, ts) ==
    last[ft].msg_stream_id = media_stream_id /\ last[ft].timestamp <= ts

(* Fault: a header of another message stream is compressed against.  *)
CompressibleAnyStream(ft, ts) ==
    last[ft] # NoHeader /\ last[ft].timestamp <= ts /\ ts < ExtMarker

(* MediaHeaderTracker::choose may compress against the last header only    *)
(* for the same message stream, time not running backwards, and no         *)
(* extended timestamp.                                                     *)
Compressible(ft, ts) ==
    /\ last[ft].msg_stream_id = media_stream_id
    /\ last[ft].timestamp <= ts
    /\ ts < ExtMarker

FirstHeader(compact, ft, ts, len) ==
    LET prev == last[ft]
    IN  IF compact /\ Compressible(ft, ts)
          THEN IF prev.msg_length = len /\ prev.msg_length # 0
                    /\ prev.msg_type_id = MediaTypeId(ft)
                 THEN [fmt |-> 2, csid |-> MediaCsid(ft), ts |-> FieldFor(ts - prev.timestamp)]
                 ELSE [fmt |-> 1, csid |-> MediaCsid(ft), ts |-> FieldFor(ts - prev.timestamp),
                       msg_length |-> len, msg_type_id |-> MediaTypeId(ft)]
          ELSE [fmt |-> 0, csid |-> MediaCsid(ft), ts |-> FieldFor(ts),
                msg_length |-> len, msg_type_id |-> MediaTypeId(ft),
                msg_stream_id |-> media_stream_id]

(* First header, then encode_media_body, whose continuations look at the   *)
(* frame's timestamp and not at the header's field.                        *)
MediaChunks(compact, ft, ts, payload) ==
    ChunksOf(FirstHeader(compact, ft, ts, Len(payload)), payload, out_chunk_size, ts >= ExtMarker)

(* MediaHeaderTracker::commit.  *)
Commit(ft, ts, len) ==
    last' = [last EXCEPT ![ft] = [msg_stream_id |-> media_stream_id, timestamp |-> ts,
                                  msg_length |-> len, msg_type_id |-> MediaTypeId(ft)]]

(* Payload bytes carry the number of their message, so that a mix of two   *)
(* messages would show.                                                    *)
PayloadOf(len) == [i \in 1 .. len |-> <<"data", sent_count + 1, i>>]
SizePayload(size) == <<<<"size", size, 1>>>>

Recorded(m) ==
    /\ sent_count < MaxMessages
    /\ sent_count' = sent_count + 1
    /\ sent' = Append(sent, m)

ReceiverUnchanged == UNCHANGED <<vars, wire, handled, got>>

-----------------------------------------------------------------------------
(* Sender actions.  A relay fan-out is one call that ends by sending what  *)
(* it staged, so nothing else is queued while media is staged.             *)

Frame(ft, ts, len) ==
    [csid |-> MediaCsid(ft), timestamp |-> ts, msg_type_id |-> MediaTypeId(ft),
     msg_stream_id |-> media_stream_id, payload |-> PayloadOf(len)]

(* write_media_message: cached frames replayed to a new player, and the    *)
(* client's frames.                                                        *)
SendFrame(compact, ft, ts, len) ==
    /\ staged = <<>>
    /\ Recorded(Frame(ft, ts, len))
    /\ send_buffer' = send_buffer \o MediaChunks(compact, ft, ts, PayloadOf(len))
    /\ Commit(ft, ts, len)
    /\ UNCHANGED <<out_chunk_size, media_stream_id, staged>>
    /\ ReceiverUnchanged

CanStageMedia == send_buffer = <<>>

(* relay_frame_to_player: stage when nothing is queued ahead, else queue.  *)
RelayFrame(compact, ft, ts, len) ==
    LET chunks == MediaChunks(compact, ft, ts, PayloadOf(len))
    IN  /\ Recorded(Frame(ft, ts, len))
        /\ IF CanStageMedia
             THEN staged' = staged \o chunks /\ UNCHANGED send_buffer
             ELSE send_buffer' = send_buffer \o chunks /\ UNCHANGED staged
        /\ Commit(ft, ts, len)
        /\ UNCHANGED <<out_chunk_size, media_stream_id>>
        /\ ReceiverUnchanged

(* send_staged_media: the socket takes the first k chunks, the rest is     *)
(* queued.                                                                 *)
SendStagedMedia(k) ==
    /\ staged # <<>>
    /\ wire' = wire \o SubSeq(staged, 1, k)
    /\ send_buffer' = send_buffer \o SubSeq(staged, k + 1, Len(staged))
    /\ staged' = <<>>
    /\ UNCHANGED <<vars, last, out_chunk_size, media_stream_id, sent_count, sent, handled, got>>

(* send_command on chunk stream 3.  *)
SendCommand(len) ==
    LET m == [csid |-> 3, timestamp |-> 0, msg_type_id |-> 20, msg_stream_id |-> 0,
              payload |-> PayloadOf(len)]
    IN  /\ staged = <<>>
        /\ Recorded(m)
        /\ send_buffer' = send_buffer \o ChunkWrite(m)
        /\ UNCHANGED <<last, out_chunk_size, media_stream_id, staged>>
        /\ ReceiverUnchanged

(* A SetChunkSize goes out in chunks of the old size; the new size is in   *)
(* force for everything queued behind it.                                  *)
AnnounceChunkSize(size) ==
    LET m == [csid |-> 2, timestamp |-> 0, msg_type_id |-> 1, msg_stream_id |-> 0,
              payload |-> SizePayload(size)]
    IN  /\ staged = <<>>
        /\ size # out_chunk_size
        /\ Recorded(m)
        /\ send_buffer' = send_buffer \o ChunkWrite(m)
        /\ out_chunk_size' = size
        /\ UNCHANGED <<last, media_stream_id, staged>>
        /\ ReceiverUnchanged

(* createStream replaced the connection's stream.  *)
NewStream ==
    /\ staged = <<>>
    /\ media_stream_id' \in MsgStreamId \ {0, media_stream_id}
    /\ UNCHANGED <<last, out_chunk_size, staged, send_buffer, sent_count, sent>>
    /\ ReceiverUnchanged

(* flush hands the send buffer to the socket until the socket is full: one *)
(* chunk per step, so that it may stop anywhere.                           *)
Flush ==
    /\ send_buffer # <<>> /\ staged = <<>>
    /\ wire' = Append(wire, Head(send_buffer))
    /\ send_buffer' = Tail(send_buffer)
    /\ UNCHANGED <<vars, last, out_chunk_size, media_stream_id, staged, sent_count,
                   sent, handled, got>>

-----------------------------------------------------------------------------
(* Receiver actions: read_messages alternates chunk_read and               *)
(* handle_message.                                                         *)

(* The reader takes as many bytes for this chunk as the writer wrote.  *)
Aligned(chunk) ==
    /\ HasExtendedTimestamp(chunk.hdr) = chunk.ext
    /\ PayloadRead(chunk.hdr) = Len(chunk.data)

Receive ==
    /\ handled
    /\ wire # <<>>
    /\ Aligned(Head(wire))
    /\ ChunkRead(Head(wire).hdr, Head(wire).data)
    /\ wire' = Tail(wire)
    /\ handled' = (rc' # "Ok1")
    /\ UNCHANGED <<senderVars, sent, got>>

HandleMessage ==
    /\ ~handled
    /\ handled' = TRUE
    /\ IF msg.msg_type_id = 1
         THEN SetChunkSize(Head(msg.payload)[2])
         ELSE UNCHANGED vars
    /\ got' = <<[csid |-> msg.csid, timestamp |-> msg.timestamp,
                 msg_type_id |-> msg.msg_type_id, msg_stream_id |-> msg.msg_stream_id,
                 payload |-> msg.payload]>>
    /\ sent' = Tail(sent)
    /\ UNCHANGED <<senderVars, wire>>

WireNext ==
    \/ \E compact \in BOOLEAN, ft \in FrameTypes, ts \in FrameTimestamps, len \in FrameLengths :
         SendFrame(compact, ft, ts, len) \/ RelayFrame(compact, ft, ts, len)
    \/ \E k \in 0 .. Len(staged) : SendStagedMedia(k)
    \/ \E len \in FrameLengths \ {0} : SendCommand(len)
    \/ \E size \in ChunkSize : AnnounceChunkSize(size)
    \/ NewStream
    \/ Flush
    \/ Receive
    \/ HandleMessage

(* The fan-out always sends what it staged, a socket whose peer reads takes*)
(* more bytes in the end, and the receiver's poll loop drains its buffer.  *)
WireFairness ==
    /\ WF_wireVars(\E k \in 0 .. Len(staged) : SendStagedMedia(k))
    /\ WF_wireVars(Flush)
    /\ WF_wireVars(Receive)
    /\ WF_wireVars(HandleMessage)

WireSpec == WireInit /\ [][WireNext]_wireVars /\ WireFairness

-----------------------------------------------------------------------------
(* Properties.                                                             *)

(* At every chunk boundary the reader is about to take exactly the bytes   *)
(* the writer wrote for the chunk: payload length (message length, bytes   *)
(* already read and chunk size agree) and the presence of the extended     *)
(* timestamp, which a format 3 header does not show.                       *)
InSync == handled /\ wire # <<>> => Aligned(Head(wire))

(* The two chunk layers implement a first-in first-out message channel:    *)
(* nothing is lost, mixed, reordered or changed, timestamps and message    *)
(* stream ids included, and everything sent is delivered in the end.       *)
Channel == INSTANCE MessageChannel WITH
    queue <- sent,
    Msg <- [csid : Csid, timestamp : Timestamp, msg_type_id : MsgTypeId,
            msg_stream_id : MsgStreamId, payload : Seq(Byte)]

\* chunk_write with media headers and chunk_read together implement the FIFO channel.
ImplementsChannel == Channel!Spec
=============================================================================
