------------------------------ MODULE Messages -----------------------------
(***************************************************************************)
(* What a connection does with one complete message: Conn::handle_message  *)
(* and the handlers below it that Session leaves out (connect, media,      *)
(* data, aggregate and shared-object messages), next to what a player's    *)
(* Client makes of the same bytes.                                         *)
(*                                                                         *)
(* The connection publishes stream 1 once it is connected.  input is the   *)
(* message just handled with the truth about it (how it was put together), *)
(* out what handling it did.  Rest ends the recv batch: the server drains  *)
(* the relay queue and the budgets start again.                            *)
(***************************************************************************)
EXTENDS MediaTags, Commands

CONSTANTS
    MESSAGES_PER_RECV,
    MAX_TRACKS_PER_RECV,
    MAX_AGGREGATE_SUBTAGS,
    MAX_PENDING_RELAY_FRAMES,
    MAX_MESSAGES_PER_POLL,  \* the client's budget
    TS_MODULUS,             \* timestamps are computed modulo this
    MAX_MESSAGES,           \* bound: messages handled in one behaviour
    Setups,                 \* connections, hooks and players to start from
    Texts,                  \* urls and descriptions of reconnect requests
    Inputs,                 \* messages, each with the truth about it
    Later                   \* bound: the messages that may follow another

VARIABLES conn, viewer, hook, input, out
vars == <<conn, viewer, hook, input, out>>

AUDIO == 8
VIDEO == 9
AMF3_DATA == 15
AMF3_SHARED_OBJECT == 16
AMF3_COMMAND == 17
AMF0_DATA == 18
AMF0_COMMAND == 20
AGGREGATE == 22

ScriptLabel == 300      \* what the hook is asked about a script frame
NoHook == {0}
STREAM == 1
TypeName == [t \in {AUDIO, VIDEO, AMF0_DATA} |-> CASE t = AUDIO -> "Audio" [] t = VIDEO -> "Video" [] OTHER -> "Script"]

setDataFrame == <<57>>
onMetaData == <<58>>
width == <<93>>
framerate == <<94>>
audiochannels == <<95>>
stereo == <<96>>

NothingDetected == [video |-> None, audio |-> None, width |-> None, framerate |-> None,
                    channels |-> None, hdr |-> NoHdr]
NoOut == [res |-> "Ok", relay |-> <<>>, told |-> <<>>, reply |-> <<>>, arg |-> <<>>, shared |-> <<>>]
Idle == [type |-> 0, kind |-> "none"]

-----------------------------------------------------------------------------
(* A handler takes and returns s = [conn, out].  *)

Fail(s, res) == [s EXCEPT !.out.res = res]
Tell(s, ts, frame) == [s EXCEPT !.out.told = Append(@, <<ts, frame>>)]
Minus(x, y) == IF x > y THEN x - y ELSE 0

media_allowed(label) == hook = NoHook \/ (label # None /\ label \in hook)

is_active_publisher_stream(s, id) == s.conn.connected /\ s.conn.relay_enabled /\ id = STREAM

queue_relay_frame(s, ft, ts, payload, cache) ==
    IF s.conn.queued >= MAX_PENDING_RELAY_FRAMES THEN Fail(s, "Internal")
    ELSE [s EXCEPT !.conn.queued = @ + 1,
                   !.out.relay = Append(@, [ft |-> ft, ts |-> ts, payload |-> payload, cache |-> cache])]

AuthorizeFirst(ft, b, codec, multi) == IF media_allowed(codec) THEN "Ok" ELSE "Auth"
(* Every track of a container is authorized, not only the first.  *)
authorize_media_frame(ft, b, codec, multi) ==
    LET walk == foreach_track(ft, b)
        denied == \E i \in DOMAIN walk.tracks : ~media_allowed(media_fourcc_auth_label(walk.tracks[i].fourcc))
    IN  CASE hook = NoHook -> "Ok"
          [] hook # NoHook /\ ~multi -> IF media_allowed(codec) THEN "Ok" ELSE "Auth"
          [] OTHER -> IF ~walk.ok THEN "Protocol" ELSE IF denied THEN "Auth" ELSE "Ok"

(* The first codec is pinned; a video command has none to pin.  *)
update_detected_media_metadata(d, ft, codec, multi, b) ==
    LET hdr == IF ft = "Video" /\ ~multi THEN parse_video_metadata_hdr(b) ELSE NoHdr
    IN  [d EXCEPT !.video = IF ft = "Video" /\ @ = None /\ codec # Command THEN codec ELSE @,
                  !.audio = IF ft = "Audio" /\ @ = None THEN codec ELSE @,
                  !.hdr = IF hdr # NoHdr THEN hdr ELSE @]

(* dispatch_media_frame_callbacks: one callback per track, or one.  *)
FramesOf(ft, b) ==
    IF is_multitrack_container(ft, b)
    THEN [i \in DOMAIN foreach_track(ft, b).tracks |-> populate_multitrack_frame(ft, foreach_track(ft, b).tracks[i])]
    ELSE <<populate_av_frame(ft, b)>>

(* Charged before and after the callbacks, in all one unit per track.  *)
TrackWork(frames) == IF frames = <<>> THEN 1 ELSE Len(frames)

(* An authorized frame: metadata, callbacks, then the relay queue.  *)
AcceptFrame(s, ft, ts, payload, b, codec, multi, frames) ==
    LET seen == [s EXCEPT !.conn.detected = update_detected_media_metadata(@, ft, codec, multi, b),
                          !.conn.tracks = Minus(@, TrackWork(frames))]
    IN  IF multi /\ ~foreach_track(ft, b).ok THEN Fail(seen, "Protocol")
        ELSE queue_relay_frame([seen EXCEPT !.out.told = @ \o [i \in DOMAIN frames |-> <<ts, frames[i]>>]],
                               ft, ts, payload, b)

HandleUnwrapped(s, ft, ts, payload, b, codec, multi) ==
    LET auth == authorize_media_frame(ft, b, codec, multi)
    IN  IF auth # "Ok" THEN Fail(s, auth) ELSE AcceptFrame(s, ft, ts, payload, b, codec, multi, FramesOf(ft, b))

DetectAndHandle(s, ft, ts, payload, b) ==
    HandleUnwrapped(s, ft, ts, payload, b, DetectCodec(ft, b), is_multitrack_container(ft, b))

handle_media_frame(s, id, ft, ts, payload) ==
    IF is_active_publisher_stream(s, id)
    THEN DetectAndHandle(s, ft, ts, payload, normalize_modex_payload_with_frame_type(payload, ft)) ELSE s

-----------------------------------------------------------------------------
(* Data messages.  *)

(* read_data_event_name on a String or a LongString.  *)
EventName(b, p) ==
    IF p \in 1 .. Len(b) /\ Cell(b, p) \in {String, LongString} THEN ReadText(b, p, b[p], 64)
    ELSE [pos |-> 0, s |-> <<>>]

is_on_metadata_payload(b) ==
    LET first == EventName(b, 1)
        second == EventName(b, first.pos)
    IN  IF first.pos # 0 /\ first.s = setDataFrame THEN second.pos # 0 /\ second.s = onMetaData
        ELSE first.pos # 0 /\ first.s = onMetaData

apply_metadata_key(d, b, p, key) ==
    LET number == ReadNumber(b, p)
        v == Cell(b, p + 1)
        set(dd, at) == [pos |-> at, d |-> dd]
    IN  CASE key \in {width, framerate, audiochannels} /\ p > 0 /\ p <= Len(b) /\ Cell(b, p) = Number ->
                set(CASE number = 0 -> d
                      [] number # 0 /\ key = width -> IF v < U32 THEN [d EXCEPT !.width = v] ELSE d
                      [] number # 0 /\ key = framerate -> IF v \in 1 .. 1000 THEN [d EXCEPT !.framerate = v] ELSE d
                      [] OTHER -> IF v \in 1 .. 32 THEN [d EXCEPT !.channels = v] ELSE d, number)
          [] key = stereo /\ Cell(b, p) = Boolean ->
                set(IF Take(b, p, 2) = 0 THEN d ELSE [d EXCEPT !.channels = IF v # 0 THEN 2 ELSE 1], Take(b, p, 2))
          [] OTHER -> set(d, skip_value(b, p))

(* Stops silently at the first member that cannot be read; the members     *)
(* before it count.                                                        *)
RECURSIVE ReadMetadata(_, _, _, _)
ReadMetadata(d, b, p, keys) ==
    LET k == ReadKey(b, p, 256)
        r == apply_metadata_key(d, b, k.pos, k.s)
    IN  IF p = 0 \/ is_object_end(b, p) \/ keys >= MAX_OBJECT_KEYS \/ k.pos = 0 THEN d
        ELSE ReadMetadata(r.d, b, r.pos, keys + 1)

parse_on_metadata_object(d, b, p) ==
    CASE Cell(b, p) = Object -> ReadMetadata(d, b, p + 1, 0)
      [] Cell(b, p) = EcmaArray -> ReadMetadata(d, b, Take(b, p, 2), 0)
      [] OTHER -> d

handle_data_message(d, b) ==
    LET first == EventName(b, 1)
        second == EventName(b, first.pos)
        wrapped == first.s = setDataFrame
        named == IF wrapped THEN second ELSE first
    IN  IF first.pos = 0 \/ named.pos = 0 \/ named.s # onMetaData THEN d
        ELSE parse_on_metadata_object(NothingDetected, b, named.pos)

ScriptFrame(meta, b) == FrameOf("Script", NoTrack, 0, 0, meta, b)

handle_publisher_data_message(s, id, ts, b) ==
    LET relay == is_on_metadata_payload(b) /\ s.conn.relay_enabled
        read == [s EXCEPT !.conn.detected = handle_data_message(@, b)]
    IN  CASE ~s.conn.connected \/ id # STREAM -> s
          [] s.conn.connected /\ id = STREAM /\ relay /\ ~media_allowed(ScriptLabel) -> Fail(s, "Auth")
          [] OTHER -> IF ~relay THEN read
                      ELSE queue_relay_frame(Tell(read, ts, ScriptFrame(TRUE, b)), "Script", ts, b, b)

-----------------------------------------------------------------------------
(* Aggregates: sub-tags of a type, a size, a timestamp, a body and a       *)
(* trailing word.  The timestamps are relative to the first one's.         *)

Wrap(ts) == ts % TS_MODULUS

(* The sub-tags before the first one that is refused.  *)
RECURSIVE SubTags(_, _, _, _)
SubTags(d, p, zeroOk, tags) ==
    LET size == Cell(d, p + 1)
        body == SubSeq(d, p + 3, p + 2 + size)
    IN  CASE p + 2 > Len(d) -> [res |-> "Ok", tags |-> tags]
          [] p + 2 <= Len(d) /\ (Len(tags) >= MAX_AGGREGATE_SUBTAGS \/ p + 2 + size > Len(d)
                                 \/ (size = 0 /\ ~zeroOk)) -> [res |-> "Protocol", tags |-> tags]
          [] OTHER -> SubTags(d, p + 4 + size, zeroOk, Append(tags, [type |-> d[p], ts |-> d[p + 2], body |-> body]))

AbsoluteSubTime(tags, i, base) == Wrap(base + tags[i].ts)
SubTime(tags, i, base) == Wrap(base + TS_MODULUS + tags[i].ts - tags[1].ts)

Handle(s, type, id, ts, body) ==
    CASE type \in {AUDIO, VIDEO} -> handle_media_frame(s, id, TypeName[type], ts, body)
      [] type = AMF0_DATA -> handle_publisher_data_message(s, id, ts, body)
      [] OTHER -> s

RECURSIVE HandleSubTags(_, _, _, _, _)
HandleSubTags(s, id, base, walk, i) ==
    LET t == walk.tags[i]
        charged == [s EXCEPT !.conn.budget = @ - 1]
    IN  CASE s.out.res # "Ok" -> s
          [] s.out.res = "Ok" /\ i > Len(walk.tags) -> Fail(s, walk.res)
          [] s.out.res = "Ok" /\ i <= Len(walk.tags) /\ (s.conn.budget = 0 \/ s.conn.tracks = 0) -> s
          [] OTHER -> HandleSubTags(Handle(charged, t.type, id, SubTime(walk.tags, i, base), t.body),
                                    id, base, walk, i + 1)

handle_aggregate(s, id, base, d) == HandleSubTags(s, id, base, SubTags(d, 1, FALSE, <<>>), 1)

-----------------------------------------------------------------------------
(* connect, and shared objects.  *)

ErrorLevel == <<97>>

AnswerConnect(s, r) ==
    LET needs == NeedsCaps(r.info)
        caps == IF needs THEN negotiate_caps(r.info) ELSE s.conn.caps
        rejected == [s EXCEPT !.out.reply = build_onstatus(_error, 0, ErrorLevel, <<98>>, <<99>>, <<>>)]
    IN  CASE s.conn.connected -> s
          [] ~s.conn.connected /\ ~r.ok -> rejected
          [] ~s.conn.connected /\ r.ok /\ r.info.app = <<>> -> [rejected EXCEPT !.conn.app = <<>>]
          [] OTHER -> [s EXCEPT !.conn.app = r.info.app, !.conn.connected = TRUE, !.conn.caps = caps,
                                !.conn.enc = r.info.enc, !.out.reply = ConnectResult(1, r.info.enc, needs, caps)]

handle_connect(s, b) == AnswerConnect(s, read_connect_with_encoding(b))

(* The argument of the other commands, which Session's actions start from. *)
CommandArgument(b, name) ==
    CASE name \in {publish, play, releaseStream} -> read_named(b)
      [] name = pause -> read_pause(b)
      [] name \in {seek, deleteStream} -> read_seek(b)
      [] name = closeStream -> read_close_stream(b)
      [] name = createStream -> [ok |-> read_create_stream_partial(b).ok, v |-> read_create_stream_partial(b).id]
      [] OTHER -> [ok |-> FALSE, v |-> 0]

handle_command(s, b) ==
    LET name == ReadText(b, 1, String, 64)
    IN  CASE name.pos = 0 -> s
          [] name.pos # 0 /\ name.s = connect -> handle_connect(s, b)
          [] OTHER -> [s EXCEPT !.out.arg = <<CommandArgument(b, name.s)>>]

(* Delivered if the host's own hook for shared objects says so; without    *)
(* that hook they are dropped, since the frame callback is installed.      *)
handle_amf3_shared_object(s, d) ==
    LET so == shared_object_parse(d)
    IN  IF ~s.conn.connected \/ ~so.ok \/ s.conn.shared_auth # "allowed" THEN s
        ELSE [s EXCEPT !.out.shared = <<so.msg>>]

(* The AMF3 message types carry a 0 in front of their AMF0 body.  *)
StripMarker(d) == IF d # <<>> /\ Head(d) = 0 THEN Tail(d) ELSE d

handle_message(s, m) ==
    LET charged == [s EXCEPT !.conn.budget = @ - 1]
        d == IF m.type \in {AMF3_DATA, AMF3_SHARED_OBJECT, AMF3_COMMAND} THEN StripMarker(m.cells) ELSE m.cells
    IN  CASE m.type = AGGREGATE -> handle_aggregate(s, m.id, m.ts, d)
          [] m.type # AGGREGATE /\ s.conn.budget = 0 -> s
          [] OTHER -> CASE m.type = AMF3_SHARED_OBJECT -> handle_amf3_shared_object(charged, d)
                        [] m.type \in {AMF0_COMMAND, AMF3_COMMAND} -> handle_command(charged, d)
                        [] OTHER -> Handle(charged, IF m.type = AMF3_DATA THEN AMF0_DATA ELSE m.type, m.id, m.ts, d)

-----------------------------------------------------------------------------
(* A player.  *)

accepts_multitrack(caps) == ~caps.has_caps \/ caps.multitrack

conn_will_receive_relay_frame(v, f) ==
    CASE f.ft = "Audio" -> v.receive_audio /\ (is_multitrack_container(f.ft, f.cache) => accepts_multitrack(v.caps))
      [] f.ft = "Video" -> v.receive_video /\ (is_multitrack_container(f.ft, f.cache) => accepts_multitrack(v.caps))
      [] OTHER -> v.receive_audio \/ v.receive_video

(* Client::deliver_av_frame_cb on c = [res, told, processed].  Every track *)
(* after the first costs one more message.                                 *)
DeliverFrames(c, ts, frames) ==
    LET room == MAX_MESSAGES_PER_POLL - c.processed
        n == IF Len(frames) <= room + 1 THEN Len(frames) ELSE room + 1
    IN  [c EXCEPT !.told = @ \o [i \in 1 .. n |-> <<ts, frames[i]>>], !.processed = @ + n - 1]

DeliverUnwrapped(c, ft, ts, b) ==
    IF is_multitrack_container(ft, b) /\ ~foreach_track(ft, b).ok THEN [c EXCEPT !.res = "Protocol"]
    ELSE DeliverFrames(c, ts, FramesOf(ft, b))

DeliverWrapped(c, ft, ts, payload) == DeliverFrames(c, ts, FramesOf(ft, payload))
deliver_av_frame_cb(c, ft, ts, payload) ==
    DeliverUnwrapped(c, ft, ts, normalize_modex_payload_with_frame_type(payload, ft))

deliver_script_frame_cb(c, ts, b) ==
    [c EXCEPT !.told = Append(@, <<ts, ScriptFrame(is_on_metadata_payload(b), b)>>)]

ClientDeliver(c, ft, ts, b) ==
    IF ft = "Script" THEN deliver_script_frame_cb(c, ts, b) ELSE deliver_av_frame_cb(c, ft, ts, b)

(* Client::handle_aggregate_message, the second unpacker of aggregates.  *)
RECURSIVE DeliverSubTags(_, _, _, _)
DeliverSubTags(c, base, walk, i) ==
    LET t == walk.tags[i]
        charged == [c EXCEPT !.processed = @ + 1]
    IN  CASE c.res # "Ok" -> c
          [] c.res = "Ok" /\ i > Len(walk.tags) -> [c EXCEPT !.res = walk.res]
          [] c.res = "Ok" /\ i <= Len(walk.tags) /\ c.processed >= MAX_MESSAGES_PER_POLL -> c
          [] OTHER -> DeliverSubTags(IF t.type \notin DOMAIN TypeName THEN charged
                                     ELSE ClientDeliver(charged, TypeName[t.type], SubTime(walk.tags, i, base), t.body),
                                     base, walk, i + 1)

handle_aggregate_message(base, d) ==
    DeliverSubTags([res |-> "Ok", told |-> <<>>, processed |-> 1], base, SubTags(d, 1, FALSE, <<>>), 1)

-----------------------------------------------------------------------------
(* message/message.rs: the dispatcher for embedders with a connection type *)
(* of their own.  It tells the frame callback of audio and video only, and *)
(* looks into no wrapper or container.                                     *)

(* deliver_audio_frame, deliver_video_frame.  *)
deliver_frame(type, ts, b) == <<ts, populate_av_frame(TypeName[type], b)>>

decode_aggregate(publishing, base, d) ==
    LET walk == SubTags(d, 1, TRUE, <<>>)
        timed == [i \in DOMAIN walk.tags |-> [walk.tags[i] EXCEPT !.ts = SubTime(walk.tags, i, base)]]
        av == SelectSeq(timed, LAMBDA t : publishing /\ t.type \in {AUDIO, VIDEO})
    IN  [res |-> walk.res, told |-> [i \in DOMAIN av |-> deliver_frame(av[i].type, av[i].ts, av[i].body)]]

decode(publishing, m) ==
    CASE m.type = AGGREGATE -> decode_aggregate(publishing, m.ts, m.cells)
      [] m.type \in {AUDIO, VIDEO} /\ publishing -> [res |-> "Ok", told |-> <<deliver_frame(m.type, m.ts, m.cells)>>]
      [] OTHER -> [res |-> "Ok", told |-> <<>>]

-----------------------------------------------------------------------------
(* What a player that gets every frame of out.relay tells its callback.  *)
ClientTold(relay) ==
    FoldLeft(LAMBDA c, f : ClientDeliver([c EXCEPT !.processed = 1], f.ft, f.ts, f.payload),
             [res |-> "Ok", told |-> <<>>, processed |-> 1], relay)

-----------------------------------------------------------------------------
NewConn(setup) ==
    [app |-> <<>>, connected |-> FALSE, relay_enabled |-> setup.relay_enabled, caps |-> NoCaps, enc |-> 0,
     detected |-> NothingDetected, budget |-> MESSAGES_PER_RECV, tracks |-> MAX_TRACKS_PER_RECV,
     queued |-> 0, handled |-> 0, shared_auth |-> setup.shared_auth]

Init ==
    \E setup \in Setups :
        /\ conn = IF setup.connected THEN [NewConn(setup) EXCEPT !.connected = TRUE, !.app = <<60>>]
                  ELSE NewConn(setup)
        /\ viewer = [receive_audio |-> setup.receive_audio, receive_video |-> setup.receive_video,
                     caps |-> IF NeedsCaps(setup.offer) THEN negotiate_caps(setup.offer) ELSE NoCaps]
        /\ hook = setup.hook
        /\ input = Idle
        /\ out = NoOut

Receive(m) ==
    /\ input = Idle /\ conn.handled < MAX_MESSAGES
    /\ input' = m
    /\ \E s \in {handle_message([conn |-> conn, out |-> NoOut], m)} :
          conn' = [s.conn EXCEPT !.handled = @ + 1] /\ out' = s.out
    /\ UNCHANGED <<viewer, hook>>

(* Server::request_reconnect.  *)
RequestReconnect(url, desc) ==
    /\ input = Idle /\ conn.handled < MAX_MESSAGES
    /\ input' = [type |-> 0, kind |-> "reconnect", url |-> url, desc |-> desc]
    /\ out' = [NoOut EXCEPT !.reply = build_reconnect_request(url, desc)]
    /\ conn' = [conn EXCEPT !.handled = @ + 1]
    /\ UNCHANGED <<viewer, hook>>

(* Between two messages: of one batch, or of two with the relay drained.   *)
(* A connection whose message failed is closed.                            *)
Rest(newBatch) ==
    /\ input # Idle /\ out.res = "Ok"
    /\ input' = Idle
    /\ out' = NoOut
    /\ conn' = IF newBatch THEN [conn EXCEPT !.budget = MESSAGES_PER_RECV, !.tracks = MAX_TRACKS_PER_RECV,
                                             !.queued = 0]
               ELSE conn
    /\ UNCHANGED <<viewer, hook>>

Next ==
    \/ \E m \in IF conn.handled = 0 THEN Inputs ELSE Later : Receive(m)
    \/ \E url \in Texts, desc \in Texts : RequestReconnect(url, desc)
    \/ \E newBatch \in BOOLEAN : Rest(newBatch)

Spec == Init /\ [][Next]_vars

-----------------------------------------------------------------------------
(* The connection publishes and its message was looked at.  *)
Live == conn.connected /\ conn.relay_enabled
Looked == input.kind \in {"media", "data", "aggregate"} /\ input.id = STREAM /\ Live

Relayed == out.relay # <<>>

(* A media hook sees every codec: what a publisher puts into one message,  *)
(* under ModEx wrappers and in every track of a container, is relayed only *)
(* if the hook accepts each codec in it, and then it is relayed.           *)
CodecsAuthorized ==
    (input.kind = "media" /\ hook # NoHook) =>
        /\ Relayed => input.truth.codecs \subseteq hook
        /\ (Looked /\ conn.handled = 1 /\ input.truth.peel /\ input.truth.what # "broken"
              /\ input.truth.codecs \subseteq hook) => Relayed

(* A codec that telemetry reports for the publisher is one the hook        *)
(* accepted: a refused frame leaves no trace.                              *)
DetectedAuthorized ==
    hook # NoHook => {conn.detected.video, conn.detected.audio} \subseteq hook \cup {None}

(* The init cache is offered exactly the tags a late joiner needs: valid   *)
(* sequence headers and keyframes, however they are wrapped, and no header *)
(* whose record is broken.                                                 *)
CacheExact ==
    (input.kind = "media" /\ Relayed /\ input.truth.peel) =>
        classify_cache_frame(input.truth.ft, out.relay[1].cache) = input.truth.cache

(* What is sent once is never dropped for a slow player: sequence headers, *)
(* metadata, commands and channel layouts, wrapped or in a container.      *)
OneShotKept ==
    (input.kind = "media" /\ Relayed /\ input.truth.peel /\ input.truth.what \in {"seq", "once"}) =>
        \A hasVideo \in BOOLEAN : DeliveryHint(input.truth.ft, out.relay[1].cache, hasVideo) = "Critical"

FrameKeys(told) == [i \in DOMAIN told |-> <<told[i][2].track, told[i][2].fourcc, told[i][2].meta>>]

(* A frame callback on the server and one on the player are told the same  *)
(* frames in the same order, and for a tag that can be unwrapped its own   *)
(* tracks and codecs.                                                      *)
FramesAgree ==
    /\ (Relayed /\ out.res = "Ok") =>
          \A c \in {ClientTold(out.relay)} : c.res = "Ok" /\ c.told = out.told
    /\ (input.kind = "media" /\ Relayed /\ input.truth.peel) => FrameKeys(out.told) = input.truth.frames

(* A container that is malformed is refused whole: no track of it reaches  *)
(* a callback or a player.                                                 *)
BrokenRefused ==
    (input.kind = "media" /\ input.truth.what = "broken" /\ input.truth.peel) => (out.told = <<>> /\ ~Relayed)

(* A player that answered capsEx without multitrack gets no container,     *)
(* however the publisher wrapped it.                                       *)
MultitrackGated ==
    (input.kind = "media" /\ Relayed /\ input.truth.peel /\ input.truth.multi /\ viewer.caps.has_caps
        /\ ~viewer.caps.multitrack)
    => ~conn_will_receive_relay_frame(viewer, out.relay[1])

(* Colour information is what the metadata packet says, and a packet       *)
(* without it leaves the last one alone.                                   *)
HdrExact ==
    (input.kind = "media" /\ Relayed /\ input.truth.peel /\ ~input.truth.multi /\ input.truth.hdr # NoHdr) =>
        conn.detected.hdr = input.truth.hdr

(* onMetaData is relayed exactly when it is onMetaData, and it replaces    *)
(* everything that was known about the stream by what it says.             *)
MetadataExact ==
    (input.kind = "data" /\ Looked /\ out.res = "Ok") =>
        /\ Relayed => /\ input.truth.meta
                      /\ conn.detected = input.truth.detected
                      /\ out.relay[1].payload = input.truth.body
        /\ (input.truth.meta /\ conn.handled = 1) => Relayed

-----------------------------------------------------------------------------
(* The sub-tags of an aggregate reach players in order, each at the        *)
(* aggregate's time plus its distance from the first, modulo the clock,    *)
(* and a sub-tag is skipped only if it is no media or a budget ran out.    *)
AggregateExact ==
    LET subs == input.truth.subs
        media == SelectSeq([i \in DOMAIN subs |-> <<i, subs[i]>>], LAMBDA x : x[2].type \in DOMAIN TypeName)
        expected == [j \in DOMAIN media |-> <<TypeName[media[j][2].type],
                        Wrap(input.ts + TS_MODULUS + media[j][2].ts - subs[1].ts), media[j][2].body>>]
        got == [j \in DOMAIN out.relay |-> <<out.relay[j].ft, out.relay[j].ts, out.relay[j].payload>>]
    IN  (input.kind = "aggregate" /\ Looked) =>
            /\ IsPrefix(got, expected)
            /\ (out.res = "Ok" /\ conn.budget > 0 /\ conn.tracks > 0) =>
                    got = expected /\ input.truth.ends \in {"all", "word"}

(* Client, server and the embedders' dispatcher unpack an aggregate alike: *)
(* the player's callback is told what the server's was and refuses what it *)
(* refused, unless a budget cut one of them short; the dispatcher tells    *)
(* the same audio and video if nothing is wrapped, a container or empty.   *)
UnpackedAlike ==
    LET plain == \A i \in DOMAIN input.truth.subs : Len(input.truth.subs[i].body) < 5
        av == SelectSeq(out.told, LAMBDA t : t[2].ft # "Script")
    IN  (input.kind = "aggregate" /\ Looked /\ hook = NoHook /\ conn.budget > 0 /\ conn.tracks > 0
            /\ out.res # "Internal") =>
        \A c \in {handle_aggregate_message(input.ts, input.cells)} :
          c.processed < MAX_MESSAGES_PER_POLL =>
            /\ c.told = out.told /\ c.res = out.res
            /\ (plain /\ input.truth.ends # "empty") => decode(TRUE, input) = [res |-> out.res, told |-> av]

-----------------------------------------------------------------------------
(* connect is accepted exactly when no field of it is fatal and it names   *)
(* an app; malformed capabilities cost the connection nothing, in whatever *)
(* order the fields come; a connect cut short changes nothing.             *)
ConnectExact ==
    (input.kind = "connect" /\ conn.handled = 1 /\ out.reply # <<>>) =>
        /\ conn.connected <=> (~input.truth.fatal /\ input.truth.app # <<>>)
        /\ conn.connected => (conn.app = input.truth.app /\ conn.enc = input.truth.enc)
        /\ ~conn.connected => (conn.app = <<>> /\ conn.caps = NoCaps)

(* Capabilities: what the server grants was offered and is supported, the  *)
(* client reads from the answer what the server remembers, and a reconnect *)
(* is promised only to a client that can.                                  *)
CapsAgree ==
    (input.kind = "connect" /\ out.reply # <<>> /\ conn.connected) =>
        \A client \in {read_connect_result_with_caps(out.reply)} :
            /\ Range(conn.caps.list) \subseteq input.truth.list \cap SupportedFourCcs
            /\ {conn.caps.map[i][1] : i \in DOMAIN conn.caps.map} \subseteq input.truth.map \cap SupportedFourCcs
            /\ conn.caps.has_caps = input.truth.caps
            /\ And(conn.caps.mask, input.truth.mask) = conn.caps.mask
            /\ client.ok
            /\ \A f \in {"list", "has_list", "mask", "has_caps", "map", "has_map", "rc", "has_rc"} :
                  client.info[f] = conn.caps[f]

(* What a client builds the server reads back; a name that does not fit or *)
(* has a NUL in it is refused, never shortened; a command cut short is     *)
(* never read as one with another argument.                                *)
ArgumentsExact ==
    LET t == input.truth
    IN  (input.kind = "command" /\ out.arg # <<>>) =>
            /\ ~t.cut => (out.arg[1].ok <=> t.fits)
            /\ (out.arg[1].ok /\ t.name # closeStream) => (t.fits /\ out.arg[1].v = t.arg)
            /\ (out.arg[1].ok /\ t.name = closeStream) => out.arg[1].v \in {0, t.arg}

(* A reconnect request reaches the client's callback with its url and      *)
(* description, and no other status is taken for one.                      *)
ReconnectExact ==
    /\ input.kind = "reconnect" =>
          LET r == read_reconnect_request(out.reply)
          IN  r.res = "Request" /\ r.url = input.url /\ (input.desc # <<>> => r.desc = input.desc)
    /\ (input.kind = "connect" /\ out.reply # <<>>) => read_reconnect_request(out.reply).res = "Err"

(* A shared object within the limits arrives as it was written, one beyond *)
(* them not at all, and none without the host's consent.                   *)
SharedExact ==
    LET m == input.truth
        legal == shared_object_write(m).ok
    IN  input.kind = "shared" =>
            /\ out.shared \in {<<>>, <<m>>}
            /\ out.shared # <<>> => (legal /\ conn.connected /\ conn.shared_auth = "allowed")
            /\ (legal /\ conn.connected /\ conn.shared_auth = "allowed" /\ conn.handled = 1) => out.shared = <<m>>

-----------------------------------------------------------------------------
U29s == {0, 1, 2^7 - 1, 2^7, 2^14 - 1, 2^14, 2^21 - 1, 2^21, 2^22, 2^28 + 5, 2^29 - 1}
SomeFourCcs == {avc1, hvc1, av01, vvc1, Opus, mp4a}

(* What is written is read back, at every boundary of a variable-length    *)
(* form: AMF3 integers and strings, ModEx offsets, Enhanced RTMP headers,  *)
(* both binary forms of the FourCC map, the old one included, and the      *)
(* bodies of fixed layout; the client's connect with the capabilities it   *)
(* offers, and the results and statuses that answer its commands.          *)
WrittenIsRead ==
    input = Idle =>
        /\ \A offer \in {<<>>, <<avc1>>, <<hvc1, vvc1>>}, m \in {0, 15}, has \in BOOLEAN :
              LET caps == [NoCaps EXCEPT !.list = offer, !.has_list = offer # <<>>, !.mask = m, !.has_caps = has,
                                         !.rc = IF has THEN <<0, 0, 0, 1, 0, 0, 0, 2>> ELSE <<>>, !.has_rc = has]
              IN  \A r \in {read_connect_with_encoding(build_connect(<<60>>, <<61, 62>>, caps))} :
                  /\ r.ok /\ r.info.app = <<60>> /\ r.info.tcUrl = <<61, 62>> /\ r.info.enc = 0
                  /\ r.info.list = offer /\ r.info.mask = (IF has THEN m ELSE 0) /\ r.info.rc = caps.rc
        /\ \A id \in {1, 4}, n \in {0, 1, 7} : read_seek(build_create_stream_result(id, n)) = [ok |-> TRUE, v |-> n]
        /\ \A lvl \in {status, ErrorLevel}, cd \in {<<98>>, <<99>>} :
              read_onstatus(build_onstatus(onStatus, 0, lvl, cd, <<7>>, <<>>), <<98>>)
                 = CASE lvl # status -> "Auth" [] lvl = status /\ cd = <<98>> -> "Yes" [] OTHER -> "No"
        /\ \A v \in U29s : read_u29(write_u29(v), 1) = [pos |-> Len(write_u29(v)) + 1, v |-> v]
        /\ \A n \in {0, 63, 64} : LET t == [i \in 1 .. n |-> 7]
                                  IN  amf3_read_string(amf3_write_string(t), 65) = [ok |-> TRUE, s |-> t]
        /\ \A x \in {0, 255, 256, 2^16, 2^24 - 1}, next \in 0 .. 6 :
              LET r == modex_parse_prefix(modex_write([nano |-> TRUE, offset |-> x, next |-> next]))
              IN  r.res = "Ok" /\ r.offset = x /\ r.next = next
        /\ \A f \in 1 .. 4, p \in 0 .. 4, cc \in SomeFourCcs, ct \in {0, 5, -1} :
              LET timed == p = 1 /\ is_composition_time_codec(cc)
                  r == exvideo_parse(exvideo_write(VideoHeader(TRUE, f, p, cc, ct, 0)))
              IN  r = VideoHeader(TRUE, f, p, cc, IF timed THEN ct ELSE 0, IF timed THEN 3 ELSE 2)
        /\ \A c \in {AAC, MP3, 1}, bits \in {0, 15} :
              LET r == exaudio_parse(exaudio_write(AudioHeader(FALSE, c, 0, 0, bits, 1, 0)))
              IN  r.ok /\ ~r.ex /\ r.codec = c /\ r.bits = bits /\ (c = AAC => r.aac_packet_type = 1)
        /\ \A a \in SomeFourCcs \cup {STAR}, b \in SomeFourCcs \cup {STAR}, m \in {0, 4, 7} :
              /\ video_fourcc_info_map_parse(video_fourcc_info_map_write(<<<<a, m>>, <<b, 7>>>>))
                    = [ok |-> TRUE, v |-> <<<<a, m>>, <<b, 7>>>>]
              /\ video_fourcc_info_map_parse(fourcc_list_write(<<a, b>>))
                    = [ok |-> TRUE, v |-> <<<<a, FOUR_CC_INFO_ALL>>, <<b, FOUR_CC_INFO_ALL>>>>]
        /\ \A x \in {0, 255, 256, 2^16, 2^30 + 1}, y \in {1, 2^24, 2^30} :
              /\ reconnect_parse(reconnect_write(<<x, y>>)) = <<x, y>>
              /\ caps_exit_parse(caps_exit_write(<<y, x>>)) = <<y, x>>
              /\ read_word(write_word(x)) = [ok |-> TRUE, v |-> x]
              /\ read_set_peer_bandwidth(write_set_peer_bandwidth(y, x % 3)) = [ok |-> TRUE, v |-> y, limit |-> x % 3]
              /\ read_user_control(write_user_control_set_buffer_length(y, x), TRUE)
                    = [ok |-> TRUE, event |-> SET_BUFFER_LENGTH, p1 |-> y, p2 |-> <<x>>]
              /\ read_user_control(write_user_control(y % 7, x), FALSE) = [ok |-> TRUE, event |-> y % 7, p1 |-> x, p2 |-> <<>>]
        /\ \A x \in {0, 1, 1023, 1024} : read_window_ack_size(write_word(x)).ok <=> x \in {0, MIN_WINDOW_ACK_SIZE}
        /\ \A x \in {1, 255, 256, 2^16 - 1} : hdr_parse(hdr_write(<<x, 9, x>>)) = <<x, 9, x>>
        /\ \A t \in 0 .. 2, n \in {0, 2, MAX_TRACK_NAME} :
              LET mt == [ok |-> TRUE, type |-> t, name |-> [i \in 1 .. n |-> 100 + i]]
              IN  multitrack_parse(multitrack_write(mt)) = mt

(* Two parsers of one tag never disagree: what the public FLV parsers      *)
(* accept is legacy to the relay's parsers too, with the same codec, frame *)
(* type, composition time and packet type; they refuse enhanced tags; and  *)
(* a script tag names onMetaData whenever the relay takes it for metadata. *)
TagParsersAgree ==
    /\ input.kind = "media" =>
          LET b == input.cells
              v == video_tag_parse(b)
              a == audio_tag_parse(b)
          IN  /\ (input.truth.ft = "Video" /\ v.ok) =>
                    /\ exvideo_parse(b).ok /\ ~exvideo_parse(b).ex
                    /\ v.frame_type = exvideo_parse(b).frame_type /\ v.ct = exvideo_parse(b).ct
                    /\ v.codec = populate_av_frame("Video", b).codec
              /\ (input.truth.ft = "Audio" /\ a.ok) =>
                    /\ exaudio_parse(b).ok /\ ~exaudio_parse(b).ex /\ exaudio_parse(b).codec = a.codec
                    /\ exaudio_parse(b).aac_packet_type = a.aac /\ exaudio_parse(b).bits = a.bits
    /\ (input.kind = "data" /\ input.truth.meta /\ script_tag_parse(input.truth.body).ok) =>
          script_tag_parse(input.truth.body).name \in {onMetaData, setDataFrame}

-----------------------------------------------------------------------------
(* The checked properties, each of several of these that belong together.  *)

(* A media hook is asked about every codec, and what it refuses, or what   *)
(* is malformed, leaves no trace (authorize_media_frame).                  *)
MediaAuthorized == CodecsAuthorized /\ DetectedAuthorized /\ BrokenRefused

(* A player gets what it can use: late joiners the headers and keyframes,  *)
(* slow ones all that is sent once, ones without multitrack no container.  *)
PlayersServed == CacheExact /\ OneShotKept /\ MultitrackGated

(* Several readers of one message never disagree: server, client, the      *)
(* embedders' dispatcher and the public tag parsers.                       *)
ReadersAgree == FramesAgree /\ UnpackedAlike /\ TagParsersAgree

(* Aggregates, metadata and colour information arrive as they were sent.   *)
ContentsExact == AggregateExact /\ MetadataExact /\ HdrExact

(* connect: both ends end up with the same session, whatever the order and *)
(* the defects of its fields.                                              *)
Negotiated == ConnectExact /\ CapsAgree

(* What one end writes the other one reads back, or refuses as a whole, at *)
(* every boundary: commands, statuses, shared objects and the encodings    *)
(* below them.                                                             *)
ReadBack == ArgumentsExact /\ ReconnectExact /\ SharedExact /\ WrittenIsRead
=============================================================================
