----------------------------- MODULE MediaTags -----------------------------
(***************************************************************************)
(* Audio and video tags as the relay reads them: the legacy FLV headers,   *)
(* the Enhanced RTMP headers (ertmp/exvideo.rs, ertmp/exaudio.rs), ModEx   *)
(* wrappers (media/modex.rs, ertmp/modex.rs), multitrack containers        *)
(* (ertmp/multitrack_media.rs), codec configuration records                *)
(* (media/codec_config.rs), and the decisions taken from them: what the    *)
(* init cache stores, what a slow player may lose, which codec a media     *)
(* hook is asked about, what a frame callback is told.                     *)
(*                                                                         *)
(* A tag is a sequence of cells (see Amf0).  The first byte keeps its      *)
(* bits; a FourCC, a UI16, a UI24 and a SI24 are one cell each, so "at     *)
(* least 5 bytes" is "at least 2 cells" of an enhanced header.             *)
(***************************************************************************)
EXTENDS Amf0, Integers

CONSTANTS
    MAX_MODEX_CHAIN_LAYERS,
    MAX_MULTITRACK_SUBTRACKS

(* FourCCs.  vvc1 is known to the header parser only; ext1 stands for any  *)
(* FourCC outside the registry, star for the wildcard.                     *)
avc1 == 1
hvc1 == 2
av01 == 3
vvc1 == 4
Opus == 5
mp4a == 6
mp3 == 7
ext1 == 9
star == 10

None == -1
Command == 99                       \* VIDEO_COMMAND_CODEC_LABEL
LegacyVideo(nibble) == 100 + nibble \* "legacy:<nibble>"
LegacyAudio(nibble) == 200 + nibble \* "legacy:<codec>"

Hi(c) == (c \div 16) % 16
Lo(c) == c % 16
Bit7(c) == Hi(c) >= 8
FrameType3(c) == Hi(c) % 8
From(b, p) == SubSeq(b, p, Len(b))
SI24(c) == IF c >= 2^23 THEN c - 2^24 ELSE c

SEQUENCE_START == 0
METADATA(ft) == IF ft = "Video" THEN 4 ELSE 3
MULTICHANNEL == 4
MULTITRACK(ft) == IF ft = "Video" THEN 6 ELSE 5
MODEX == 7
COMMAND_FRAME == 5

-----------------------------------------------------------------------------
(* ModEx wrappers.  *)

(* parse_modex_layer: a size (UI8 + 1, or the UI16 after 0xFF, + 1), that  *)
(* much data, and a byte with the extension type and the next packet type. *)
parse_modex_layer(b, p) ==
    LET ext == Cell(b, p) = 255
        start == IF ext THEN p + 2 ELSE p + 1
        end == start + (IF ext THEN Cell(b, p + 1) ELSE Cell(b, p)) + 1
    IN  [ok |-> end <= Len(b), type |-> Hi(Cell(b, end)), next |-> Lo(Cell(b, end)),
         data |-> IF end <= Len(b) THEN SubSeq(b, start, end - 1) ELSE <<>>, pos |-> end + 1]

RECURSIVE PeelLayers(_, _, _)
PeelLayers(b, p, layers) ==
    LET layer == parse_modex_layer(b, p)
    IN  CASE layers >= MAX_MODEX_CHAIN_LAYERS \/ ~layer.ok -> b
          [] layers < MAX_MODEX_CHAIN_LAYERS /\ layer.ok /\ layer.next = MODEX ->
                PeelLayers(b, layer.pos, layers + 1)
          [] OTHER -> <<Hi(b[1]) * 16 + layer.next>> \o From(b, layer.pos)

(* A chain that is too long or cut off stays wrapped.  *)
normalize_modex_payload_with_frame_type(b, ft) ==
    IF b = <<>> \/ ~Bit7(Cell(b, 1)) \/ Lo(Cell(b, 1)) # MODEX \/ (ft = "Audio" /\ Hi(Cell(b, 1)) # 9)
    THEN b ELSE PeelLayers(b, 2, 0)

(* ertmp/modex.rs: one layer as [nano, offset, next].  *)
modex_parse_prefix(b) ==
    LET layer == parse_modex_layer(b, 1)
        nano == layer.type = 0
    IN  CASE b = <<>> \/ ~layer.ok -> [res |-> "Io"]
          [] nano /\ Len(layer.data) < 3 -> [res |-> "Protocol"]
          [] OTHER -> [res |-> "Ok", nano |-> nano, next |-> layer.next, used |-> layer.pos - 1,
                       offset |-> IF nano THEN layer.data[1] * 2^16 + layer.data[2] * 2^8 + layer.data[3]
                                  ELSE 0]

modex_write(m) ==
    LET low == m.offset % 2^24
    IN  IF ~m.nano THEN <<>>
        ELSE <<2, low \div 2^16, (low \div 2^8) % 2^8, low % 2^8, m.next % 16>>

-----------------------------------------------------------------------------
(* Tag headers.  *)

is_composition_time_codec(cc) == cc \in {avc1, hvc1, vvc1}

IsCommand(frameType, packetType) ==
    frameType = COMMAND_FRAME /\ packetType \notin {METADATA("Video"), MODEX}

VideoHeader(ex, frameType, packetType, cc, ct, size) ==
    [ok |-> TRUE, ex |-> ex, frame_type |-> frameType, packet_type |-> packetType,
     fourcc |-> cc, ct |-> ct, size |-> size]

BadVideo == [VideoHeader(FALSE, 0, 0, 0, 0, 0) EXCEPT !.ok = FALSE]

exvideo_parse(b) ==
    LET b0 == Cell(b, 1)
        timed == Lo(b0) = 1 /\ is_composition_time_codec(Cell(b, 2))
    IN  CASE b = <<>> -> BadVideo
          [] b # <<>> /\ ~Bit7(b0) ->
                IF Lo(b0) = 7 /\ Len(b) >= 3 THEN VideoHeader(FALSE, Hi(b0), 0, 0, SI24(b[3]), 3)
                ELSE VideoHeader(FALSE, Hi(b0), 0, 0, 0, 1)
          [] Bit7(b0) /\ Len(b) < 2 -> BadVideo
          [] Bit7(b0) /\ Len(b) >= 2 /\ IsCommand(FrameType3(b0), Lo(b0)) ->
                VideoHeader(TRUE, COMMAND_FRAME, Lo(b0), 0, 0, 2)
          [] Bit7(b0) /\ Len(b) >= 2 /\ ~IsCommand(FrameType3(b0), Lo(b0)) ->
                IF ~timed THEN VideoHeader(TRUE, FrameType3(b0), Lo(b0), b[2], 0, 2)
                ELSE IF Len(b) < 3 THEN BadVideo
                ELSE VideoHeader(TRUE, FrameType3(b0), 1, b[2], SI24(b[3]), 3)

exvideo_write(h) ==
    LET timed == h.packet_type = 1 /\ is_composition_time_codec(h.fourcc)
    IN  IF ~h.ex \/ IsCommand(h.frame_type, h.packet_type) THEN <<>>
        ELSE <<128 + (h.frame_type % 8) * 16 + (h.packet_type % 16), h.fourcc>>
             \o (IF timed THEN <<h.ct % 2^24>> ELSE <<>>)

(* SoundFormat nibbles with a legacy codec: 14 is MP3 at 8 kHz.  *)
LegacyCodec(nibble) == IF nibble = 14 THEN 2 ELSE nibble
LegacySounds == (0 .. 8) \cup {10, 11, 14}
AAC == 10
MP3 == 2

(* The AudioCodec numbers of the FourCCs in the registry.  14 is Opus,     *)
(* which no legacy tag can carry.                                          *)
OPUS == 14
PCM == 0
AudioRegistry == [cc \in {Opus, mp4a, mp3} |-> CASE cc = Opus -> OPUS [] cc = mp4a -> AAC [] OTHER -> MP3]
fourcc_to_audio_codec(cc) == IF cc \in DOMAIN AudioRegistry THEN AudioRegistry[cc] ELSE PCM

(* The VideoCodec numbers of the FourCCs in the registry, and the default. *)
H264 == 7
H265 == 12
AV1 == 13
JPEG == 1
VideoRegistry == [cc \in {avc1, hvc1, av01} |-> CASE cc = avc1 -> H264 [] cc = hvc1 -> H265 [] OTHER -> AV1]
fourcc_to_video_codec(cc) == IF cc \in DOMAIN VideoRegistry THEN VideoRegistry[cc] ELSE JPEG

AudioHeader(ex, codec, packetType, cc, bits, aac, size) ==
    [ok |-> TRUE, ex |-> ex, codec |-> codec, packet_type |-> packetType, fourcc |-> cc,
     bits |-> bits, aac_packet_type |-> aac, size |-> size]

BadAudio == [AudioHeader(FALSE, PCM, 0, 0, 0, 0, 0) EXCEPT !.ok = FALSE]

exaudio_parse(b) ==
    LET b0 == Cell(b, 1)
    IN  CASE b = <<>> \/ (Hi(b0) = 9 /\ Len(b) < 2) \/ Hi(b0) \in {12, 13, 15} -> BadAudio
          [] b # <<>> /\ Hi(b0) \in LegacySounds ->
                IF Hi(b0) = AAC /\ Len(b) >= 2 THEN AudioHeader(FALSE, AAC, 0, 0, Lo(b0), b[2], 2)
                ELSE AudioHeader(FALSE, LegacyCodec(Hi(b0)), 0, 0, Lo(b0), 0, 1)
          [] Hi(b0) = 9 /\ Len(b) >= 2 ->
                AudioHeader(TRUE, fourcc_to_audio_codec(b[2]), Lo(b0), b[2], 0, 0, 2)

exaudio_write(h) ==
    CASE h.ex -> <<9 * 16 + (h.packet_type % 16), h.fourcc>>
      [] ~h.ex /\ h.codec = OPUS -> <<>>
      [] ~h.ex /\ h.codec = AAC -> <<AAC * 16 + (h.bits % 16), h.aac_packet_type>>
      [] OTHER -> <<h.codec * 16 + (h.bits % 16)>>

-----------------------------------------------------------------------------
(* Multitrack containers: a byte with the container type and the packet    *)
(* type all tracks share, the shared FourCC (or one before each track),    *)
(* and per track an id, a size (absent in the one-track form) and a body.  *)

is_multitrack_container(ft, b) ==
    /\ b # <<>>
    /\ Lo(b[1]) = MULTITRACK(ft)
    /\ IF ft = "Video" THEN Bit7(b[1]) /\ FrameType3(b[1]) # COMMAND_FRAME ELSE Hi(b[1]) = 9

OneTrack == 0
ManyTracks == 1
ManyTracksManyCodecs == 2

Malformed == [ok |-> FALSE, tracks |-> <<>>]

RECURSIVE walk_tracks(_, _, _, _)
walk_tracks(b, p, shared, seen) ==
    LET kind == Hi(b[2])
        idAt == IF kind = ManyTracksManyCodecs THEN p + 1 ELSE p
        body == IF kind = OneTrack THEN idAt + 1 ELSE idAt + 2
        end == IF kind = OneTrack THEN Len(b) + 1 ELSE body + Cell(b, idAt + 1)
        track == [id |-> b[idAt], fourcc |-> IF kind = ManyTracksManyCodecs THEN b[p] ELSE shared,
                  packet_type |-> Lo(b[2]), frame_type |-> FrameType3(b[1]), body |-> SubSeq(b, body, end - 1)]
    IN  CASE body - 1 > Len(b) \/ end - 1 > Len(b) \/ Len(seen) >= MAX_MULTITRACK_SUBTRACKS -> Malformed
          [] OTHER -> IF end = Len(b) + 1 THEN [ok |-> TRUE, tracks |-> Append(seen, track)]
                      ELSE walk_tracks(b, end, shared, Append(seen, track))

(* foreach_track: the tracks, or none of them when one is malformed.  *)
foreach_track(ft, b) ==
    IF ~is_multitrack_container(ft, b) \/ Len(b) < 3 \/ Hi(Cell(b, 2)) > ManyTracksManyCodecs THEN Malformed
    ELSE IF Hi(b[2]) = ManyTracksManyCodecs THEN walk_tracks(b, 3, 0, <<>>)
    ELSE walk_tracks(b, 4, b[3], <<>>)

multitrack_has(ft, b, packetType) ==
    \E i \in DOMAIN foreach_track(ft, b).tracks : foreach_track(ft, b).tracks[i].packet_type = packetType

multitrack_has_keyframe(b) ==
    /\ is_multitrack_container("Video", b) /\ Lo(Cell(b, 2)) \in {1, 3}
    /\ FrameType3(b[1]) = 1 /\ foreach_track("Video", b).ok

-----------------------------------------------------------------------------
(* Codec configuration records.  *)

(* skip_param_set, n times: a length, not zero, and that many bytes.  *)
RECURSIVE skip_param_sets(_, _, _)
skip_param_sets(r, p, n) ==
    IF n = 0 \/ p = 0 THEN p
    ELSE skip_param_sets(r, IF Cell(r, p) = 0 THEN 0 ELSE Take(r, p + 1, r[p]), n - 1)

(* The high-profile extension: chroma format and bit depths in one cell,   *)
(* then parameter sets.                                                    *)
validate_avc_extension(x) ==
    x = <<>> \/ (Len(x) >= 2 /\ skip_param_sets(x, 3, x[2]) # 0)

validate_avc_record(r) ==
    LET pps == skip_param_sets(r, 3, Cell(r, 2))
        ext == skip_param_sets(r, pps + 1, Cell(r, pps))
    IN  /\ Len(r) >= 3 /\ r[1] = 1 /\ r[2] # 0
        /\ pps # 0 /\ Cell(r, pps) # 0 /\ ext # 0
        /\ validate_avc_extension(From(r, ext))

HEVC_NAL_SPS == 33
HEVC_NAL_PPS == 34

RECURSIVE HevcArrays(_, _, _, _)
HevcArrays(r, p, n, have) ==
    IF n = 0 THEN {HEVC_NAL_SPS, HEVC_NAL_PPS} \subseteq have
    ELSE LET next == skip_param_sets(r, p + 2, Cell(r, p + 1))
         IN  /\ p + 1 <= Len(r) /\ next # 0
             /\ HevcArrays(r, next, n - 1, have \cup (IF r[p + 1] > 0 THEN {r[p] % 64} ELSE {}))

validate_hevc_record(r) == Len(r) >= 2 /\ r[1] = 1 /\ HevcArrays(r, 3, r[2], {})

(* AudioSpecificConfig: object type (31 has an extension), frequency index *)
(* (15 has an explicit frequency), channels; one cell per bit field.       *)
validate_aac_config(r) ==
    LET freq == IF Cell(r, 1) = 31 THEN 3 ELSE 2
        chan == IF Cell(r, freq) = 15 THEN freq + 2 ELSE freq + 1
    IN  Len(r) >= chan /\ r[1] # 0 /\ r[freq] \notin {13, 14}

validate_config_record(cc, r) ==
    CASE cc = avc1 -> validate_avc_record(r)
      [] cc = hvc1 -> validate_hevc_record(r)
      [] OTHER -> r # <<>>

sequence_start_config_valid(ft, cc, r) ==
    CASE ft = "Audio" /\ cc = mp4a -> validate_aac_config(r)
      [] ft = "Audio" /\ cc = Opus /\ r = <<>> -> TRUE
      [] OTHER -> validate_config_record(cc, r)

multitrack_sequence_configs_valid(ft, b) ==
    \A i \in DOMAIN foreach_track(ft, b).tracks :
        LET t == foreach_track(ft, b).tracks[i]
        IN  t.packet_type = SEQUENCE_START => sequence_start_config_valid(ft, t.fourcc, t.body)

-----------------------------------------------------------------------------
(* What the init cache stores.  *)

is_video_command(b) == b # <<>> /\ Bit7(b[1]) /\ FrameType3(b[1]) = COMMAND_FRAME

SequenceHeaderIf(valid, kind) == IF valid THEN kind ELSE "LiveOnly"

classify_multitrack_video(b) ==
    CASE multitrack_has("Video", b, SEQUENCE_START) ->
            SequenceHeaderIf(multitrack_sequence_configs_valid("Video", b), "VideoSequenceHeader")
      [] OTHER -> IF multitrack_has_keyframe(b) THEN "VideoKeyframe" ELSE "LiveOnly"

classify_ex_video(b, h) ==
    CASE h.packet_type = SEQUENCE_START ->
            SequenceHeaderIf(validate_config_record(h.fourcc, From(b, h.size + 1)), "VideoSequenceHeader")
      [] h.packet_type \in {1, 3} /\ h.frame_type = 1 -> "VideoKeyframe"
      [] OTHER -> "LiveOnly"

classify_legacy_video(b) ==
    CASE Lo(b[1]) = H264 /\ Len(b) >= 2 /\ Cell(b, 2) = 0 ->
            SequenceHeaderIf(validate_avc_record(From(b, 4)), "VideoSequenceHeader")
      [] ~(Lo(b[1]) = H264 /\ Len(b) >= 2 /\ Cell(b, 2) = 0) /\ Hi(b[1]) = 1
            /\ (Lo(b[1]) # H264 \/ Cell(b, 2) = 1) -> "VideoKeyframe"
      [] OTHER -> "LiveOnly"

classify_video(b) ==
    LET h == exvideo_parse(b)
    IN  CASE is_video_command(b) -> "LiveOnly"
          [] ~is_video_command(b) /\ is_multitrack_container("Video", b) -> classify_multitrack_video(b)
          [] OTHER -> IF ~h.ok THEN "LiveOnly"
                      ELSE IF h.ex THEN classify_ex_video(b, h) ELSE classify_legacy_video(b)

classify_audio(b) ==
    LET h == exaudio_parse(b)
        valid == CASE multitrack_has("Audio", b, SEQUENCE_START) -> multitrack_sequence_configs_valid("Audio", b)
                   [] ~multitrack_has("Audio", b, SEQUENCE_START) /\ h.ex ->
                         h.packet_type = SEQUENCE_START
                         /\ sequence_start_config_valid("Audio", h.fourcc, From(b, h.size + 1))
                   [] OTHER -> h.ok /\ h.codec = AAC /\ h.aac_packet_type = 0 /\ Len(b) >= 2
                               /\ validate_aac_config(From(b, 3))
    IN  SequenceHeaderIf(valid, "AudioSequenceHeader")

classify_cache_frame(ft, b) ==
    CASE ft = "Video" -> classify_video(b) [] ft = "Audio" -> classify_audio(b) [] OTHER -> "LiveOnly"

-----------------------------------------------------------------------------
(* What a slow player may lose (media/delivery.rs).  *)

TopLevelPacketOnly(ft, b, packetType) ==
    LET h == IF ft = "Video" THEN exvideo_parse(b) ELSE exaudio_parse(b)
    IN  h.ok /\ h.ex /\ h.packet_type = packetType
(* is_enhanced_video_metadata, is_enhanced_audio_metadata and              *)
(* is_enhanced_audio_multichannel differ in the packet type only.          *)
IsEnhancedPacket(ft, b, packetType) ==
    LET h == IF ft = "Video" THEN exvideo_parse(b) ELSE exaudio_parse(b)
    IN  IF is_multitrack_container(ft, b) THEN multitrack_has(ft, b, packetType)
        ELSE h.ok /\ h.ex /\ h.packet_type = packetType

DeliveryHint(ft, b, routeHasVideo) ==
    LET kind == classify_cache_frame(ft, b)
    IN  CASE \/ ft \in {"Script", "Metadata"}
             \/ ft = "Video" /\ (IsEnhancedPacket(ft, b, METADATA(ft)) \/ is_video_command(b))
             \/ ft = "Audio" /\ \E t \in {METADATA(ft), MULTICHANNEL} : IsEnhancedPacket(ft, b, t)
             \/ kind \in {"VideoSequenceHeader", "AudioSequenceHeader"} -> "Critical"
          [] OTHER -> IF kind = "VideoKeyframe" \/ (ft = "Audio" /\ ~routeHasVideo)
                      THEN "ResyncPoint" ELSE "Droppable"

-----------------------------------------------------------------------------
(* Which codec a media hook is asked about.  *)

media_fourcc_auth_label(cc) == IF cc = star THEN None ELSE cc

first_track_fourcc(ft, b) == foreach_track(ft, b).tracks[1].fourcc

detect_video_codec(b) ==
    LET h == exvideo_parse(b)
    IN  CASE foreach_track("Video", b).ok -> media_fourcc_auth_label(first_track_fourcc("Video", b))
          [] ~foreach_track("Video", b).ok /\ ~h.ok -> None
          [] h.ok /\ ~h.ex -> CASE Lo(b[1]) = H264 -> avc1 [] Lo(b[1]) = H265 -> hvc1
                                 [] Lo(b[1]) = AV1 -> av01 [] OTHER -> LegacyVideo(Lo(b[1]))
          [] OTHER -> CASE IsCommand(h.frame_type, h.packet_type) -> Command
                        [] h.packet_type = MODEX -> None
                        [] OTHER -> media_fourcc_auth_label(h.fourcc)

detect_audio_codec(b) ==
    LET h == exaudio_parse(b)
    IN  CASE foreach_track("Audio", b).ok -> media_fourcc_auth_label(first_track_fourcc("Audio", b))
          [] ~foreach_track("Audio", b).ok /\ (~h.ok \/ (h.ex /\ h.packet_type = MODEX)) -> None
          [] OTHER -> CASE h.ex -> media_fourcc_auth_label(h.fourcc)
                        [] ~h.ex /\ h.codec = AAC -> mp4a
                        [] OTHER -> LegacyAudio(h.codec)

DetectCodec(ft, b) == IF ft = "Video" THEN detect_video_codec(b) ELSE detect_audio_codec(b)

-----------------------------------------------------------------------------
(* What a frame callback is told.  Track 255 is "no track".  *)

NoTrack == 255

FrameOf(ft, track, cc, codec, meta, body) ==
    [ft |-> ft, track |-> track, fourcc |-> cc, codec |-> codec, meta |-> meta, body |-> body]

DefaultCodec(ft) == IF ft = "Video" THEN JPEG ELSE PCM

populate_multitrack_frame(ft, t) ==
    FrameOf(ft, t.id, t.fourcc,
            IF ft = "Video" THEN fourcc_to_video_codec(t.fourcc) ELSE fourcc_to_audio_codec(t.fourcc),
            t.packet_type = METADATA(ft), t.body)

legacy_video_codec(nibble) == IF nibble \in (1 .. 7) \cup {12, 13, 14} THEN nibble ELSE JPEG

populate_av_frame(ft, b) ==
    LET h == IF ft = "Video" THEN exvideo_parse(b) ELSE exaudio_parse(b)
        codec == CASE h.ex /\ ft = "Video" -> fourcc_to_video_codec(h.fourcc)
                   [] h.ex /\ ft = "Audio" -> fourcc_to_audio_codec(h.fourcc)
                   [] ~h.ex /\ ft = "Video" -> legacy_video_codec(Lo(b[1]))
                   [] OTHER -> h.codec
    IN  IF ~h.ok \/ (h.ex /\ h.packet_type = MODEX) THEN FrameOf(ft, NoTrack, 0, DefaultCodec(ft), FALSE, b)
        ELSE FrameOf(ft, NoTrack, h.fourcc, codec, h.ex /\ h.packet_type = METADATA(ft), b)

-----------------------------------------------------------------------------
(* HDR colour information in a video metadata packet.  Keys are strings of *)
(* one cell.                                                               *)

colorInfo == <<71>>
colorConfig == <<72>>
colorPrimaries == <<73>>
transferCharacteristics == <<74>>
matrixCoefficients == <<75>>
ColorKeys == <<colorPrimaries, transferCharacteristics, matrixCoefficients>>

hdr_init == <<1, 1, 1>>
NoHdr == <<>>

RECURSIVE scan_object_for_color_info(_, _, _, _, _, _)
(* direct and nested are what the object's own keys and an inner object    *)
(* gave so far.  Returns the result and where the scan stopped: the caller *)
(* of a failed inner scan reads on from there.  After a value that cannot  *)
(* be skipped the model lets it find nothing more.                         *)
scan_object_for_color_info(b, p, depth, keys, direct, nested) ==
    LET key == ReadKey(b, p, 64)
        tyAt == key.pos
        ty == Cell(b, tyAt)
        k == IF key.s \in Range(ColorKeys) THEN CHOOSE i \in 1 .. 3 : ColorKeys[i] = key.s ELSE 0
        base == IF direct = NoHdr THEN hdr_init ELSE direct
        stop(at, r) == [pos |-> at, hdr |-> r]
        inner == scan_object_for_color_info(b, tyAt + 1, depth - 1, 0, NoHdr, NoHdr)
        skipped == skip_value_depth(b, tyAt + 1, 0, ty)
        more(at, d, n) == scan_object_for_color_info(b, at, depth, keys + 1, d, n)
    IN  CASE is_object_end(b, p) -> stop(p + 2, IF direct # NoHdr THEN direct ELSE nested)
          [] ~is_object_end(b, p) /\ keys >= MAX_OBJECT_KEYS -> stop(p, NoHdr)
          [] ~is_object_end(b, p) /\ keys < MAX_OBJECT_KEYS /\ ReadType(b, tyAt) = 0 ->
                stop(IF tyAt = 0 THEN p + 1 ELSE tyAt + 1, NoHdr)
          [] OTHER ->
                CASE key.s = colorInfo /\ (ty = Undefined \/ (ty = Object /\ is_object_end(b, tyAt + 1))) ->
                        stop(tyAt + 1, hdr_init)
                  [] key.s \in Range(ColorKeys) /\ ty = Number ->
                        IF Take(b, tyAt + 1, 1) = 0 \/ Cell(b, tyAt + 1) >= 2^16 THEN stop(tyAt + 2, NoHdr)
                        ELSE more(tyAt + 2, [base EXCEPT ![k] = b[tyAt + 1]], nested)
                  [] key.s \in {colorConfig, colorInfo} /\ ty = Object /\ depth > 0
                        /\ ~(key.s = colorInfo /\ is_object_end(b, tyAt + 1)) ->
                        more(inner.pos, direct, IF inner.hdr # NoHdr THEN inner.hdr ELSE nested)
                  [] OTHER -> IF skipped = 0 THEN stop(Len(b) + 1, NoHdr) ELSE more(skipped, direct, nested)

parse_color_info_amf(b) ==
    LET name == ReadText(b, 1, String, 2)
        at == IF Cell(b, 1) = String THEN name.pos ELSE 1
    IN  CASE b = <<>> \/ at = 0 \/ (at > 1 /\ name.s # colorInfo) \/ ReadType(b, at) = 0 -> NoHdr
          [] at > 1 /\ name.s = colorInfo /\ (Cell(b, at) = Undefined
                \/ (Cell(b, at) = Object /\ is_object_end(b, at + 1))) -> hdr_init
          [] OTHER -> IF b[at] # Object THEN NoHdr
                      ELSE scan_object_for_color_info(b, at + 1, 2, 0, NoHdr, NoHdr).hdr

parse_video_metadata_hdr(b) ==
    LET h == exvideo_parse(b)
    IN  IF h.ok /\ h.ex /\ h.packet_type = METADATA("Video")
        THEN parse_color_info_amf(From(b, h.size + 1)) ELSE NoHdr

-----------------------------------------------------------------------------
(* flv/video_tag.rs, flv/audio_tag.rs, flv/script_tag.rs: the tag parsers  *)
(* of the public API, which know legacy headers only.                      *)

NoVideoTag == [ok |-> FALSE, frame_type |-> 0, codec |-> 0, avc |-> 0, ct |-> 0]

video_tag_parse(b) ==
    LET avc == Lo(Cell(b, 1)) = H264
    IN  IF b = <<>> \/ Bit7(Cell(b, 1)) \/ Lo(Cell(b, 1)) \notin 1 .. 7 THEN NoVideoTag
        ELSE [ok |-> TRUE, frame_type |-> Hi(b[1]), codec |-> Lo(b[1]),
              avc |-> IF avc THEN Cell(b, 2) ELSE 0, ct |-> IF avc THEN SI24(Cell(b, 3)) ELSE 0]

audio_tag_parse(b) ==
    IF b = <<>> \/ Hi(Cell(b, 1)) \notin LegacySounds THEN [ok |-> FALSE, codec |-> 0, bits |-> 0, aac |-> 0]
    ELSE [ok |-> TRUE, codec |-> LegacyCodec(Hi(b[1])), bits |-> Lo(b[1]),
          aac |-> IF Hi(b[1]) = AAC THEN Cell(b, 2) ELSE 0]

(* A name, if the first value is a string, then any value; an object there *)
(* is read to its end.  (Its keys are shorter than 256 here.)              *)
script_tag_parse(b) ==
    LET text == IF Cell(b, 1) \in {String, LongString} THEN ReadText(b, 1, Cell(b, 1), 64)
                ELSE [pos |-> skip_value(b, 1), s |-> <<>>]
        p == text.pos
        end == CASE Cell(b, p) = Object -> SkipMembers(b, p + 1, 0, 0)
                 [] Cell(b, p) = EcmaArray -> SkipMembers(b, Take(b, p + 1, 1), 0, 0)
                 [] OTHER -> p
    IN  [ok |-> Len(b) >= 2 /\ p # 0 /\ end # 0, name |-> text.s]
=============================================================================
