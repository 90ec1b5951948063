---------------------------- MODULE MCMessages -----------------------------
(***************************************************************************)
(* Messages for TLC: tags, objects and commands put together from parts,   *)
(* each with what it was put together from.                                *)
(***************************************************************************)
EXTENDS Messages, FiniteSets

(* A tag: its cells and the truth about it.  *)
Tag(ft, cells, codecs, what, cache, frames, hdr) ==
    [ft |-> ft, cells |-> cells, codecs |-> codecs, what |-> what, cache |-> cache, frames |-> frames,
     hdr |-> hdr, peel |-> TRUE, multi |-> FALSE]
One(cc, meta) == <<<<NoTrack, cc, meta>>>>

-----------------------------------------------------------------------------
(* Configuration records: good and broken.  *)
GoodAvc == {<<1, 1, 2, 7, 7, 1, 1, 8>>, <<1, 1, 1, 7, 1, 1, 8, 1, 1, 1, 9>>}
BadAvc == {<<>>, <<0, 1, 1, 7, 1, 1, 8>>, <<1, 0, 1, 1, 8>>, <<1, 1, 2, 7, 7, 0>>, <<1, 1, 0, 1, 1, 8>>,
           <<1, 1, 2, 7, 7, 1, 2, 8>>, <<1, 1, 1, 7, 1, 1, 8, 1, 1, 2, 9>>}
GoodHevc == {<<1, 2, 33, 1, 1, 5, 34, 1, 1, 6>>}
BadHevc == {<<1, 1, 33, 1, 1, 5>>, <<1, 2, 33, 1, 1, 5, 34, 0>>, <<1, 2, 33, 1, 1, 5, 34, 1, 2, 6>>}
GoodAac == {<<2, 4, 2>>, <<31, 1, 4, 2>>, <<2, 15, 500, 2>>}
BadAac == {<<>>, <<2, 4>>, <<0, 4, 2>>, <<2, 13, 2>>, <<2, 15, 500>>}
Good(cc) == CASE cc = avc1 -> GoodAvc [] cc = hvc1 -> GoodHevc [] cc = mp4a -> GoodAac [] cc = Opus -> {<<>>, <<9>>}
              [] OTHER -> {<<9>>}
Bad(cc) == CASE cc = avc1 -> BadAvc [] cc = hvc1 -> BadHevc [] cc = mp4a -> BadAac [] cc = Opus -> {} [] OTHER -> {<<>>}

Config(ft, head, cc, codecs, frames, kind) ==
    {Tag(ft, head \o r, codecs, "seq", kind, frames, NoHdr) : r \in Good(cc)}
    \cup {Tag(ft, head \o r, codecs, "other", "LiveOnly", frames, NoHdr) : r \in Bad(cc)}

-----------------------------------------------------------------------------
(* Video.  *)
VideoCcs == {avc1, hvc1, av01, vvc1, ext1, star}
Label(cc) == {IF cc = star THEN None ELSE cc}
ExByte(frameType, packetType) == 128 + frameType * 16 + packetType

ColourObject(k, v) == <<Object>> \o Member(ColorKeys[k], write_number(v)) \o write_object_end
Named(value) == write_string(colorInfo) \o value
Colours ==
    {[cells |-> Named(<<Object>> \o Member(colorConfig, ColourObject(1, 9)) \o write_object_end), hdr |-> <<9, 1, 1>>],
     [cells |-> Named(ColourObject(2, 16)), hdr |-> <<1, 16, 1>>],
     [cells |-> ColourObject(3, 9), hdr |-> <<1, 1, 9>>],
     [cells |-> Named(<<Object>> \o Member(<<7>>, write_null) \o Member(colorPrimaries, write_number(9))
                \o Member(colorConfig, ColourObject(1, 4)) \o write_object_end), hdr |-> <<9, 1, 1>>],
     [cells |-> Named(<<Undefined>>), hdr |-> hdr_init],
     [cells |-> Named(ColourObject(1, 2^16)), hdr |-> NoHdr],
     [cells |-> <<>>, hdr |-> NoHdr]}

ExVideo ==
    UNION {Config("Video", <<ExByte(1, 0), cc>>, cc, Label(cc), One(cc, FALSE), "VideoSequenceHeader") : cc \in VideoCcs}
    \cup {Tag("Video", <<ExByte(f, 1), cc>> \o (IF is_composition_time_codec(cc) THEN <<7>> ELSE <<>>) \o <<200>>,
              Label(cc), "coded", IF f = 1 THEN "VideoKeyframe" ELSE "LiveOnly", One(cc, FALSE), NoHdr) :
              f \in {1, 2}, cc \in VideoCcs}
    \cup {Tag("Video", <<ExByte(f, 3), cc, 200>>, Label(cc), "coded",
              IF f = 1 THEN "VideoKeyframe" ELSE "LiveOnly", One(cc, FALSE), NoHdr) : f \in {1, 2}, cc \in {avc1, av01}}
    \cup {Tag("Video", <<ExByte(1, 2), cc>>, Label(cc), "other", "LiveOnly", One(cc, FALSE), NoHdr) : cc \in {avc1}}
    \cup {Tag("Video", <<ExByte(f, 4), cc>> \o c.cells, Label(cc), "once", "LiveOnly", One(cc, TRUE), c.hdr) :
              f \in {1, 5}, cc \in {avc1, av01}, c \in Colours}
    \cup {Tag("Video", <<ExByte(5, p), 1>>, {Command}, "once", "LiveOnly", One(0, FALSE), NoHdr) : p \in {0, 1}}

LegacyVideoTags ==
    {Tag("Video", <<23, 0, 0>> \o r, {avc1}, "seq", "VideoSequenceHeader", One(0, FALSE), NoHdr) : r \in GoodAvc}
    \cup {Tag("Video", <<23, 0, 0>> \o r, {avc1}, "other", "LiveOnly", One(0, FALSE), NoHdr) : r \in BadAvc}
    \cup {Tag("Video", <<f * 16 + 7, 1, IF f = 1 THEN 5 ELSE 2^24 - 1, 200>>, {avc1}, "coded", IF f = 1 THEN "VideoKeyframe" ELSE "LiveOnly",
              One(0, FALSE), NoHdr) : f \in {1, 2}}
    \cup {Tag("Video", <<f * 16 + n, 200>>, {IF n = 12 THEN hvc1 ELSE LegacyVideo(n)}, "coded",
              IF f = 1 THEN "VideoKeyframe" ELSE "LiveOnly", One(0, FALSE), NoHdr) : f \in {1, 2}, n \in {2, 12, 14}}

-----------------------------------------------------------------------------
(* Audio.  *)
AudioCcs == {Opus, mp4a, mp3, ext1, star}
ExAudio ==
    UNION {Config("Audio", <<144, cc>>, cc, Label(cc), One(cc, FALSE), "AudioSequenceHeader") : cc \in AudioCcs}
    \cup {Tag("Audio", <<144 + p, cc, 200>>, Label(cc), IF p = 1 THEN "coded" ELSE "once", "LiveOnly",
              One(cc, p = 3), NoHdr) : p \in {1, 3, 4}, cc \in {Opus, ext1}}

LegacyAudioTags ==
    {Tag("Audio", <<175, 0>> \o r, {mp4a}, "seq", "AudioSequenceHeader", One(0, FALSE), NoHdr) : r \in GoodAac}
    \cup {Tag("Audio", <<175, 0>> \o r, {mp4a}, "other", "LiveOnly", One(0, FALSE), NoHdr) : r \in BadAac}
    \cup {Tag("Audio", <<175, 1, 200>>, {mp4a}, "coded", "LiveOnly", One(0, FALSE), NoHdr),
          Tag("Audio", <<47, 200>>, {LegacyAudio(2)}, "coded", "LiveOnly", One(0, FALSE), NoHdr),
          Tag("Audio", <<239, 200>>, {LegacyAudio(2)}, "coded", "LiveOnly", One(0, FALSE), NoHdr),
          Tag("Audio", <<192, 200>>, {None}, "coded", "LiveOnly", One(0, FALSE), NoHdr)}
-----------------------------------------------------------------------------
(* Containers, of tracks [cc, body, good].  Track i has id i.  *)
Container(ft, head, kind, inner, tracks) ==
    <<head, kind * 16 + inner>> \o (IF kind = ManyTracksManyCodecs THEN <<>> ELSE <<tracks[1].cc>>)
    \o FlattenSeq([i \in DOMAIN tracks |->
          (IF kind = ManyTracksManyCodecs THEN <<tracks[i].cc>> ELSE <<>>)
          \o (IF kind = OneTrack THEN <<i>> ELSE <<i, Len(tracks[i].body)>>) \o tracks[i].body])

WhatInner(ft, inner, tracks) ==
    CASE inner = 0 -> IF \A i \in DOMAIN tracks : tracks[i].good THEN "seq" ELSE "other"
      [] inner = METADATA(ft) -> "once"
      [] OTHER -> IF ft = "Audio" /\ inner = MULTICHANNEL THEN "once" ELSE "coded"

CacheInner(ft, key, inner, tracks) ==
    CASE inner = 0 /\ (\A i \in DOMAIN tracks : tracks[i].good) -> (IF ft = "Video" THEN "VideoSequenceHeader" ELSE "AudioSequenceHeader")
      [] OTHER -> IF ft = "Video" /\ inner = 1 /\ key THEN "VideoKeyframe" ELSE "LiveOnly"

ContainerTag(ft, head, kind, inner, tracks) ==
    [Tag(ft, Container(ft, head, kind, inner, tracks), UNION {Label(tracks[i].cc) : i \in DOMAIN tracks},
         WhatInner(ft, inner, tracks), CacheInner(ft, FrameType3(head) = 1, inner, tracks),
         [i \in DOMAIN tracks |-> <<i, tracks[i].cc, inner = METADATA(ft)>>], NoHdr)
     EXCEPT !.multi = TRUE]

Track(cc, body, good) == [cc |-> cc, body |-> body, good |-> good]
VideoTracks == {Track(avc1, <<1, 1, 1, 7, 1, 1, 8>>, TRUE), Track(avc1, <<1, 1, 1, 7, 0>>, FALSE),
                Track(hvc1, <<1, 2, 33, 1, 1, 5, 34, 1, 1, 6>>, TRUE), Track(star, <<9>>, TRUE)}
AudioTracks == {Track(Opus, <<>>, TRUE), Track(mp4a, <<2, 4, 2>>, TRUE), Track(mp4a, <<2, 4>>, FALSE)}

Containers(ft, heads, tracks, inners) ==
    {ContainerTag(ft, h, OneTrack, inner, <<t>>) : h \in heads, inner \in inners, t \in tracks}
    \cup {ContainerTag(ft, h, ManyTracks, inner, <<p[1], p[2]>>) : h \in heads, inner \in inners,
             p \in {q \in tracks \X tracks : q[1].cc = q[2].cc}}
    \cup {ContainerTag(ft, h, ManyTracksManyCodecs, inner, <<p[1], p[2]>>) : h \in heads, inner \in inners,
             p \in tracks \X tracks}

GoodContainers ==
    Containers("Video", {ExByte(1, 6), ExByte(2, 6)}, VideoTracks, {0, 1, 4})
    \cup Containers("Audio", {149}, AudioTracks, {0, 1, 3, 4})

(* One track too many, and a container cut inside its last track.  *)
BrokenContainers ==
    LET three == ContainerTag("Video", ExByte(1, 6), ManyTracks, 0, [i \in 1 .. 3 |-> Track(avc1, <<1, 1, 1, 7, 1, 1, 8>>, TRUE)])
        two == ContainerTag("Video", ExByte(1, 6), ManyTracksManyCodecs, 0,
                   <<Track(avc1, <<1, 1, 1, 7, 1, 1, 8>>, TRUE), Track(hvc1, <<1, 2, 33, 1, 1, 5, 34, 1, 1, 6>>, TRUE)>>)
    IN  {[t EXCEPT !.cells = SubSeq(@, 1, Len(@) - k), !.what = "broken", !.cache = "LiveOnly"] :
            t \in {three, two}, k \in {1, 2}}
        \cup {[three EXCEPT !.what = "broken", !.cache = "LiveOnly"]}

-----------------------------------------------------------------------------
(* ModEx wrappers around an enhanced tag.  *)
Layer(ext, next) == (IF ext THEN <<255, 2>> ELSE <<2>>) \o <<0, 3, 232, next>>
ModExLayers(n, ext, next) == FlattenSeq([i \in 1 .. n |-> Layer(ext, IF i = n THEN next ELSE MODEX)])
Wrapped(t, n, ext) ==
    IF n = 0 THEN t
    ELSE [t EXCEPT !.cells = <<Hi(@[1]) * 16 + MODEX>> \o ModExLayers(n, ext, Lo(@[1])) \o Tail(@),
                   !.peel = n <= MAX_MODEX_CHAIN_LAYERS]
CutWrapper(t) == [t EXCEPT !.cells = <<Hi(@[1]) * 16 + MODEX, 2, 0, 3>>, !.peel = FALSE]

Enhanced == ExVideo \cup ExAudio \cup GoodContainers \cup BrokenContainers
SomeEnhanced == {t \in Enhanced : t.codecs \subseteq {avc1, Opus, ext1, Command} /\ t.hdr = NoHdr}

Tags ==
    Enhanced \cup LegacyVideoTags \cup LegacyAudioTags
    \cup {Wrapped(t, 1, FALSE) : t \in Enhanced}
    \cup {Wrapped(t, n, ext) : t \in SomeEnhanced, n \in {2, 3}, ext \in BOOLEAN}
    \cup {CutWrapper(t) : t \in SomeEnhanced}

MediaMessage(t) ==
    [type |-> IF t.ft = "Video" THEN VIDEO ELSE AUDIO, kind |-> "media", id |-> STREAM, ts |-> 1, cells |-> t.cells, truth |-> t]

-----------------------------------------------------------------------------
(* onMetaData.  A member sets a field, or none.  *)
Meta(key, value, field, v) == [cells |-> Member(key, value), field |-> field, v |-> v]
MetaMembers ==
    {Meta(width, write_number(640), "width", 640), Meta(width, write_number(U32), "none", 0),
     Meta(width, write_string(<<6>>), "none", 0), Meta(framerate, write_number(30), "framerate", 30),
     Meta(framerate, write_number(0), "none", 0), Meta(framerate, write_number(1001), "none", 0),
     Meta(audiochannels, write_number(32), "channels", 32), Meta(audiochannels, write_number(33), "none", 0),
     Meta(stereo, write_boolean(TRUE), "channels", 2), Meta(stereo, write_number(1), "none", 0),
     Meta(<<7>>, <<Object>> \o Member(width, write_number(3)) \o write_object_end, "none", 0)}

MetaTruth(ms) ==
    FoldLeft(LAMBDA d, m : CASE m.field = "width" -> [d EXCEPT !.width = m.v]
                             [] m.field = "framerate" -> [d EXCEPT !.framerate = m.v]
                             [] m.field = "channels" -> [d EXCEPT !.channels = m.v]
                             [] OTHER -> d, NothingDetected, ms)

MetaObject(ms, ecma) ==
    (IF ecma THEN <<EcmaArray, Len(ms)>> ELSE <<Object>>)
    \o FlattenSeq([i \in DOMAIN ms |-> ms[i].cells]) \o write_object_end

Data(name, body, meta, detected, type) ==
    [type |-> type, kind |-> "data", id |-> STREAM, ts |-> 1,
     cells |-> (IF type = AMF3_DATA THEN <<0>> ELSE <<>>) \o name \o body,
     truth |-> [body |-> name \o body, meta |-> meta, detected |-> detected]]

MetaNames == {write_string(onMetaData), write_long_string(onMetaData),
              write_string(setDataFrame) \o write_string(onMetaData)}
OtherNames == {write_string(<<59>>), write_string(setDataFrame), write_string(setDataFrame) \o write_string(<<59>>),
               write_number(5), <<String, 1>>, write_string(setDataFrame) \o <<LongString, 1>>}

MetaLists == {<<>>} \cup {<<m>> : m \in MetaMembers} \cup {<<p[1], p[2]>> : p \in MetaMembers \X MetaMembers}
SomeMeta == Meta(width, write_number(640), "width", 640)

DataMessages ==
    {Data(write_string(onMetaData), MetaObject(ms, ecma), TRUE, MetaTruth(ms), AMF0_DATA) : ms \in MetaLists, ecma \in BOOLEAN}
    \cup {Data(n, MetaObject(<<SomeMeta>>, FALSE), TRUE, MetaTruth(<<SomeMeta>>), t) :
             n \in MetaNames, t \in {AMF0_DATA, AMF3_DATA}}
    \cup {Data(n, <<>>, TRUE, NothingDetected, AMF0_DATA) : n \in MetaNames}
    \cup {Data(n, MetaObject(<<SomeMeta>>, FALSE), FALSE, NothingDetected, t) :
             n \in OtherNames, t \in {AMF0_DATA, AMF3_DATA}}

-----------------------------------------------------------------------------
(* Aggregates.  *)
Key == Tag("Video", <<23, 1, 5, 200>>, {avc1}, "coded", "VideoKeyframe", One(0, FALSE), NoHdr)
Sound == Tag("Audio", <<175, 1, 200>>, {mp4a}, "coded", "LiveOnly", One(0, FALSE), NoHdr)
Pair == ContainerTag("Video", ExByte(1, 6), ManyTracksManyCodecs, 0,
            <<Track(avc1, <<1, 1, 1, 7, 1, 1, 8>>, TRUE), Track(hvc1, <<1, 2, 33, 1, 1, 5, 34, 1, 1, 6>>, TRUE)>>)
Broken == CHOOSE t \in BrokenContainers : Len(t.frames) = 2
Script == MetaObject(<<SomeMeta>>, FALSE)

Sub(type, ts, body, work, good) == [type |-> type, ts |-> ts, body |-> body, work |-> work, good |-> good]
Subs == {Sub(VIDEO, 3, Key.cells, 1, TRUE), Sub(AUDIO, 0, Sound.cells, 1, TRUE), Sub(VIDEO, 1, Pair.cells, 2, TRUE),
         Sub(AMF0_DATA, 2, write_string(onMetaData) \o Script, 0, TRUE), Sub(3, 1, <<5>>, 0, TRUE),
         Sub(VIDEO, 1, Broken.cells, 1, FALSE)}
SubCells(t) == <<t.type, Len(t.body), t.ts>> \o t.body \o <<77>>
SubLists == {<<a>> : a \in Subs} \cup {<<p[1], p[2]>> : p \in Subs \X Subs}
            \cup {<<p[1], p[2], p[3]>> : p \in Subs \X Subs \X {t \in Subs : t.work < 2}}
            \cup {<<p[1], p[1], p[2], p[2]>> : p \in {t \in Subs : t.type # VIDEO} \X {t \in Subs : t.good}}

(* ends: how the bytes stop.  "word" leaves out the last trailing word,    *)
(* "cut" the last of the body too, "empty" adds a sub-tag of no bytes.     *)
Aggregate(subs, ends) ==
    LET all == FlattenSeq([i \in DOMAIN subs |-> SubCells(subs[i])])
    IN  [type |-> AGGREGATE, kind |-> "aggregate", id |-> STREAM, ts |-> 2,
         cells |-> CASE ends = "all" -> all
                     [] ends = "word" -> SubSeq(all, 1, Len(all) - 1)
                     [] ends = "cut" -> SubSeq(all, 1, Len(all) - 2)
                     [] OTHER -> all \o <<AUDIO, 0, 0, 77>>,
         truth |-> [subs |-> subs, ends |-> ends]]

Aggregates ==
    {Aggregate(l, "all") : l \in SubLists}
    \cup {Aggregate(l, e) : l \in {x \in SubLists : Len(x) <= 2}, e \in {"word", "cut", "empty"}}

-----------------------------------------------------------------------------
(* connect.  A field of its object: the cells, whether it makes the        *)
(* command fail, the app or the object encoding it sets, what it offers.   *)
Field(key, value) ==
    [cells |-> Member(key, value), fatal |-> FALSE, app |-> <<0>>, enc |-> None, list |-> {}, map |-> {},
     mask |-> 0, caps |-> FALSE]
Fatal(key, value) == [Field(key, value) EXCEPT !.fatal = TRUE]
App(name) == [Field(app, write_string(name)) EXCEPT !.app = name]
List(value, offered) == [Field(fourCcList, value) EXCEPT !.list = offered]
Caps(value, mask) == [Field(capsEx, value) EXCEPT !.mask = mask, !.caps = TRUE]
Map(value, offered) == [Field(videoFourCcInfoMap, value) EXCEPT !.map = offered]
Nest(inner) == <<Object>> \o Member(<<7>>, inner) \o write_object_end

Fields ==
    {App(<<60>>), App(<<59>>), App(<<>>), Field(app, write_number(1)), Fatal(app, write_string(<<1, 2, 3, 4>>)),
     Fatal(app, write_string(<<1, 0>>)),
     Field(tcUrl, write_string(<<5>>)), [Field(objectEncoding, write_number(3)) EXCEPT !.enc = 3],
     List(write_four_cc_list_amf(<<avc1, vvc1>>), {avc1, vvc1}), List(write_four_cc_list_amf(<<STAR>>), {STAR}),
     List(write_long_string(fourcc_list_write(<<hvc1, STAR>>)), {hvc1, STAR}), Field(fourCcList, write_number(3)),
     List(<<StrictArray, 2>> \o write_string(FourCcText(avc1)) \o write_number(4), {avc1}),
     Caps(write_number(15), 15), Caps(write_number(1), 1), Caps(write_number(0), 0), Field(capsEx, write_number(U32)),
     Caps(<<Object>> \o Member(videoCodecId, write_number(1)) \o write_object_end, 14),
     Map(write_video_fourcc_info_map_amf(<<<<avc1, 7>>, <<hvc1, 1>>>>), {avc1}),
     Map(write_long_string(video_fourcc_info_map_write(<<<<hvc1, 4>>>>)), {hvc1}),
     Map(write_long_string(fourcc_list_write(<<STAR>>)), {STAR}), Field(videoFourCcInfoMap, write_null),
     Field(reconnect, write_long_string(<<0, 0, 0, 1, 0, 0, 0, 2>>)), Field(reconnect, write_string(<<1>>)),
     Field(<<7>>, Nest(Nest(write_null))), Fatal(<<7>>, Nest(Nest(Nest(write_null))))}

ConnectCells(fs) ==
    write_string(connect) \o write_number(1) \o <<Object>>
    \o FlattenSeq([i \in DOMAIN fs |-> fs[i].cells]) \o write_object_end

ConnectTruth(fs) ==
    LET last(P(_), v(_), none) == FoldLeft(LAMBDA x, f : IF P(f) THEN v(f) ELSE x, none, fs)
    IN  [fatal |-> \E i \in DOMAIN fs : fs[i].fatal,
         app |-> last(LAMBDA f : f.app # <<0>>, LAMBDA f : f.app, <<>>),
         enc |-> last(LAMBDA f : f.enc # None, LAMBDA f : f.enc, 0),
         list |-> UNION {fs[i].list : i \in DOMAIN fs}, map |-> UNION {fs[i].map : i \in DOMAIN fs},
         mask |-> last(LAMBDA f : f.caps, LAMBDA f : f.mask, 0),
         caps |-> \E i \in DOMAIN fs : fs[i].caps]

Connect(fs, type) ==
    [type |-> type, kind |-> "connect", id |-> 0, ts |-> 0,
     cells |-> (IF type = AMF3_COMMAND THEN <<0>> ELSE <<>>) \o ConnectCells(fs), truth |-> ConnectTruth(fs)]

CutConnect(fs, n) ==
    [Connect(fs, AMF0_COMMAND) EXCEPT !.cells = SubSeq(@, 1, n), !.truth.fatal = TRUE]

FieldLists == {<<>>} \cup {<<f>> : f \in Fields} \cup {<<p[1], p[2]>> : p \in Fields \X Fields}
CutLists == {<<App(<<60>>), Caps(write_number(15), 15)>>,
             <<App(<<60>>), List(write_long_string(fourcc_list_write(<<hvc1, STAR>>)), {hvc1, STAR})>>}

Connects ==
    {Connect(<<App(<<60>>)>> \o fs, AMF0_COMMAND) : fs \in FieldLists}
    \cup {Connect(<<f, App(<<60>>)>>, AMF0_COMMAND) : f \in Fields}
    \cup {Connect(<<App(<<60>>), f>>, AMF3_COMMAND) : f \in Fields}
    \cup UNION {{CutConnect(fs, n) : n \in 3 .. Len(ConnectCells(fs)) - 1} : fs \in CutLists}

-----------------------------------------------------------------------------
(* The other commands, whole and cut.  *)
CommandInput(name, cells, arg, fits, n) ==
    [type |-> AMF0_COMMAND, kind |-> "command", id |-> 0, ts |-> 0, cells |-> SubSeq(cells, 1, n),
     truth |-> [name |-> name, arg |-> arg, fits |-> fits, cut |-> n < Len(cells)]]
Names == {<<>>, <<5>>, <<5, 6, 7>>, <<5, 6, 7, 8>>, <<5, 0>>}
Usable(n) == Len(n) < ROUTE_SIZE /\ 0 \notin Range(n)

StreamCommands ==
    {<<name, build_named(name, n, type), n, Usable(n)>> : name \in {publish, play, releaseStream}, n \in Names,
        type \in {<<>>, <<8>>}}
    \cup {<<pause, build_pause(b), b, TRUE>> : b \in BOOLEAN}
    \cup {<<seek, build_seek(7), 7, TRUE>>, <<deleteStream, build_deletestream(0, 2), 2, TRUE>>,
          <<closeStream, CommandHead(closeStream, 0) \o write_number(2), 2, TRUE>>,
          <<createStream, build_create_stream(4), 4, TRUE>>}

CommandInputs ==
    UNION {{CommandInput(c[1], c[2], c[3], c[4], n) : n \in 3 .. Len(c[2])} : c \in StreamCommands}

-----------------------------------------------------------------------------
(* Shared objects: <<name, version, flags, events>>.  *)
SharedMsgs ==
    LET datas == {<<>>, <<1>>, <<1, 2>>, <<1, 2, 3>>}
        events == {<<4, d>> : d \in datas}
        lists == {<<>>} \cup {<<e>> : e \in events} \cup {<<p[1], p[2]>> : p \in events \X events}
                 \cup {<<e, e, e>> : e \in events}
    IN  {<<n, 1, 2, l>> : n \in {<<5>>, <<5, 6>>, <<5, 6, 7>>}, l \in lists}

SharedCells(m) ==
    <<0, Len(m[1])>> \o m[1] \o <<m[2], m[3], 0>>
    \o FlattenSeq([i \in DOMAIN m[4] |-> <<m[4][i][1], Len(m[4][i][2])>> \o m[4][i][2]])

SharedInputs ==
    {[type |-> AMF3_SHARED_OBJECT, kind |-> "shared", id |-> 0, ts |-> 0, cells |-> SharedCells(m), truth |-> m] :
        m \in SharedMsgs}

-----------------------------------------------------------------------------
MCInputs ==
    {MediaMessage(t) : t \in Tags} \cup DataMessages \cup Aggregates \cup Connects \cup CommandInputs \cup SharedInputs
    \cup {[MediaMessage(Key) EXCEPT !.id = 2], [Aggregate(<<Sub(VIDEO, 1, Pair.cells, 2, TRUE)>>, "all") EXCEPT !.id = 2]}

MCLater ==
    {MediaMessage(t) : t \in {Key, Sound, Pair, Wrapped(Pair, 1, TRUE)} \cup
        {CHOOSE x \in Tags : x.hdr = c.hdr /\ x.what = "once" : c \in {y \in Colours : y.hdr # NoHdr}}}
    \cup {Data(write_string(onMetaData), MetaObject(<<SomeMeta>>, FALSE), TRUE, MetaTruth(<<SomeMeta>>), AMF0_DATA),
          Data(write_string(<<59>>), <<>>, FALSE, NothingDetected, AMF0_DATA)}
    \cup {Aggregate(<<a, b>>, "all") : a \in {x \in Subs : x.good}, b \in Subs}
    \cup {Connect(<<f, App(<<59>>)>>, AMF0_COMMAND) : f \in Fields}

Offer(has, mask) == [NoInfo EXCEPT !.has_caps = has, !.mask = mask]
Setup(c, r, a, offer, audio, video, h) ==
    [connected |-> c, relay_enabled |-> r, shared_auth |-> a, offer |-> offer, receive_audio |-> audio,
     receive_video |-> video, hook |-> h]

AllLabels == {avc1, hvc1, av01, vvc1, Opus, mp4a, mp3, ext1, Command, ScriptLabel} \cup {LegacyVideo(n) : n \in {2, 14}}
             \cup {LegacyAudio(2)}
MCSetups ==
    {Setup(FALSE, TRUE, "allowed", NoInfo, TRUE, TRUE, NoHook),
     Setup(TRUE, TRUE, "allowed", Offer(TRUE, 1), TRUE, TRUE, NoHook),
     Setup(TRUE, TRUE, "unset", Offer(TRUE, 2), TRUE, FALSE, {avc1, Opus, Command, ScriptLabel}),
     Setup(TRUE, TRUE, "denied", Offer(FALSE, 0), FALSE, TRUE, {hvc1, mp4a, ext1, LegacyVideo(2), LegacyAudio(2)}),
     Setup(TRUE, FALSE, "allowed", NoInfo, TRUE, TRUE, AllLabels)}

MCTexts == {<<>>, <<5>>, <<5, 6>>}
=============================================================================
