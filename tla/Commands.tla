------------------------------ MODULE Commands -----------------------------
(***************************************************************************)
(* Command messages (message/command.rs), the Enhanced RTMP capability     *)
(* values they carry (ertmp/connect_amf.rs, ertmp/connect_caps.rs),        *)
(* shared objects (message/shared_object.rs) and AMF3 integers             *)
(* (amf/amf3.rs), over the cells of Amf0.  A FourCC inside a string is     *)
(* four cells, its identity and three more; every other name is a string   *)
(* of one cell.                                                            *)
(***************************************************************************)
EXTENDS Amf0

CONSTANTS
    ROUTE_SIZE,         \* arrays for app and stream names hold fewer bytes
    MAX_FOURCCS,
    MAX_SO_EVENTS,
    MAX_SO_BYTES        \* names and event data of a shared object

app == <<61>>
tcUrl == <<62>>
fourCcList == <<63>>
capsEx == <<64>>
videoFourCcInfoMap == <<65>>
reconnect == <<66>>
objectEncoding == <<67>>
level == <<81>>
code == <<82>>
description == <<83>>
status == <<84>>

(* Numbers from U32 up stand for every double that is no u32.  *)
U32 == 2^16
STAR == 10
FourCcText(cc) == IF cc = STAR THEN <<STAR>> ELSE <<cc, 0, 0, 0>>
SupportedFourCcs == {1, 2, 3, 5, 6, STAR}     \* avc1 hvc1 av01 Opus mp4a *

RECONNECT == 1
MULTITRACK_CAP == 2
SERVER_DEFAULT == 14          \* multitrack, ModEx, timestamp nano
CAN_FORWARD == 4
FOUR_CC_INFO_ALL == 7

And(x, y) ==
    LET bit(i) == IF (x \div 2^i) % 2 = 1 /\ (y \div 2^i) % 2 = 1 THEN 2^i ELSE 0
    IN  bit(0) + bit(1) + bit(2) + bit(3)

-----------------------------------------------------------------------------
(* Strings.  *)

(* read_string_checked: lossless or refused.  A string that is too long is *)
(* consumed and refused, one with a NUL inside is refused.                 *)
read_string_checked(b, p, size) ==
    LET t == ReadText(b, p, String, size)
    IN  IF t.pos # 0 /\ 0 \in Range(t.s) THEN [pos |-> 0, s |-> <<>>] ELSE t

(* What every command starts with: a name, a transaction id and a value    *)
(* that is skipped.                                                        *)
SkipCommandHead(b) == skip_value(b, ReadNumber(b, ReadText(b, 1, String, 64).pos))

-----------------------------------------------------------------------------
(* Capability values.  Each reader returns the position after the value (0 *)
(* if it is malformed) and what it stored, which a malformed value may     *)
(* have changed already.                                                   *)

RECURSIVE read_four_cc_strict_array(_, _, _, _)
read_four_cc_strict_array(b, p, n, list) ==
    LET t == ReadText(b, p, String, 8)
        usable == t.s = <<STAR>> \/ Len(t.s) >= 4
    IN  CASE n = 0 -> [pos |-> p, v |-> list]
          [] n > 0 /\ t.pos = 0 -> [pos |-> 0, v |-> list]
          [] OTHER -> read_four_cc_strict_array(b, t.pos, n - 1, IF usable THEN Append(list, t.s[1]) ELSE list)

(* The list as bytes: a count, then per entry its length (1 or 4) and it.  *)
RECURSIVE fourcc_list_parse(_, _, _, _)
fourcc_list_parse(d, p, n, list) ==
    LET slen == Cell(d, p) * 256 + Cell(d, p + 1)
        cut == p + 1 > Len(d) \/ slen \notin {1, 4} \/ Take(d, p + 2, slen) = 0
    IN  CASE n = 0 \/ cut -> [ok |-> TRUE, v |-> list]
          [] n > 0 /\ ~cut /\ slen = 1 /\ Cell(d, p + 2) # STAR -> [ok |-> FALSE, v |-> list]
          [] OTHER -> fourcc_list_parse(d, p + 2 + slen, n - 1, Append(list, d[p + 2]))

Blob(b, p) == SubSeq(b, p + 1, p + Cell(b, p))

BlobCount(d) == LET n == Cell(d, 4) IN IF n < MAX_FOURCCS THEN n ELSE MAX_FOURCCS

read_four_cc_list_amf(b, p) ==
    LET ty == Cell(b, p)
        end == SkipCounted(b, p + 1)
        blob == fourcc_list_parse(Blob(b, p + 1), 5, BlobCount(Blob(b, p + 1)), <<>>)
        bad == [pos |-> 0, v |-> <<>>]
    IN  CASE p \in 1 .. Len(b) /\ ty = StrictArray /\ p < Len(b) /\ Cell(b, p + 1) <= MAX_FOURCCS ->
                read_four_cc_strict_array(b, p + 2, b[p + 1], <<>>)
          [] p \in 1 .. Len(b) /\ ty = LongString /\ end # 0 /\ Cell(b, p + 1) >= 4 ->
                IF blob.ok THEN [pos |-> end, v |-> blob.v] ELSE [pos |-> 0, v |-> blob.v]
          [] OTHER -> bad

(* add_video_map_entry for a key that is a FourCC or the wildcard.  *)
UsableKey(k) == k = <<STAR>> \/ Len(k) >= 4

RECURSIVE ReadMapArray(_, _, _, _), ReadMapObject(_, _, _)
ReadMapArray(b, p, n, map) ==
    LET t == ReadText(b, p, String, 8)
    IN  CASE n = 0 -> [pos |-> p, v |-> map]
          [] n > 0 /\ (t.pos = 0 \/ ~UsableKey(t.s)) -> [pos |-> 0, v |-> map]
          [] OTHER -> ReadMapArray(b, t.pos, n - 1, Append(map, <<t.s[1], FOUR_CC_INFO_ALL>>))

ReadMapObject(b, p, map) ==
    LET k == ReadKey(b, p, 256)
        end == ReadNumber(b, k.pos)
        bad == end = 0 \/ Cell(b, k.pos + 1) >= U32 \/ Len(map) >= MAX_FOURCCS \/ ~UsableKey(k.s)
    IN  CASE is_object_end(b, p) -> [pos |-> p + 2, v |-> map]
          [] ~is_object_end(b, p) /\ bad -> [pos |-> 0, v |-> map]
          [] OTHER -> ReadMapObject(b, end, Append(map, <<k.s[1], b[k.pos + 1]>>))

(* The map as bytes: as the list, each entry followed by a UI32 mask in    *)
(* the new layout and by nothing in the old.  BlobEnd walks one layout     *)
(* without reading it.                                                     *)
RECURSIVE BlobEnd(_, _, _, _), BlobEntries(_, _, _, _)
BlobEnd(d, p, n, extra) ==
    LET slen == Cell(d, p) * 256 + Cell(d, p + 1)
    IN  CASE n = 0 -> p
          [] n > 0 /\ (p + 1 > Len(d) \/ slen \notin {1, 4} \/ Take(d, p + 2, slen + extra) = 0) -> 0
          [] OTHER -> BlobEnd(d, p + 2 + slen + extra, n - 1, extra)

BlobEntries(d, p, n, extra) ==
    IF n = 0 THEN <<>>
    ELSE LET slen == d[p + 1]
             mask == IF extra = 0 THEN FOUR_CC_INFO_ALL ELSE d[p + 2 + slen + 3]
             entry == IF slen = 1 /\ d[p + 2] # STAR THEN <<0, 0>> ELSE <<d[p + 2], mask>>
         IN  <<entry>> \o BlobEntries(d, p + 2 + slen + extra, n - 1, extra)

video_fourcc_info_map_parse(d) ==
    LET n == BlobCount(d)
        extra == CASE BlobEnd(d, 5, n, 4) = Len(d) + 1 -> 4
                   [] BlobEnd(d, 5, n, 4) # Len(d) + 1 /\ BlobEnd(d, 5, n, 0) = Len(d) + 1 -> 0
                   [] OTHER -> 1
        entries == BlobEntries(d, 5, n, extra)
    IN  IF Len(d) < 4 \/ extra = 1 \/ <<0, 0>> \in Range(entries) THEN [ok |-> FALSE, v |-> <<>>]
        ELSE [ok |-> TRUE, v |-> entries]

read_video_fourcc_info_map_amf(b, p) ==
    LET ty == Cell(b, p)
        end == SkipCounted(b, p + 1)
        blob == video_fourcc_info_map_parse(Blob(b, p + 1))
    IN  CASE p \in 1 .. Len(b) /\ ty = StrictArray /\ p < Len(b) /\ Cell(b, p + 1) <= MAX_FOURCCS ->
                ReadMapArray(b, p + 2, b[p + 1], <<>>)
          [] p \in 1 .. Len(b) /\ ty = LongString /\ end # 0 ->
                IF blob.ok THEN [pos |-> end, v |-> blob.v] ELSE [pos |-> 0, v |-> <<>>]
          [] p \in 1 .. Len(b) /\ ty = Object -> ReadMapObject(b, p + 1, <<>>)
          [] p \in 1 .. Len(b) /\ ty = EcmaArray /\ p < Len(b) -> ReadMapObject(b, p + 2, <<>>)
          [] OTHER -> [pos |-> 0, v |-> <<>>]

videoCodecId == <<68>>

(* read_fourcc_number: a whole u32, or a string of at least four bytes.  *)
ReadFourCcNumber(b, p) ==
    CASE ReadNumber(b, p) # 0 -> IF b[p + 1] < U32 THEN p + 2 ELSE 0
      [] ReadNumber(b, p) = 0 /\ Cell(b, p) = String /\ Cell(b, p + 1) >= 4 -> SkipCounted(b, p + 1)
      [] OTHER -> 0

RECURSIVE ReadCapsObject(_, _, _)
ReadCapsObject(b, p, keys) ==
    LET k == ReadKey(b, p, 256)
        next == IF k.s = videoCodecId THEN ReadFourCcNumber(b, k.pos) ELSE skip_value(b, k.pos)
    IN  CASE is_object_end(b, p) -> p + 2
          [] ~is_object_end(b, p) /\ (keys >= MAX_OBJECT_KEYS \/ k.pos = 0 \/ next = 0) -> 0
          [] OTHER -> ReadCapsObject(b, next, keys + 1)

(* A number is the mask; the older forms stand for the server's own.  *)
read_caps_ex_amf(b, p) ==
    LET ty == Cell(b, p)
        number == ReadNumber(b, p)
    IN  CASE p \in 1 .. Len(b) /\ ty = Number ->
                IF number # 0 /\ Cell(b, p + 1) < U32 THEN [pos |-> number, v |-> b[p + 1]]
                ELSE [pos |-> 0, v |-> 0]
          [] ty = LongString ->
                [pos |-> IF Cell(b, p + 1) >= 8 THEN SkipCounted(b, p + 1) ELSE 0, v |-> SERVER_DEFAULT]
          [] ty = Object -> [pos |-> ReadCapsObject(b, p + 1, 0), v |-> SERVER_DEFAULT]
          [] OTHER -> [pos |-> 0, v |-> 0]

(* reconnect: eight bytes, replay and limit.  *)
read_reconnect_amf(b, p) ==
    LET end == SkipCounted(b, p + 1)
    IN  IF Cell(b, p) \in {String, LongString} /\ Cell(b, p + 1) = 8 /\ end # 0
        THEN [pos |-> end, v |-> Blob(b, p + 1)] ELSE [pos |-> 0, v |-> <<>>]

-----------------------------------------------------------------------------
(* connect.  *)

NoInfo == [app |-> <<>>, tcUrl |-> <<>>, enc |-> 0, list |-> <<>>, has_list |-> FALSE, mask |-> 0,
           has_caps |-> FALSE, map |-> <<>>, has_map |-> FALSE, rc |-> <<>>, has_rc |-> FALSE]

(* A capability field: the value if it can be read, else what it left      *)
(* behind; pos is where its value ends either way.                         *)
ReadCapability(b, p, info, key) ==
    LET list == read_four_cc_list_amf(b, p)
        caps == read_caps_ex_amf(b, p)
        map == read_video_fourcc_info_map_amf(b, p)
        rc == read_reconnect_amf(b, p)
        end(r) == IF r.pos # 0 THEN r.pos ELSE skip_value(b, p)
    IN  CASE key = fourCcList ->
                [pos |-> end(list), info |-> [info EXCEPT !.list = list.v, !.has_list = @ \/ list.pos # 0]]
          [] key = capsEx ->
                [pos |-> end(caps), info |-> IF caps.pos = 0 THEN info
                                             ELSE [info EXCEPT !.mask = caps.v, !.has_caps = TRUE]]
          [] key = videoFourCcInfoMap ->
                [pos |-> end(map), info |-> [info EXCEPT !.map = map.v, !.has_map = @ \/ map.pos # 0]]
          [] key = reconnect ->
                [pos |-> end(rc), info |-> IF rc.pos = 0 THEN info
                                           ELSE [info EXCEPT !.rc = rc.v, !.has_rc = TRUE]]

CapabilityKeys == {fourCcList, capsEx, videoFourCcInfoMap, reconnect}

read_connect_plain_field(b, p, info, key) ==
    LET text == read_string_checked(b, p, ROUTE_SIZE)
        number == ReadNumber(b, p)
    IN  CASE Cell(b, p) = String /\ key \in {app, tcUrl} ->
                [pos |-> text.pos, info |-> IF key = app THEN [info EXCEPT !.app = text.s]
                                            ELSE [info EXCEPT !.tcUrl = text.s]]
          [] ReadType(b, p) # 0 /\ Cell(b, p) = Number /\ key = objectEncoding ->
                [pos |-> number, info |-> IF number = 0 THEN info ELSE [info EXCEPT !.enc = b[p + 1]]]
          [] OTHER -> [pos |-> skip_value(b, p), info |-> info]

(* at is where the next member begins, 0 after one that cannot be read,    *)
(* and what the members before it said.                                    *)
RECURSIVE ReadConnectFields(_, _, _)
ReadConnectFields(b, at, keys) ==
    LET k == ReadKey(b, at.pos, 256)
    IN  CASE is_object_end(b, at.pos) -> [ok |-> TRUE, info |-> at.info]
          [] ~is_object_end(b, at.pos) /\ (at.pos = 0 \/ keys >= MAX_OBJECT_KEYS \/ k.pos = 0) ->
                [ok |-> FALSE, info |-> at.info]
          [] OTHER -> ReadConnectFields(b, IF k.s \in CapabilityKeys THEN ReadCapability(b, k.pos, at.info, k.s)
                                           ELSE read_connect_plain_field(b, k.pos, at.info, k.s), keys + 1)

read_connect_with_encoding(b) ==
    LET p == ReadNumber(b, ReadText(b, 1, String, 64).pos)
    IN  IF p = 0 \/ Cell(b, p) # Object THEN [ok |-> FALSE, info |-> NoInfo]
        ELSE ReadConnectFields(b, [pos |-> p + 1, info |-> NoInfo], 0)

EchoesOffer(info) ==
    [list |-> info.list, has_list |-> info.list # <<>>, mask |-> And(info.mask, 15), has_caps |-> info.has_caps,
     multitrack |-> info.has_caps => And(info.mask, MULTITRACK_CAP) # 0,
     map |-> info.map, has_map |-> info.map # <<>>, rc |-> info.rc, has_rc |-> info.has_rc]
(* Server support and client offer, intersected.  *)
negotiate_caps(info) ==
    LET list == IF info.has_list THEN SelectSeq(info.list, LAMBDA cc : cc \in SupportedFourCcs) ELSE <<>>
        forward(e) == And(e[2], CAN_FORWARD) # 0 /\ e[1] \in SupportedFourCcs
        map == IF info.has_map THEN SelectSeq(info.map, forward) ELSE <<>>
        mask == And(info.mask, SERVER_DEFAULT) + (IF info.has_rc THEN And(info.mask, RECONNECT) ELSE 0)
    IN  [list |-> list, has_list |-> list # <<>>,
         mask |-> IF info.has_caps THEN mask ELSE 0, has_caps |-> info.has_caps,
         multitrack |-> info.has_caps => And(mask, MULTITRACK_CAP) # 0,
         map |-> [i \in DOMAIN map |-> <<map[i][1], CAN_FORWARD>>], has_map |-> map # <<>>,
         rc |-> IF info.has_rc THEN info.rc ELSE <<>>, has_rc |-> info.has_rc]

NeedsCaps(info) == info.has_list \/ info.has_caps \/ info.has_map \/ info.has_rc
NoCaps == negotiate_caps(NoInfo)

(* write_negotiated_caps: the members, without the braces.  *)
write_four_cc_list_amf(list) ==
    <<StrictArray, Len(list)>> \o FlattenSeq([i \in DOMAIN list |-> write_string(FourCcText(list[i]))])

write_video_fourcc_info_map_amf(map) ==
    <<Object>> \o FlattenSeq([i \in DOMAIN map |->
                    write_object_key(FourCcText(map[i][1])) \o write_number(map[i][2])]) \o write_object_end

write_negotiated_caps(caps) ==
    LET member(has, key, value) == IF has THEN write_object_key(key) \o value ELSE <<>>
    IN  member(caps.has_list /\ caps.list # <<>>, fourCcList, write_four_cc_list_amf(caps.list))
        \o member(caps.has_caps, capsEx, write_number(caps.mask))
        \o member(caps.has_map /\ caps.map # <<>>, videoFourCcInfoMap, write_video_fourcc_info_map_amf(caps.map))
        \o member(caps.has_rc, reconnect, write_long_string(caps.rc))

(* The binary forms of connect_caps.rs.  A UI16 is two cells.  *)
BlobKey(cc) == <<0, Len(FourCcText(cc))>> \o FourCcText(cc)
fourcc_list_write(list) ==
    <<0, 0, 0, Len(list)>> \o FlattenSeq([i \in DOMAIN list |-> BlobKey(list[i])])
video_fourcc_info_map_write(map) ==
    <<0, 0, 0, Len(map)>> \o FlattenSeq([i \in DOMAIN map |-> BlobKey(map[i][1]) \o <<0, 0, 0, map[i][2]>>])

-----------------------------------------------------------------------------
(* Commands.  *)

connect == <<41>>
createStream == <<42>>
releaseStream == <<43>>
publish == <<44>>
play == <<45>>
deleteStream == <<46>>
closeStream == <<47>>
pause == <<48>>
seek == <<49>>
onStatus == <<50>>
_result == <<51>>
_error == <<52>>

Member(key, value) == write_object_key(key) \o value
CommandHead(name, id) == write_string(name) \o write_number(id) \o write_null

(* appName and url are the values of app and tcUrl.  *)
build_connect(appName, url, caps) ==
    write_string(connect) \o write_number(1) \o <<Object>>
    \o Member(app, write_string(appName)) \o Member(<<69>>, write_string(<<70>>))
    \o Member(tcUrl, write_string(url))
    \o Member(<<76>>, write_number(9)) \o Member(<<77>>, write_number(9))
    \o write_negotiated_caps(caps) \o write_object_end

(* build_release_stream, build_publish (with a type), build_play,          *)
(* build_fcpublish, build_fcunpublish.                                     *)
build_named(name, stream, type) ==
    CommandHead(name, IF name = releaseStream THEN 2 ELSE 0) \o write_string(stream)
    \o (IF type = <<>> THEN <<>> ELSE write_string(type))

build_create_stream(id) == CommandHead(createStream, id)
build_deletestream(id, stream) == CommandHead(deleteStream, id) \o write_number(stream)
build_create_stream_result(id, stream) == CommandHead(_result, id) \o write_number(stream)
build_pause(flag) == CommandHead(pause, 0) \o write_boolean(flag)
build_seek(millis) == CommandHead(seek, 0) \o write_number(millis)

(* build_onstatus, and build_error with level "error".  *)
build_onstatus(name, id, lvl, cd, desc, more) ==
    CommandHead(name, id) \o <<Object>> \o Member(level, write_string(lvl)) \o Member(code, write_string(cd))
    \o Member(description, write_string(desc)) \o more \o write_object_end

RECONNECT_REQUEST_CODE == <<85>>

(* An absent url or description is <<>>.  *)
build_reconnect_request(url, desc) ==
    build_onstatus(onStatus, 0, status, RECONNECT_REQUEST_CODE, IF desc = <<>> THEN <<86>> ELSE desc,
                   IF url = <<>> THEN <<>> ELSE Member(tcUrl, write_string(url)))

(* The _result of connect: the server's properties, then the information   *)
(* object with the negotiated capabilities.                                *)
ConnectResult(id, enc, needsCaps, caps) ==
    write_string(_result) \o write_number(id)
    \o <<Object>> \o Member(<<87>>, write_string(<<88>>)) \o Member(<<89>>, write_number(31))
    \o Member(<<90>>, write_number(1)) \o write_object_end
    \o <<Object>> \o Member(level, write_string(status)) \o Member(code, write_string(<<91>>))
    \o Member(description, write_string(<<92>>)) \o Member(objectEncoding, write_number(enc))
    \o (IF needsCaps THEN write_negotiated_caps(caps) ELSE <<>>) \o write_object_end

(* The client's reading of it; multitrack_enabled follows capsEx.  *)
RECURSIVE parse_connect_result_caps(_, _, _)
parse_connect_result_caps(b, at, keys) ==
    LET k == ReadKey(b, at.pos, 256)
    IN  CASE is_object_end(b, at.pos) -> [ok |-> TRUE, info |-> at.info]
          [] ~is_object_end(b, at.pos) /\ (at.pos = 0 \/ keys >= MAX_OBJECT_KEYS \/ k.pos = 0) ->
                [ok |-> FALSE, info |-> at.info]
          [] OTHER -> parse_connect_result_caps(b, IF k.s \in CapabilityKeys THEN ReadCapability(b, k.pos, at.info, k.s)
                                                   ELSE [pos |-> skip_value(b, k.pos), info |-> at.info], keys + 1)

read_connect_result_with_caps(b) ==
    LET p == SkipCommandHead(b)
    IN  CASE ReadType(b, p) = 0 -> [ok |-> FALSE, info |-> NoInfo]
          [] ReadType(b, p) # 0 /\ Cell(b, p) # Object -> [ok |-> skip_value(b, p) # 0, info |-> NoInfo]
          [] OTHER -> parse_connect_result_caps(b, [pos |-> p + 1, info |-> NoInfo], 0)

-----------------------------------------------------------------------------
(* Readers of the other commands.  *)

(* read_create_stream_partial: the transaction id is known before the rest *)
(* is read.                                                                *)
read_create_stream_partial(b) ==
    LET p == ReadNumber(b, ReadText(b, 1, String, 64).pos)
    IN  [ok |-> skip_value(b, p) # 0, id |-> IF p = 0 THEN 0 ELSE b[p - 1]]

ReadShortened(b) ==
    LET t == ReadText(b, SkipCommandHead(b), String, 64)
    IN  [ok |-> t.pos # 0, v |-> SubSeq(t.s, 1, IF Len(t.s) < ROUTE_SIZE THEN Len(t.s) ELSE ROUTE_SIZE - 1)]
(* read_publish, read_play, read_release_stream: the name; what follows it *)
(* never makes the command fail.                                           *)
read_named(b) ==
    LET t == read_string_checked(b, SkipCommandHead(b), ROUTE_SIZE) IN [ok |-> t.pos # 0, v |-> t.s]

(* read_pause, read_bool_command.  *)
read_bool_value(b, p) ==
    CASE Cell(b, p) \in {Boolean, Number} /\ Take(b, p, 2) # 0 -> [ok |-> TRUE, v |-> b[p + 1] # 0]
      [] OTHER -> [ok |-> FALSE, v |-> FALSE]
read_pause(b) == read_bool_value(b, SkipCommandHead(b))

(* read_seek, and the stream id of read_create_stream_result.  *)
read_seek(b) ==
    LET p == ReadNumber(b, SkipCommandHead(b)) IN [ok |-> p # 0, v |-> IF p = 0 THEN 0 ELSE b[p - 1]]

(* No stream id (0 here) when the command has no argument or another one.  *)
read_close_stream(b) ==
    LET p == SkipCommandHead(b)
    IN  CASE p = 0 \/ (p <= Len(b) /\ ReadType(b, p) = 0) -> [ok |-> FALSE, v |-> 0]
          [] p > Len(b) \/ Cell(b, p) # Number -> [ok |-> p # 0, v |-> 0]
          [] OTHER -> IF Take(b, p, 2) = 0 THEN [ok |-> FALSE, v |-> 0] ELSE [ok |-> TRUE, v |-> b[p + 1]]

(* The members of an information object that are strings to the reader.    *)
RECURSIVE ReadTexts(_, _, _, _, _)
ReadTexts(b, p, keys, wanted, got) ==
    LET k == ReadKey(b, p, 256)
        t == ReadText(b, k.pos, String, 128)
        wantedKey == k.s \in wanted
        next == IF wantedKey THEN t.pos ELSE skip_value(b, k.pos)
    IN  CASE is_object_end(b, p) -> [ok |-> TRUE, got |-> got]
          [] ~is_object_end(b, p) /\ (keys >= MAX_OBJECT_KEYS \/ k.pos = 0 \/ next = 0) -> [ok |-> FALSE, got |-> got]
          [] OTHER -> ReadTexts(b, next, keys + 1, wanted, IF wantedKey THEN [got EXCEPT ![k.s] = t.s] ELSE got)

InfoObject(b, wanted) ==
    LET p == SkipCommandHead(b)
        none == [k \in wanted |-> <<>>]
    IN  IF p = 0 \/ Cell(b, p) # Object THEN [ok |-> FALSE, got |-> none]
        ELSE ReadTexts(b, p + 1, 0, wanted, none)

read_onstatus(b, expected) ==
    LET r == InfoObject(b, {level, code})
    IN  CASE ~r.ok -> "Amf"
          [] r.ok /\ r.got[level] # status -> "Auth"
          [] OTHER -> IF r.got[code] = expected THEN "Yes" ELSE "No"

(* None for another status; an empty url or description is an absent one.  *)
read_reconnect_request(b) ==
    LET r == InfoObject(b, {code, description, tcUrl})
    IN  CASE ReadText(b, 1, String, 64).s # onStatus \/ ~r.ok -> [res |-> "Err"]
          [] OTHER -> IF r.got[code] # RECONNECT_REQUEST_CODE THEN [res |-> "None"]
                      ELSE [res |-> "Request", url |-> r.got[tcUrl], desc |-> r.got[description]]

-----------------------------------------------------------------------------
(* Shared objects: a name, three words, events of a type and data.  *)

RECURSIVE ParseEvents(_, _, _)
ParseEvents(d, p, events) ==
    LET end == SkipCounted(d, p + 1)
    IN  CASE p > Len(d) -> [ok |-> TRUE, events |-> events]
          [] p <= Len(d) /\ (Len(events) >= MAX_SO_EVENTS \/ Cell(d, p + 1) > MAX_SO_BYTES \/ end = 0) ->
                [ok |-> FALSE, events |-> <<>>]
          [] OTHER -> ParseEvents(d, end, Append(events, <<d[p], SubSeq(d, p + 2, end - 1)>>))

shared_object_parse(d) ==
    LET p == SkipCounted(d, 1)
        r == ParseEvents(d, p + 3, <<>>)
        bad == [ok |-> FALSE, msg |-> <<>>]
    IN  IF Cell(d, 1) > MAX_SO_BYTES \/ Take(d, p, 3) = 0 THEN bad
        ELSE IF ~r.ok THEN bad
        ELSE [ok |-> TRUE, msg |-> <<SubSeq(d, 2, p - 1), d[p], d[p + 1], r.events>>]

shared_object_write(m) ==
    IF Len(m[1]) > MAX_SO_BYTES \/ Len(m[4]) > MAX_SO_EVENTS \/ \E i \in DOMAIN m[4] : Len(m[4][i][2]) > MAX_SO_BYTES
    THEN [ok |-> FALSE, d |-> <<>>]
    ELSE [ok |-> TRUE, d |-> write_object_key(m[1]) \o <<m[2], m[3], 0>> \o
             FlattenSeq([i \in DOMAIN m[4] |-> <<m[4][i][1], Len(m[4][i][2])>> \o m[4][i][2]])]

-----------------------------------------------------------------------------
(* AMF3 (amf/amf3.rs): the U29 integer, seven bits per byte and eight in   *)
(* the fourth, and inline strings.                                         *)

read_u29(b, p) ==
    LET more(i) == Cell(b, p + i) >= 128
        seven(i) == Cell(b, p + i) % 128
        n == CASE ~more(0) -> 1 [] more(0) /\ ~more(1) -> 2 [] more(0) /\ more(1) /\ ~more(2) -> 3 [] OTHER -> 4
    IN  [pos |-> Take(b, p, n),
         v |-> CASE n = 1 -> seven(0)
                 [] n = 2 -> seven(0) * 2^7 + seven(1)
                 [] n = 3 -> seven(0) * 2^14 + seven(1) * 2^7 + seven(2)
                 [] n = 4 -> seven(0) * 2^22 + seven(1) * 2^15 + seven(2) * 2^8 + Cell(b, p + 3)]

write_u29(val) ==
    LET v == val % 2^29
    IN  CASE v < 2^7 -> <<v>>
          [] v >= 2^7 /\ v < 2^14 -> <<128 + v \div 2^7, v % 2^7>>
          [] v >= 2^14 /\ v < 2^21 -> <<128 + v \div 2^14, 128 + ((v \div 2^7) % 2^7), v % 2^7>>
          [] OTHER -> <<128 + v \div 2^22, 128 + ((v \div 2^15) % 2^7), 128 + ((v \div 2^8) % 2^7), v % 2^8>>

AMF3_STRING == 6
amf3_write_string(s) == <<AMF3_STRING>> \o write_u29(2 * Len(s) + 1) \o s
amf3_read_string(b, size) ==
    LET u == read_u29(b, 2)
        end == Take(b, u.pos, u.v \div 2)
    IN  IF Cell(b, 1) # AMF3_STRING \/ u.pos = 0 \/ u.v % 2 = 0 \/ u.v \div 2 >= size \/ end = 0
        THEN [ok |-> FALSE, s |-> <<>>] ELSE [ok |-> TRUE, s |-> SubSeq(b, u.pos, end - 1)]

-----------------------------------------------------------------------------
(* Bodies of fixed layout, byte by byte: reconnect and HDR blobs, and      *)
(* capsEx in its binary form; and multitrack descriptors.                  *)

BigEndian(x, n) == [i \in 1 .. n |-> (x \div 256^(n - i)) % 256]
FromBytes(d, p, n) == FoldLeft(LAMBDA v, c : v * 256 + c, 0, SubSeq(d, p, p + n - 1))

reconnect_write(rc) == BigEndian(rc[1], 4) \o BigEndian(rc[2], 4)
reconnect_parse(d) == IF Len(d) # 8 THEN <<>> ELSE <<FromBytes(d, 1, 4), FromBytes(d, 5, 4)>>

hdr_write(h) == BigEndian(h[1], 2) \o BigEndian(h[2], 2) \o BigEndian(h[3], 2)
hdr_parse(d) == IF Len(d) < 6 THEN <<>> ELSE <<FromBytes(d, 1, 2), FromBytes(d, 3, 2), FromBytes(d, 5, 2)>>

caps_exit_write(c) == BigEndian(c[1], 4) \o BigEndian(c[2], 4)
caps_exit_parse(d) == IF Len(d) < 8 THEN <<>> ELSE <<FromBytes(d, 1, 4), FromBytes(d, 5, 4)>>

MetadataTrack == 2
MAX_TRACK_NAME == 63
multitrack_write(mt) == write_number(mt.type) \o write_string(mt.name)
multitrack_parse(d) ==
    LET p == ReadNumber(d, 1)
        end == IF p > 0 /\ Cell(d, p) = String THEN SkipCounted(d, p + 1) ELSE 0
    IN  IF end = 0 THEN [ok |-> FALSE]
        ELSE [ok |-> TRUE, type |-> IF d[2] \in {0, 1} THEN d[2] ELSE MetadataTrack,
              name |-> SubSeq(d, p + 2, IF d[p + 1] > MAX_TRACK_NAME THEN p + 1 + MAX_TRACK_NAME ELSE end - 1)]

(* message/control.rs: words of four bytes, most significant first.        *)
MIN_WINDOW_ACK_SIZE == 1024
write_word(x) == BigEndian(x, 4)
read_word(d) == IF Len(d) < 4 THEN [ok |-> FALSE] ELSE [ok |-> TRUE, v |-> FromBytes(d, 1, 4)]
read_window_ack_size(d) ==
    IF read_word(d).ok /\ read_word(d).v \in 1 .. MIN_WINDOW_ACK_SIZE - 1 THEN [ok |-> FALSE] ELSE read_word(d)
write_set_peer_bandwidth(x, limit) == BigEndian(x, 4) \o <<limit>>
read_set_peer_bandwidth(d) ==
    IF Len(d) < 5 THEN [ok |-> FALSE] ELSE [ok |-> TRUE, v |-> FromBytes(d, 1, 4), limit |-> d[5]]

SET_BUFFER_LENGTH == 3
write_user_control(event, x) == BigEndian(event, 2) \o BigEndian(x, 4)
write_user_control_set_buffer_length(id, ms) == write_user_control(SET_BUFFER_LENGTH, id) \o BigEndian(ms, 4)
read_user_control(d, param2) ==
    IF Len(d) < 6 THEN [ok |-> FALSE]
    ELSE [ok |-> TRUE, event |-> FromBytes(d, 1, 2), p1 |-> FromBytes(d, 3, 4),
          p2 |-> IF param2 /\ Len(d) >= 10 THEN <<FromBytes(d, 7, 4)>> ELSE <<>>]
=============================================================================
