----------------------------- MODULE MCMediaWire -----------------------------
(* Three messages: video frames of no or two bytes in chunks of one or     *)
(* two, with timestamps on both sides of the extended-timestamp marker,    *)
(* commands and chunk-size announcements between them.                     *)
EXTENDS MediaWire

MCCsid == {2, 3, 6}
MCMsgTypeId == {0, 1, 8, 9, 20}
MCMsgStreamId == {0, 1, 2}
MCMsgLength == 0 .. 2
MCByte == {"data", "size"} \X (1 .. 4) \X (1 .. 2)
MCFrameTypes == {"Video"}
MCFrameTimestamps == {2, 3, 5}
MCFrameLengths == {0, 2}
MCAnnouncedChunkSize == {1, 2}
=============================================================================
