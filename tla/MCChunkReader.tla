--------------------------- MODULE MCChunkReader ---------------------------
(* Four chunk streams, of which three may be registered and two mid-message *)
(* at a time; messages of three bytes in chunks of one byte or of three.     *)
EXTENDS ChunkReader, TLC

CONSTANTS c1, c2, c3, c4, b

MCCsid == {c1, c2, c3, c4}
MCByte == {b}
MCZero == {0}
MCMsgLength == {0, 3, 4}
MCAnnouncedChunkSize == {0, 1, 4, 5}

CsidSymmetry == Permutations(MCCsid)
=============================================================================
