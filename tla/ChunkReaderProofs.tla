------------------------- MODULE ChunkReaderProofs -------------------------
(***************************************************************************)
(* The reassembly accounting of ChunkReader, for every set of chunk        *)
(* streams, every limit and every peer.                                    *)
(***************************************************************************)
EXTENDS ChunkReader, FiniteSetTheorems, TLAPS

-----------------------------------------------------------------------------
(* Counting held bytes.  Cells(f) has one element per byte when stream c   *)
(* holds f[c] bytes.                                                       *)

Cells(f) == UNION {{c} \X (1 .. f[c]) : c \in Csid}

(* Streams that hold at most M bytes each hold finitely many.  *)
LEMMA CellsFinite ==
    ASSUME NEW M \in Nat, NEW f \in [Csid -> 0 .. M]
    PROVE  IsFiniteSet(Cells(f))
<1>1. IsFiniteSet(1 .. M)
  BY FS_Interval
<1>2. IsFiniteSet(Csid \X (1 .. M))
  BY <1>1, FS_Product, ChunkReaderAssumption
<1>3. Cells(f) \subseteq Csid \X (1 .. M)
  <2>1. SUFFICES ASSUME NEW c \in Csid, NEW i \in 1 .. f[c]
                 PROVE  <<c, i>> \in Csid \X (1 .. M)
    BY DEF Cells
  <2>2. f[c] \in 0 .. M
    OBVIOUS
  <2>3. QED
    BY <2>2
<1>4. QED
  BY <1>2, <1>3, FS_Subset

(* The row of one stream has as many cells as the stream holds bytes.  *)
LEMMA RowCardinality ==
    ASSUME NEW c, NEW n \in Nat
    PROVE  /\ IsFiniteSet({c} \X (1 .. n))
           /\ Cardinality({c} \X (1 .. n)) = n
<1>1. IsFiniteSet(1 .. n) /\ Cardinality(1 .. n) = n
  BY FS_Interval
<1>2. IsFiniteSet({c}) /\ Cardinality({c}) = 1
  BY FS_Singleton
<1>3. Cardinality({c} \X (1 .. n)) = 1 * n
  BY <1>1, <1>2, FS_Product
<1>4. IsFiniteSet({c} \X (1 .. n))
  BY <1>1, <1>2, FS_Product
<1>5. 1 * n = n
  OBVIOUS
<1>6. QED
  BY <1>3, <1>4, <1>5

(* A change of one stream changes the count by that stream's difference.   *)
LEMMA CellsUpdate ==
    ASSUME NEW M \in Nat, NEW f \in [Csid -> 0 .. M], NEW g \in [Csid -> 0 .. M],
           NEW c \in Csid, \A d \in Csid \ {c} : g[d] = f[d]
    PROVE  /\ Cardinality(Cells(f)) \in Nat
           /\ f[c] <= Cardinality(Cells(f))
           /\ Cardinality(Cells(g)) = Cardinality(Cells(f)) - f[c] + g[c]
<1> DEFINE Row(h) == {c} \X (1 .. h[c])
           Rest(h) == UNION {{d} \X (1 .. h[d]) : d \in Csid \ {c}}
<1>1. ASSUME NEW h \in [Csid -> 0 .. M]
      PROVE  /\ IsFiniteSet(Rest(h))
             /\ Cardinality(Rest(h)) \in Nat
             /\ Cardinality(Cells(h)) = Cardinality(Rest(h)) + h[c]
  <2>1. Cells(h) = Rest(h) \cup Row(h)
    BY DEF Cells
  <2>2. Rest(h) \cap Row(h) = {}
    OBVIOUS
  <2>3. Rest(h) \subseteq Cells(h)
    BY <2>1
  <2>4. IsFiniteSet(Rest(h))
    BY <2>3, CellsFinite, FS_Subset
  <2>5. h[c] \in Nat
    OBVIOUS
  <2>6. IsFiniteSet(Row(h)) /\ Cardinality(Row(h)) = h[c]
    BY <2>5, RowCardinality
  <2>7. Cardinality(Rest(h)) \in Nat
    BY <2>4, FS_CardinalityType
  <2>8. Cardinality(Cells(h)) = Cardinality(Rest(h)) + Cardinality(Row(h)) - Cardinality({})
    BY <2>1, <2>2, <2>4, <2>6, FS_Union
  <2>9. QED
    BY <2>4, <2>5, <2>6, <2>7, <2>8, FS_EmptySet
<1>2. Rest(g) = Rest(f)
  OBVIOUS
<1>3. f[c] \in Nat /\ g[c] \in Nat
  OBVIOUS
<1>4. /\ Cardinality(Rest(f)) \in Nat
      /\ Cardinality(Cells(f)) = Cardinality(Rest(f)) + f[c]
  BY <1>1
<1>5. Cardinality(Cells(g)) = Cardinality(Rest(g)) + g[c]
  BY <1>1
<1>6. Cardinality(Cells(g)) = Cardinality(Rest(f)) + g[c]
  BY <1>2, <1>5
<1> HIDE DEF Rest
<1>7. QED
  BY <1>3, <1>4, <1>6

-----------------------------------------------------------------------------
(* Types of the operators chunk_read is made of.                           *)

(* saturating_sub yields a natural number.  *)
LEMMA SaturatingSubType ==
    ASSUME NEW a \in Nat, NEW b \in Nat
    PROVE  SaturatingSub(a, b) \in Nat
BY DEF SaturatingSub

(* ChunkStream::default() is a well-typed chunk stream.  *)
LEMMA DefaultStreamType == DefaultStream \in ChunkStream
<1>1. <<>> \in Seq(Byte)
  OBVIOUS
<1>2. DEFAULT_CHUNK_SIZE \in ChunkSize /\ 0 \in Timestamp
  BY ChunkReaderAssumption DEF ChunkSize, Timestamp
<1>3. QED
  BY <1>1, <1>2, ChunkReaderAssumption DEF DefaultStream, ChunkStream

(* What get_or_create_index hands back is a well-typed stream.  *)
LEMMA StreamForType ==
    ASSUME TypeOK, NEW c \in Csid
    PROVE  StreamFor(c) \in ChunkStream /\ StreamFor(c).in_use
<1>1. CASE streams[c].in_use
  BY <1>1 DEF StreamFor, TypeOK
<1>2. CASE ~streams[c].in_use
  BY <1>2, DefaultStreamType DEF StreamFor, TypeOK, ChunkStream
<1>3. QED
  BY <1>1, <1>2

(* The fields each header format carries.  *)
LEMMA HeaderFields ==
    ASSUME NEW h \in Header
    PROVE  /\ h.csid \in Csid
           /\ h.fmt \in 0 .. 3
           /\ h.fmt <= 2 => h.ts.ext \in BOOLEAN /\ h.ts.value \in Timestamp
           /\ h.fmt <= 1 => h.msg_length \in MsgLength /\ h.msg_type_id \in MsgTypeId
           /\ h.fmt = 0 => h.msg_stream_id \in MsgStreamId
<1>1. \A t \in TimestampField : t.ext \in BOOLEAN /\ t.value \in Timestamp
  BY DEF TimestampField
<1>2. CASE h \in [fmt : {0}, csid : Csid, ts : TimestampField, msg_length : MsgLength,
                  msg_type_id : MsgTypeId, msg_stream_id : MsgStreamId]
  BY <1>1, <1>2
<1>3. CASE h \in [fmt : {1}, csid : Csid, ts : TimestampField, msg_length : MsgLength,
                  msg_type_id : MsgTypeId]
  BY <1>1, <1>3
<1>4. CASE h \in [fmt : {2}, csid : Csid, ts : TimestampField]
  BY <1>1, <1>4
<1>5. CASE h \in [fmt : {3}, csid : Csid]
  BY <1>5
<1>6. QED
  BY <1>2, <1>3, <1>4, <1>5 DEF Header

(* The restart of a format 0 or 1 chunk keeps the stream well typed.  *)
LEMMA RestartedType ==
    ASSUME TypeOK, NEW h \in Header
    PROVE  Restarted(h) \in ChunkStream /\ Restarted(h).in_use
<1>1. StreamFor(h.csid) \in ChunkStream /\ StreamFor(h.csid).in_use
  BY StreamForType, HeaderFields
<1>2. <<>> \in Seq(Byte)
  OBVIOUS
<1>3. QED
  BY <1>1, <1>2 DEF Restarted, ChunkStream

(* Timestamps wrap: adding a delta yields a timestamp.  *)
LEMMA TimestampSum ==
    ASSUME NEW a \in Timestamp, NEW b \in Timestamp
    PROVE  (a + b) % TsLimit \in Timestamp
BY ChunkReaderAssumption DEF Timestamp

(* The header update keeps the stream well typed.  *)
LEMMA ApplyHeaderType ==
    ASSUME NEW h \in Header, NEW s \in ChunkStream
    PROVE  /\ ApplyHeader(s, h) \in ChunkStream
           /\ ApplyHeader(s, h).in_use = s.in_use
           /\ ApplyHeader(s, h).chunk_size = s.chunk_size
           /\ ApplyHeader(s, h).reassembly_bytes_read = s.reassembly_bytes_read
           /\ ApplyHeader(s, h).reassembly_buf = s.reassembly_buf
           /\ (h.fmt <= 1 \/ s.has_message_header) => ApplyHeader(s, h).has_message_header
           /\ ApplyHeader(s, h).type0_msg_length =
                IF StartsAnew(h) THEN h.msg_length ELSE s.type0_msg_length
<1>1. s.type0_timestamp \in Timestamp /\ s.last_delta \in Timestamp
  BY DEF ChunkStream
<1>2. (s.type0_timestamp + s.last_delta) % TsLimit \in Timestamp
  BY <1>1, TimestampSum
<1>3. CASE h.fmt = 0
  <2>1. /\ h.ts.value \in Timestamp /\ h.ts.ext \in BOOLEAN
        /\ h.msg_length \in MsgLength /\ h.msg_type_id \in MsgTypeId
        /\ h.msg_stream_id \in MsgStreamId
    BY <1>3, HeaderFields
  <2>2. ApplyHeader(s, h) = [s EXCEPT !.has_message_header = TRUE,
                                      !.type0_timestamp = h.ts.value,
                                      !.type0_msg_length = h.msg_length,
                                      !.type0_msg_type_id = h.msg_type_id,
                                      !.type0_msg_stream_id = h.msg_stream_id,
                                      !.type0_ext_ts = h.ts.ext,
                                      !.last_delta = h.ts.value]
    BY <1>3 DEF ApplyHeader
  <2>3. QED
    BY <1>3, <2>1, <2>2 DEF ChunkStream, StartsAnew
<1>4. CASE h.fmt = 1
  <2>1. /\ h.ts.value \in Timestamp /\ h.ts.ext \in BOOLEAN
        /\ h.msg_length \in MsgLength /\ h.msg_type_id \in MsgTypeId
    BY <1>4, HeaderFields
  <2>2. (s.type0_timestamp + h.ts.value) % TsLimit \in Timestamp
    BY <1>1, <2>1, TimestampSum
  <2>3. ApplyHeader(s, h) = [s EXCEPT !.has_message_header = TRUE,
                                      !.type0_timestamp = (@ + h.ts.value) % TsLimit,
                                      !.type0_msg_length = h.msg_length,
                                      !.type0_msg_type_id = h.msg_type_id,
                                      !.type0_ext_ts = h.ts.ext,
                                      !.last_delta = h.ts.value]
    BY <1>4 DEF ApplyHeader
  <2>4. QED
    BY <1>4, <2>1, <2>2, <2>3 DEF ChunkStream, StartsAnew
<1>5. CASE h.fmt = 2
  <2>1. h.ts.value \in Timestamp /\ h.ts.ext \in BOOLEAN
    BY <1>5, HeaderFields
  <2>2. (s.type0_timestamp + h.ts.value) % TsLimit \in Timestamp
    BY <1>1, <2>1, TimestampSum
  <2>3. ApplyHeader(s, h) = [s EXCEPT !.type0_timestamp = (@ + h.ts.value) % TsLimit,
                                      !.type0_ext_ts = h.ts.ext,
                                      !.last_delta = h.ts.value]
    BY <1>5 DEF ApplyHeader
  <2>4. ApplyHeader(s, h) \in ChunkStream
    BY <2>1, <2>2, <2>3 DEF ChunkStream
  <2>5. ~StartsAnew(h) /\ ~(h.fmt <= 1)
    BY <1>5 DEF StartsAnew
  <2>6. QED
    BY <2>3, <2>4, <2>5 DEF ChunkStream
<1>6. CASE h.fmt = 3
  BY <1>2, <1>6 DEF ApplyHeader, ChunkStream, StartsAnew
<1>7. QED
  BY <1>3, <1>4, <1>5, <1>6, HeaderFields

-----------------------------------------------------------------------------
(* What chunk_read may rely on.                                            *)

(* Each stream holds at most max_msg_length bytes.  *)
Held == [c \in Csid |-> Len(streams[c].reassembly_buf)]

(* No reassembly buffer holds more than the largest accepted message.  *)
LEMMA HeldType ==
    ASSUME TypeOK, MidMessage
    PROVE  Held \in [Csid -> 0 .. max_msg_length]
<1>1. SUFFICES ASSUME NEW c \in Csid
               PROVE  Len(streams[c].reassembly_buf) \in 0 .. max_msg_length
  BY DEF Held
<1>2. streams[c] \in ChunkStream
  BY DEF TypeOK
<1>3. streams[c].reassembly_buf \in Seq(Byte) /\ streams[c].type0_msg_length \in Nat
  BY <1>2, ChunkReaderAssumption DEF ChunkStream
<1>4. Len(streams[c].reassembly_buf) \in Nat
  BY <1>3
<1>5. streams[c].reassembly_bytes_read = Len(streams[c].reassembly_buf)
  BY DEF MidMessage
<1>6. CASE streams[c].reassembling
  BY <1>3, <1>4, <1>5, <1>6, ChunkReaderAssumption DEF MidMessage
<1>7. CASE ~streams[c].reassembling
  BY <1>4, <1>5, <1>7, ChunkReaderAssumption DEF MidMessage
<1>8. QED
  BY <1>6, <1>7

(* The bytes held are the cells of the per-stream buffers.  *)
LEMMA HeldBytesCells == HeldBytes = Cells(Held)
BY DEF HeldBytes, Cells, Held

(* The stream as its header updates it is consistent: it holds what it     *)
(* counted, no more than the message, and an acceptable message.           *)
LEMMA WithHeaderFacts ==
    ASSUME TypeOK, MidMessage, NEW h \in Header, ~PeekRejects(h)
    PROVE  /\ WithHeader(h) \in ChunkStream
           /\ WithHeader(h).in_use
           /\ WithHeader(h).has_message_header
           /\ WithHeader(h).reassembly_bytes_read = Len(WithHeader(h).reassembly_buf)
           /\ WithHeader(h).reassembly_bytes_read <= WithHeader(h).type0_msg_length
           /\ WithHeader(h).type0_msg_length <= max_msg_length
           /\ WithHeader(h).type0_msg_length = EffectiveLength(h)
           /\ WithHeader(h).chunk_size = StreamFor(h.csid).chunk_size
           /\ WithHeader(h).reassembly_bytes_read =
                 IF StartsAnew(h) THEN 0 ELSE StreamFor(h.csid).reassembly_bytes_read
           /\ Len(WithHeader(h).reassembly_buf) =
                 IF StartsAnew(h) THEN 0 ELSE Len(StreamFor(h.csid).reassembly_buf)
           /\ Len(StreamFor(h.csid).reassembly_buf) = Held[h.csid]
<1> DEFINE c == h.csid
           s == StreamFor(c)
           r == Restarted(h)
           w == WithHeader(h)
<1>1. c \in Csid /\ h.fmt \in 0 .. 3
  BY HeaderFields
<1>2. s \in ChunkStream /\ s.in_use /\ streams[c] \in ChunkStream
  BY <1>1, StreamForType DEF TypeOK
<1>3. r \in ChunkStream /\ r.in_use
  BY RestartedType
<1>4. /\ w \in ChunkStream
      /\ w.in_use
      /\ w.chunk_size = r.chunk_size
      /\ w.reassembly_bytes_read = r.reassembly_bytes_read
      /\ w.reassembly_buf = r.reassembly_buf
      /\ (h.fmt <= 1 \/ r.has_message_header) => w.has_message_header
      /\ w.type0_msg_length = IF StartsAnew(h) THEN h.msg_length ELSE r.type0_msg_length
  BY <1>3, ApplyHeaderType DEF WithHeader
<1>5. Len(s.reassembly_buf) = Len(streams[c].reassembly_buf)
  <2>1. CASE streams[c].in_use
    BY <2>1 DEF StreamFor
  <2>2. CASE ~streams[c].in_use
    <3>1. Len(streams[c].reassembly_buf) = 0
      BY <1>1, <1>2, <2>2 DEF MidMessage, ChunkStream
    <3>2. s.reassembly_buf = <<>>
      BY <2>2 DEF StreamFor, DefaultStream
    <3>3. QED
      BY <3>1, <3>2
  <2>3. QED
    BY <2>1, <2>2
<1>6. Held[c] = Len(s.reassembly_buf)
  BY <1>1, <1>5 DEF Held
<1>7. /\ EffectiveLength(h) \in Nat
      /\ EffectiveLength(h) <= max_msg_length
  <2>1. EffectiveLength(h) \in Nat
    <3>1. s.type0_msg_length \in MsgLength
      BY <1>2 DEF ChunkStream
    <3>2. StartsAnew(h) => h.msg_length \in MsgLength
      BY HeaderFields DEF StartsAnew
    <3>3. QED
      BY <3>1, <3>2, ChunkReaderAssumption DEF EffectiveLength
  <2>2. QED
    BY <2>1, ChunkReaderAssumption DEF PeekRejects
<1>8. CASE StartsAnew(h)
  <2>1. r = [s EXCEPT !.reassembly_bytes_read = 0, !.reassembly_buf = <<>>]
    BY <1>8 DEF Restarted
  <2>2. r.reassembly_bytes_read = 0 /\ r.reassembly_buf = <<>> /\ r.chunk_size = s.chunk_size
    BY <1>2, <2>1 DEF ChunkStream
  <2>3. EffectiveLength(h) = h.msg_length /\ h.fmt <= 1
    BY <1>8 DEF EffectiveLength, StartsAnew
  <2>4. Len(w.reassembly_buf) = 0
    BY <1>4, <2>2
  <2>5. QED
    BY <1>4, <1>6, <1>7, <1>8, <2>2, <2>3, <2>4
<1>9. CASE ~StartsAnew(h)
  <2>1. h.fmt >= 2 /\ streams[c].in_use /\ streams[c].has_message_header
    BY <1>1, <1>9 DEF StartsAnew, PeekRejects
  <2>2. s = streams[c] /\ r = s
    BY <1>9, <2>1 DEF StreamFor, Restarted
  <2>3. EffectiveLength(h) = s.type0_msg_length
    BY <1>9 DEF EffectiveLength
  <2>4. s.reassembly_bytes_read = Len(s.reassembly_buf)
    BY <1>1, <2>2 DEF MidMessage
  <2>5. s.reassembly_bytes_read <= s.type0_msg_length
    <3>1. s.reassembly_bytes_read \in Nat /\ s.type0_msg_length \in Nat
      BY <1>2, ChunkReaderAssumption DEF ChunkStream
    <3>2. s.reassembling \/ s.reassembly_bytes_read = 0
      BY <1>1, <2>2, <3>1 DEF MidMessage
    <3>3. s.reassembling => s.reassembly_bytes_read < s.type0_msg_length
      BY <1>1, <2>2 DEF MidMessage
    <3>4. QED
      BY <3>1, <3>2, <3>3
  <2>6. QED
    BY <1>4, <1>6, <1>7, <1>9, <2>1, <2>2, <2>3, <2>4, <2>5
<1>10. QED
  BY <1>8, <1>9

(* The payload phase 3 reads is the payload phase 1 planned for, it never  *)
(* overruns the message, and it makes progress unless the message is whole.*)
LEMMA PayloadFacts ==
    ASSUME TypeOK, MidMessage, NEW h \in Header, ~PeekRejects(h)
    PROVE  /\ PayloadRead(h) \in Nat
           /\ PayloadRead(h) = ToRead(h)
           /\ WithHeader(h).reassembly_bytes_read + PayloadRead(h)
                 <= WithHeader(h).type0_msg_length
           /\ Completes(h) <=> WithHeader(h).reassembly_bytes_read + PayloadRead(h)
                                 = WithHeader(h).type0_msg_length
           /\ ~Completes(h) => PayloadRead(h) > 0
<1> DEFINE w == WithHeader(h)
           got == w.reassembly_bytes_read
           len == w.type0_msg_length
           size == w.chunk_size
<1>1. got \in Nat /\ len \in Nat /\ got <= len
  BY WithHeaderFacts, ChunkReaderAssumption DEF ChunkStream
<1>2. size \in Nat /\ size > 0
  BY WithHeaderFacts, ChunkReaderAssumption DEF ChunkStream, ChunkSize
<1>3. PayloadRead(h) = NextBytes(len, got, size)
  BY DEF PayloadRead
<1>4. Completes(h) <=> got + PayloadRead(h) >= len
  BY DEF Completes
<1>5. PayloadRead(h) = ToRead(h)
  BY <1>3, WithHeaderFacts DEF ToRead
<1> HIDE DEF w, got, len, size
<1>6. NextBytes(len, got, size) = IF len - got <= size THEN len - got ELSE size
  BY <1>1, <1>2 DEF NextBytes, SaturatingSub
<1>7. /\ PayloadRead(h) \in Nat
      /\ got + PayloadRead(h) <= len
      /\ Completes(h) <=> got + PayloadRead(h) = len
      /\ ~Completes(h) => PayloadRead(h) > 0
  BY <1>1, <1>2, <1>3, <1>4, <1>6
<1>8. QED
  BY <1>5, <1>7 DEF got, len, w

(* The running total after a chunk: the stream's old bytes are replaced by *)
(* what it keeps and what it reads.                                        *)
LEMMA GrownFacts ==
    ASSUME TypeOK, MidMessage, ByteAccounting, NEW h \in Header, ~PeekRejects(h)
    PROVE  /\ Grown(h) \in Nat
           /\ Held[h.csid] \in Nat
           /\ Held[h.csid] <= reassembly_bytes_in_use
           /\ Grown(h) = reassembly_bytes_in_use - Held[h.csid]
                           + Len(WithHeader(h).reassembly_buf) + PayloadRead(h)
           /\ PayloadRead(h) > 0 => Grown(h) <= max_reassembly_bytes
<1> DEFINE n == PayloadRead(h)
           held == Held[h.csid]
           used == reassembly_bytes_in_use
<1>1. h.csid \in Csid
  BY HeaderFields
<1>2. held \in Nat /\ used \in Nat /\ held <= used
  <2>1. Held \in [Csid -> 0 .. max_msg_length]
    BY HeldType
  <2>2. held <= Cardinality(Cells(Held))
    BY <1>1, <2>1, CellsUpdate, ChunkReaderAssumption
  <2>3. QED
    BY <1>1, <2>1, <2>2, HeldBytesCells DEF ByteAccounting, TypeOK
<1>3. n \in Nat /\ n = ToRead(h)
  BY PayloadFacts
<1>4. Len(StreamFor(h.csid).reassembly_buf) = held
  BY WithHeaderFacts
<1>5. Len(WithHeader(h).reassembly_buf) = IF StartsAnew(h) THEN 0 ELSE held
  BY <1>4, WithHeaderFacts
<1>6. Grown(h) = SaturatingSub(used, IF StartsAnew(h) THEN held ELSE 0) + n
  BY <1>4 DEF Grown
<1>7. n > 0 => SaturatingSub(used, IF StartsAnew(h) THEN held ELSE 0) + n
                 <= max_reassembly_bytes
  <2>1. ~OverBudget(h)
    BY DEF PeekRejects
  <2>2. ~(/\ n > 0
          /\ SaturatingSub(used, IF StartsAnew(h) THEN held ELSE 0) + n > max_reassembly_bytes)
    BY <1>3, <1>4, <2>1 DEF OverBudget
  <2>3. SaturatingSub(used, IF StartsAnew(h) THEN held ELSE 0) \in Nat
    BY <1>2 DEF SaturatingSub
  <2>4. QED
    BY <1>3, <2>2, <2>3, ChunkReaderAssumption
<1> HIDE DEF n, held, used
<1>8. QED
  <2>1. /\ Grown(h) \in Nat
        /\ Grown(h) = used - held + (IF StartsAnew(h) THEN 0 ELSE held) + n
        /\ n > 0 => Grown(h) <= max_reassembly_bytes
    BY <1>2, <1>3, <1>6, <1>7 DEF SaturatingSub
  <2>2. QED
    BY <1>2, <1>5, <2>1 DEF n, held, used

(* The two running counters after a change of one stream.  *)
LEMMA BytesUpdate ==
    ASSUME TypeOK, MidMessage, ByteAccounting, TypeOK', MidMessage', NEW c \in Csid,
           \A d \in Csid \ {c} : streams'[d].reassembly_buf = streams[d].reassembly_buf,
           reassembly_bytes_in_use' = reassembly_bytes_in_use - Held[c] + Held'[c]
    PROVE  ByteAccounting'
<1>1. Held \in [Csid -> 0 .. max_msg_length] /\ Held' \in [Csid -> 0 .. max_msg_length]
  <2>1. (TypeOK /\ MidMessage => Held \in [Csid -> 0 .. max_msg_length])'
    BY HeldType, PTL
  <2>2. QED
    BY <2>1, HeldType
<1>2. \A d \in Csid \ {c} : Held'[d] = Held[d]
  BY DEF Held
<1>3. Cardinality(Cells(Held')) = Cardinality(Cells(Held)) - Held[c] + Held'[c]
  BY <1>1, <1>2, CellsUpdate, ChunkReaderAssumption
<1>4. HeldBytes' = Cells(Held')
  BY DEF HeldBytes, Cells, Held
<1>5. QED
  BY <1>3, <1>4, HeldBytesCells DEF ByteAccounting

(* The active count follows a change of one stream's flag.  *)
LEMMA CountUpdate ==
    ASSUME TypeOK, ActiveAccounting, NEW c \in Csid, NEW flag \in BOOLEAN,
           \A d \in Csid \ {c} : streams'[d].reassembling = streams[d].reassembling,
           streams'[c].reassembling = flag,
           reassembling_count' = CountAfter(c, flag)
    PROVE  /\ ActiveAccounting'
           /\ reassembling_count' =
                CASE streams[c].reassembling = flag -> reassembling_count
                  [] flag /\ ~streams[c].reassembling -> reassembling_count + 1
                  [] ~flag /\ streams[c].reassembling -> reassembling_count - 1
<1>1. IsFiniteSet(Reassembling) /\ streams[c].reassembling \in BOOLEAN
  <2>1. Reassembling \subseteq Csid
    BY DEF Reassembling
  <2>2. QED
    BY <2>1, FS_Subset, ChunkReaderAssumption DEF TypeOK, ChunkStream
<1>2. Cardinality(Reassembling) \in Nat
  BY <1>1, FS_CardinalityType
<1>3. CASE streams[c].reassembling = flag
  <2>1. Reassembling' = Reassembling
    BY <1>3 DEF Reassembling
  <2>2. QED
    BY <1>3, <2>1 DEF ActiveAccounting, CountAfter
<1>4. CASE flag /\ ~streams[c].reassembling
  <2>1. Reassembling' = Reassembling \cup {c} /\ c \notin Reassembling
    BY <1>4 DEF Reassembling
  <2>2. Cardinality(Reassembling') = Cardinality(Reassembling) + 1
    BY <1>1, <2>1, FS_AddElement
  <2>3. reassembling_count' = reassembling_count + 1
    BY <1>4 DEF CountAfter
  <2>4. QED
    BY <1>4, <2>2, <2>3 DEF ActiveAccounting
<1>5. CASE ~flag /\ streams[c].reassembling
  <2>1. Reassembling' = Reassembling \ {c} /\ c \in Reassembling
    BY <1>5 DEF Reassembling
  <2>2. Cardinality(Reassembling') = Cardinality(Reassembling) - 1
    BY <1>1, <2>1, FS_RemoveElement
  <2>3. Cardinality(Reassembling) > 0
    BY <1>1, <1>2, <2>1, FS_EmptySet
  <2>4. reassembling_count' = reassembling_count - 1
    <3>1. reassembling_count' = SaturatingSub(reassembling_count, 1)
      BY <1>5 DEF CountAfter
    <3>2. QED
      BY <1>2, <2>3, <3>1 DEF ActiveAccounting, SaturatingSub
  <2>5. QED
    BY <1>5, <2>2, <2>4 DEF ActiveAccounting
<1>6. QED
  BY <1>1, <1>3, <1>4, <1>5

-----------------------------------------------------------------------------
(* A new registry satisfies the invariant.  *)
LEMMA InitIInv == Init => IInv
<1> SUFFICES ASSUME Init PROVE IInv
  OBVIOUS
<1>1. TypeOK
  BY DefaultStreamType, ChunkReaderAssumption DEF Init, TypeOK, DefaultStream, ChunkSize
<1>2. MidMessage
  BY DEF Init, MidMessage, DefaultStream
<1>3. HeldBytes = {}
  BY DEF Init, HeldBytes, DefaultStream
<1>4. Reassembling = {}
  BY DEF Init, Reassembling, DefaultStream
<1>5. QED
  BY <1>1, <1>2, <1>3, <1>4, FS_EmptySet, ChunkReaderAssumption
     DEF IInv, Init, ByteAccounting, ActiveAccounting, WithinLimits

(* A call that returns without consuming a chunk.  *)
LEMMA UnchangedRegistryIInv ==
    ASSUME IInv, UNCHANGED <<registry, msg>>, rc' \in {"Ok0", "Ok1", "Err"},
           consumed' \in {"nothing", "header", "chunk"}
    PROVE  IInv'
<1>1. TypeOK'
  BY DEF IInv, registry, TypeOK
<1>2. /\ MidMessage'
      /\ HeldBytes' = HeldBytes
      /\ Reassembling' = Reassembling
  BY DEF IInv, registry, MidMessage, HeldBytes, Reassembling
<1>3. QED
  BY <1>1, <1>2 DEF IInv, registry, ByteAccounting, ActiveAccounting, WithinLimits

(* A chunk that leaves its message incomplete preserves the invariant.  *)
LEMMA PartialIInv ==
    ASSUME IInv, NEW h \in Header, NEW data \in [1 .. PayloadRead(h) -> Byte],
           ChunkReadPartial(h, data)
    PROVE  IInv'
<1> DEFINE c == h.csid
           w == WithHeader(h)
           n == PayloadRead(h)
           new == [w EXCEPT !.reassembly_buf = @ \o data,
                            !.reassembly_bytes_read = @ + n, !.reassembling = TRUE]
<1>1. c \in Csid /\ TypeOK /\ MidMessage /\ ByteAccounting /\ ActiveAccounting /\ WithinLimits
  BY HeaderFields DEF IInv
<1>2. ~PeekRejects(h) /\ ~Completes(h)
  BY DEF ChunkReadPartial
<1>3. /\ n \in Nat /\ n > 0
      /\ w.reassembly_bytes_read + n < w.type0_msg_length
  <2>1. w.reassembly_bytes_read \in Nat /\ w.type0_msg_length \in Nat
    BY <1>1, <1>2, WithHeaderFacts, ChunkReaderAssumption DEF ChunkStream
  <2>2. QED
    BY <1>1, <1>2, <2>1, PayloadFacts
<1>4. data \in Seq(Byte) /\ Len(data) = n
  BY <1>3
<1>5. w \in ChunkStream /\ w.in_use /\ w.has_message_header
  BY <1>1, <1>2, WithHeaderFacts
<1>6. w.reassembly_buf \in Seq(Byte) /\ w.reassembly_bytes_read \in Nat
  BY <1>5 DEF ChunkStream
<1>7. /\ w.reassembly_buf \o data \in Seq(Byte)
      /\ Len(w.reassembly_buf \o data) = Len(w.reassembly_buf) + n
  BY <1>4, <1>6
<1>8. /\ new \in ChunkStream
      /\ new.in_use /\ new.has_message_header /\ new.reassembling
      /\ new.reassembly_buf = w.reassembly_buf \o data
      /\ new.reassembly_bytes_read = w.reassembly_bytes_read + n
      /\ new.type0_msg_length = w.type0_msg_length
  <2>1. w.reassembly_bytes_read + n \in Nat
    BY <1>3, <1>6
  <2>2. QED
    BY <1>5, <1>7, <2>1 DEF ChunkStream
<1>9. streams' = [streams EXCEPT ![c] = new]
  BY DEF ChunkReadPartial
<1> HIDE DEF new
<1>10. streams'[c] = new /\ \A d \in Csid \ {c} : streams'[d] = streams[d]
  BY <1>1, <1>9 DEF TypeOK
<1>11. /\ Grown(h) \in Nat
       /\ Grown(h) = reassembly_bytes_in_use - Held[c] + Len(w.reassembly_buf) + n
       /\ Grown(h) <= max_reassembly_bytes
  BY <1>1, <1>2, <1>3, GrownFacts
<1>12. ActiveAccounting' /\ reassembling_count' =
          IF streams[c].reassembling THEN reassembling_count ELSE reassembling_count + 1
  <2>1. streams'[c].reassembling = TRUE
    BY <1>8, <1>10 DEF ChunkStream
  <2>2. \A d \in Csid \ {c} : streams'[d].reassembling = streams[d].reassembling
    BY <1>10
  <2>3. reassembling_count' = CountAfter(c, TRUE)
    BY DEF ChunkReadPartial
  <2>4. ActiveAccounting'
    BY <1>1, <2>1, <2>2, <2>3, CountUpdate
  <2>5. streams[c].reassembling \in BOOLEAN
    BY <1>1 DEF TypeOK, ChunkStream
  <2>6. QED
    BY <2>3, <2>4, <2>5 DEF CountAfter
<1>13. TypeOK'
  <2>1. streams' \in [Csid -> ChunkStream]
    BY <1>1, <1>8, <1>9 DEF TypeOK
  <2>2. reassembling_count' \in Nat
    BY <1>1, <1>12 DEF TypeOK
  <2>3. QED
    BY <1>1, <1>11, <2>1, <2>2 DEF ChunkReadPartial, TypeOK
<1>14. MidMessage'
  <2>1. SUFFICES ASSUME NEW d \in Csid
                 PROVE  LET t == streams'[d]
                        IN  /\ t.reassembling <=> t.reassembly_bytes_read > 0
                            /\ t.reassembly_bytes_read = Len(t.reassembly_buf)
                            /\ t.reassembling =>
                                 /\ t.in_use
                                 /\ t.has_message_header
                                 /\ t.reassembly_bytes_read < t.type0_msg_length
                                 /\ t.type0_msg_length <= max_msg_length
    BY DEF MidMessage
  <2>2. CASE d = c
    <3>1. new.reassembly_bytes_read > 0
      BY <1>3, <1>6, <1>8
    <3>2. new.reassembly_bytes_read = Len(new.reassembly_buf)
      BY <1>1, <1>2, <1>7, <1>8, WithHeaderFacts
    <3>3. new.reassembly_bytes_read < new.type0_msg_length
      BY <1>3, <1>8
    <3>4. new.type0_msg_length <= max_msg_length
      BY <1>1, <1>2, <1>8, WithHeaderFacts
    <3>5. QED
      BY <1>8, <1>10, <2>2, <3>1, <3>2, <3>3, <3>4
  <2>3. CASE d # c
    BY <1>1, <1>10, <2>3 DEF MidMessage
  <2>4. QED
    BY <2>2, <2>3
<1>15. ByteAccounting'
  <2>1. Held'[c] = Len(w.reassembly_buf) + n
    BY <1>1, <1>7, <1>8, <1>10 DEF Held
  <2>2. reassembly_bytes_in_use' = Grown(h)
    BY DEF ChunkReadPartial
  <2>3. Held[c] \in Nat /\ Len(w.reassembly_buf) \in Nat /\ reassembly_bytes_in_use \in Nat
    BY <1>1, <1>2, <1>6, GrownFacts DEF TypeOK
  <2>4. reassembly_bytes_in_use' = reassembly_bytes_in_use - Held[c] + Held'[c]
    BY <1>3, <1>11, <2>1, <2>2, <2>3
  <2>5. QED
    BY <1>1, <1>10, <1>13, <1>14, <2>4, BytesUpdate
<1>16. WithinLimits'
  <2>1. reassembly_bytes_in_use' <= max_reassembly_bytes
    BY <1>11 DEF ChunkReadPartial
  <2>2. reassembling_count' <= max_active_csids
    <3>1. CanGetOrCreate(c)
      BY <1>2 DEF PeekRejects
    <3>2. ~streams[c].reassembling => reassembling_count < max_active_csids
      BY <3>1 DEF CanGetOrCreate
    <3>3. reassembling_count <= max_active_csids
      BY <1>1 DEF WithinLimits, ActiveAccounting
    <3>4. QED
      BY <1>1, <1>12, <3>2, <3>3, ChunkReaderAssumption DEF TypeOK
  <2>3. QED
    BY <1>12, <1>15, <2>1, <2>2 DEF WithinLimits, ByteAccounting, ActiveAccounting
<1>17. QED
  BY <1>12, <1>13, <1>14, <1>15, <1>16 DEF IInv

(* A stream that holds nothing any more: a completed message, an abort or  *)
(* a reset.                                                                *)
LEMMA DormantIInv ==
    ASSUME IInv, NEW c \in Csid, NEW new \in ChunkStream,
           new.reassembly_buf = <<>>, new.reassembly_bytes_read = 0, new.reassembling = FALSE,
           streams' = [streams EXCEPT ![c] = new],
           reassembly_bytes_in_use' = reassembly_bytes_in_use - Held[c],
           reassembling_count' = IF streams[c].reassembling
                                   THEN SaturatingSub(reassembling_count, 1)
                                   ELSE reassembling_count,
           default_chunk_size' = default_chunk_size,
           msg' \in Message \cup {NoMessage}, rc' \in {"Ok0", "Ok1", "Err"},
           consumed' \in {"nothing", "header", "chunk"}
    PROVE  IInv'
<1>1. TypeOK /\ MidMessage /\ ByteAccounting /\ ActiveAccounting /\ WithinLimits
  BY DEF IInv
<1>2. streams'[c] = new /\ \A d \in Csid \ {c} : streams'[d] = streams[d]
  BY <1>1 DEF TypeOK
<1>3. Held[c] \in Nat /\ Held[c] <= reassembly_bytes_in_use /\ reassembly_bytes_in_use \in Nat
  <2>1. Held \in [Csid -> 0 .. max_msg_length]
    BY <1>1, HeldType
  <2>2. Held[c] <= Cardinality(Cells(Held))
    BY <2>1, CellsUpdate, ChunkReaderAssumption
  <2>3. QED
    BY <1>1, <2>1, <2>2, HeldBytesCells DEF ByteAccounting, TypeOK
<1>4. ActiveAccounting' /\ reassembling_count' \in Nat /\ reassembling_count' <= reassembling_count
  <2>1. streams'[c].reassembling = FALSE
        /\ \A d \in Csid \ {c} : streams'[d].reassembling = streams[d].reassembling
    BY <1>2
  <2>2. streams[c].reassembling \in BOOLEAN /\ reassembling_count \in Nat
    BY <1>1 DEF TypeOK, ChunkStream
  <2>3. reassembling_count' = CountAfter(c, FALSE)
    BY <2>2 DEF CountAfter
  <2>4. ActiveAccounting'
    BY <1>1, <2>1, <2>3, CountUpdate
  <2>5. reassembling_count' \in Nat /\ reassembling_count' <= reassembling_count
    BY <2>2 DEF SaturatingSub
  <2>6. QED
    BY <2>4, <2>5
<1>5. TypeOK'
  <2>1. streams' \in [Csid -> ChunkStream]
    BY <1>1 DEF TypeOK
  <2>2. QED
    BY <1>1, <1>3, <1>4, <2>1 DEF TypeOK
<1>6. MidMessage'
  <2>1. SUFFICES ASSUME NEW d \in Csid
                 PROVE  LET t == streams'[d]
                        IN  /\ t.reassembling <=> t.reassembly_bytes_read > 0
                            /\ t.reassembly_bytes_read = Len(t.reassembly_buf)
                            /\ t.reassembling =>
                                 /\ t.in_use
                                 /\ t.has_message_header
                                 /\ t.reassembly_bytes_read < t.type0_msg_length
                                 /\ t.type0_msg_length <= max_msg_length
    BY DEF MidMessage
  <2>2. CASE d = c
    BY <1>2, <2>2
  <2>3. CASE d # c
    BY <1>1, <1>2, <2>3 DEF MidMessage
  <2>4. QED
    BY <2>2, <2>3
<1>7. ByteAccounting'
  <2>1. Held'[c] = 0
    BY <1>2 DEF Held
  <2>2. reassembly_bytes_in_use' = reassembly_bytes_in_use - Held[c] + Held'[c]
    BY <1>3, <2>1
  <2>3. QED
    BY <1>1, <1>2, <1>5, <1>6, <2>2, BytesUpdate
<1>8. WithinLimits'
  <2>1. reassembly_bytes_in_use' <= max_reassembly_bytes
    BY <1>1, <1>3, ChunkReaderAssumption DEF WithinLimits, ByteAccounting
  <2>2. reassembling_count' <= max_active_csids
    BY <1>1, <1>4, ChunkReaderAssumption DEF WithinLimits, ActiveAccounting, TypeOK
  <2>3. QED
    BY <1>4, <1>7, <2>1, <2>2 DEF WithinLimits, ByteAccounting, ActiveAccounting
<1>9. QED
  BY <1>4, <1>5, <1>6, <1>7, <1>8 DEF IInv

(* A chunk that completes its message preserves the invariant.  *)
LEMMA CompletesIInv ==
    ASSUME IInv, NEW h \in Header, NEW data \in [1 .. PayloadRead(h) -> Byte],
           ChunkReadCompletes(h, data)
    PROVE  IInv' /\ WholeMessage'
<1> DEFINE c == h.csid
           w == WithHeader(h)
           n == PayloadRead(h)
           payload == w.reassembly_buf \o data
           new == [w EXCEPT !.reassembly_buf = <<>>, !.reassembly_bytes_read = 0,
                            !.reassembling = FALSE]
<1>1. c \in Csid /\ TypeOK /\ MidMessage /\ ByteAccounting
  BY HeaderFields DEF IInv
<1>2. ~PeekRejects(h) /\ Completes(h)
  BY DEF ChunkReadCompletes
<1>3. n \in Nat /\ w.reassembly_bytes_read + n = w.type0_msg_length
  BY <1>1, <1>2, PayloadFacts
<1>4. data \in Seq(Byte) /\ Len(data) = n
  BY <1>3
<1>5. w \in ChunkStream /\ w.reassembly_bytes_read = Len(w.reassembly_buf)
  BY <1>1, <1>2, WithHeaderFacts
<1>6. w.reassembly_buf \in Seq(Byte)
  BY <1>5 DEF ChunkStream
<1>7. payload \in Seq(Byte) /\ Len(payload) = Len(w.reassembly_buf) + n
  BY <1>4, <1>6
<1>8. /\ new \in ChunkStream
      /\ new.reassembly_buf = <<>> /\ new.reassembly_bytes_read = 0 /\ new.reassembling = FALSE
  <2>1. <<>> \in Seq(Byte)
    OBVIOUS
  <2>2. QED
    BY <1>5, <2>1 DEF ChunkStream
<1>9. streams' = [streams EXCEPT ![c] = new]
  BY DEF ChunkReadCompletes
<1>10. reassembly_bytes_in_use' = reassembly_bytes_in_use - Held[c]
  <2>1. reassembly_bytes_in_use' = SaturatingSub(Grown(h), Len(payload))
    BY DEF ChunkReadCompletes
  <2>2. /\ Held[c] \in Nat /\ Held[c] <= reassembly_bytes_in_use
        /\ Grown(h) = reassembly_bytes_in_use - Held[c] + Len(w.reassembly_buf) + n
    BY <1>1, <1>2, GrownFacts
  <2>3. Len(w.reassembly_buf) \in Nat /\ reassembly_bytes_in_use \in Nat
    BY <1>1, <1>6 DEF TypeOK
  <2>4. QED
    BY <1>3, <1>7, <2>1, <2>2, <2>3 DEF SaturatingSub
<1>11. msg' \in Message /\ Len(msg'.payload) = msg'.msg_length
  <2>1. msg' = [csid |-> c, fmt |-> h.fmt, timestamp |-> w.type0_timestamp,
                msg_length |-> w.type0_msg_length, msg_type_id |-> w.type0_msg_type_id,
                msg_stream_id |-> w.type0_msg_stream_id, payload |-> payload]
    BY DEF ChunkReadCompletes
  <2>2. msg' \in Message
    BY <1>1, <1>5, <1>7, <2>1, HeaderFields DEF Message, ChunkStream
  <2>3. QED
    BY <1>3, <1>5, <1>7, <2>1, <2>2
<1>12. /\ reassembling_count' = IF streams[c].reassembling
                                   THEN SaturatingSub(reassembling_count, 1)
                                   ELSE reassembling_count
       /\ default_chunk_size' = default_chunk_size
       /\ rc' = "Ok1" /\ consumed' = "chunk"
  <2>1. streams[c].reassembling \in BOOLEAN
    BY <1>1 DEF TypeOK, ChunkStream
  <2>2. QED
    BY <2>1 DEF ChunkReadCompletes, CountAfter
<1> HIDE DEF new
<1>13. IInv'
  BY <1>1, <1>8, <1>9, <1>10, <1>11, <1>12, DormantIInv
<1>14. QED
  BY <1>11, <1>13 DEF WholeMessage

(* Abort and reset preserve the invariant.  *)
LEMMA DiscardIInv ==
    ASSUME IInv, NEW c \in Csid, AbortStream(c) \/ ResetStream(c)
    PROVE  IInv'
<1> DEFINE abort == [streams[c] EXCEPT !.reassembly_buf = <<>>, !.reassembly_bytes_read = 0,
                                       !.reassembling = FALSE]
           reset == [DefaultStream EXCEPT !.in_use = TRUE, !.chunk_size = default_chunk_size]
<1>1. TypeOK /\ MidMessage /\ ByteAccounting
  BY DEF IInv
<1>2. <<>> \in Seq(Byte) /\ streams[c] \in ChunkStream /\ default_chunk_size \in ChunkSize
  BY <1>1 DEF TypeOK
<1>3. ASSUME NEW new \in ChunkStream, new.reassembly_buf = <<>>,
             new.reassembly_bytes_read = 0, new.reassembling = FALSE, DiscardReassembly(c, new)
      PROVE  IInv'
  <2>1. Held[c] \in Nat /\ Held[c] <= reassembly_bytes_in_use /\ reassembly_bytes_in_use \in Nat
    <3>1. Held \in [Csid -> 0 .. max_msg_length]
      BY <1>1, HeldType
    <3>2. Held[c] <= Cardinality(Cells(Held))
      BY <3>1, CellsUpdate, ChunkReaderAssumption
    <3>3. QED
      BY <1>1, <3>1, <3>2, HeldBytesCells DEF ByteAccounting, TypeOK
  <2>2. reassembly_bytes_in_use' = reassembly_bytes_in_use - Held[c]
    BY <1>3, <2>1 DEF DiscardReassembly, Held, SaturatingSub
  <2>3. msg' \in Message \cup {NoMessage} /\ rc' = "Ok0" /\ consumed' = "nothing"
    BY <1>1, <1>3 DEF DiscardReassembly, TypeOK
  <2>4. /\ streams' = [streams EXCEPT ![c] = new]
        /\ reassembling_count' = IF streams[c].reassembling
                                    THEN SaturatingSub(reassembling_count, 1)
                                    ELSE reassembling_count
        /\ default_chunk_size' = default_chunk_size
    <3>1. streams[c].reassembling \in BOOLEAN
      BY <1>2 DEF ChunkStream
    <3>2. QED
      BY <1>3, <3>1 DEF DiscardReassembly, CountAfter
  <2>5. QED
    BY <1>3, <2>2, <2>3, <2>4, DormantIInv
<1>4. CASE AbortStream(c)
  <2>1. DiscardReassembly(c, abort)
    BY <1>4 DEF AbortStream
  <2>2. /\ abort \in ChunkStream /\ abort.reassembly_buf = <<>>
        /\ abort.reassembly_bytes_read = 0 /\ abort.reassembling = FALSE
    BY <1>2 DEF ChunkStream
  <2> HIDE DEF abort
  <2>3. QED
    BY <1>3, <2>1, <2>2
<1>5. CASE ResetStream(c)
  <2>1. DiscardReassembly(c, reset)
    BY <1>5 DEF ResetStream
  <2>2. reset \in ChunkStream
    BY <1>2, DefaultStreamType DEF ChunkStream
  <2>3. reset.reassembly_buf = <<>> /\ reset.reassembly_bytes_read = 0 /\ reset.reassembling = FALSE
    BY DEF DefaultStream
  <2> HIDE DEF reset
  <2>4. QED
    BY <1>3, <2>1, <2>2, <2>3
<1>6. QED
  BY <1>4, <1>5

(* A SetChunkSize, accepted or refused, preserves the invariant.  *)
LEMMA SetChunkSizeIInv ==
    ASSUME IInv, NEW raw \in AnnouncedChunkSize, SetChunkSize(raw)
    PROVE  IInv'
<1> DEFINE size == ClampedChunkSize(raw)
<1>1. TypeOK /\ MidMessage
  BY DEF IInv
<1>2. CASE raw < DEFAULT_CHUNK_SIZE \/ raw >= ReservedBit
  <2>1. UNCHANGED <<registry, msg>> /\ rc' = "Err" /\ consumed' = "nothing"
    BY <1>2 DEF SetChunkSize, registry
  <2>2. QED
    BY <2>1, UnchangedRegistryIInv
<1>3. CASE ~(raw < DEFAULT_CHUNK_SIZE \/ raw >= ReservedBit)
  <2>1. /\ default_chunk_size' = size
        /\ streams' = [c \in Csid |->
              IF streams[c].in_use THEN [streams[c] EXCEPT !.chunk_size = size] ELSE streams[c]]
        /\ UNCHANGED <<reassembly_bytes_in_use, reassembling_count, msg>>
        /\ rc' = "Ok0" /\ consumed' = "nothing"
    BY <1>3 DEF SetChunkSize
  <2>2. size \in ChunkSize
    BY <1>3, ChunkReaderAssumption DEF ChunkSize, ClampedChunkSize
  <2> HIDE DEF size
  <2>3. \A c \in Csid :
          /\ streams'[c] \in ChunkStream
          /\ streams'[c].in_use = streams[c].in_use
          /\ streams'[c].has_message_header = streams[c].has_message_header
          /\ streams'[c].type0_msg_length = streams[c].type0_msg_length
          /\ streams'[c].reassembly_bytes_read = streams[c].reassembly_bytes_read
          /\ streams'[c].reassembly_buf = streams[c].reassembly_buf
          /\ streams'[c].reassembling = streams[c].reassembling
    <3>1. SUFFICES ASSUME NEW c \in Csid
                   PROVE  /\ streams'[c] \in ChunkStream
                          /\ streams'[c].in_use = streams[c].in_use
                          /\ streams'[c].has_message_header = streams[c].has_message_header
                          /\ streams'[c].type0_msg_length = streams[c].type0_msg_length
                          /\ streams'[c].reassembly_bytes_read = streams[c].reassembly_bytes_read
                          /\ streams'[c].reassembly_buf = streams[c].reassembly_buf
                          /\ streams'[c].reassembling = streams[c].reassembling
      OBVIOUS
    <3>2. streams[c] \in ChunkStream
      BY <1>1 DEF TypeOK
    <3>3. streams'[c] = streams[c] \/ streams'[c] = [streams[c] EXCEPT !.chunk_size = size]
      BY <2>1
    <3>4. QED
      BY <2>2, <3>2, <3>3 DEF ChunkStream
  <2>4. TypeOK'
    BY <1>1, <2>1, <2>2, <2>3 DEF TypeOK
  <2>5. MidMessage'
    BY <1>1, <2>3 DEF MidMessage
  <2>6. HeldBytes' = HeldBytes /\ Reassembling' = Reassembling
    BY <2>3 DEF HeldBytes, Reassembling
  <2>7. QED
    BY <2>1, <2>4, <2>5, <2>6
       DEF IInv, ByteAccounting, ActiveAccounting, WithinLimits
<1>4. QED
  BY <1>2, <1>3

(* Starting a new session re-establishes the invariant.  *)
LEMMA DestroyIInv ==
    ASSUME IInv, Destroy
    PROVE  IInv'
<1>1. TypeOK'
  BY DefaultStreamType, ChunkReaderAssumption DEF IInv, Destroy, TypeOK, DefaultStream, ChunkSize
<1>2. MidMessage'
  BY DEF Destroy, MidMessage, DefaultStream
<1>3. HeldBytes' = {}
  BY DEF Destroy, HeldBytes, DefaultStream
<1>4. Reassembling' = {}
  BY DEF Destroy, Reassembling, DefaultStream
<1>5. QED
  BY <1>1, <1>2, <1>3, <1>4, FS_EmptySet, ChunkReaderAssumption
     DEF IInv, Destroy, ByteAccounting, ActiveAccounting, WithinLimits

(* Every step preserves the invariant.  *)
LEMMA NextIInv == IInv /\ [Next]_vars => IInv'
<1> SUFFICES ASSUME IInv, [Next]_vars PROVE IInv'
  OBVIOUS
<1>1. CASE ChunkReadNeedsMore
  BY <1>1, UnchangedRegistryIInv DEF ChunkReadNeedsMore
<1>2. ASSUME NEW h \in Header, NEW data \in [1 .. PayloadRead(h) -> Byte], ChunkRead(h, data)
      PROVE  IInv'
  <2>1. CASE ChunkReadRejects(h)
    BY <2>1, UnchangedRegistryIInv DEF ChunkReadRejects
  <2>2. CASE ChunkReadPartial(h, data)
    BY <2>2, PartialIInv
  <2>3. CASE ChunkReadCompletes(h, data)
    BY <2>3, CompletesIInv
  <2>4. QED
    BY <1>2, <2>1, <2>2, <2>3 DEF ChunkRead
<1>3. ASSUME NEW raw \in AnnouncedChunkSize, SetChunkSize(raw)
      PROVE  IInv'
  BY <1>3, SetChunkSizeIInv
<1>4. ASSUME NEW c \in Csid, AbortStream(c) \/ ResetStream(c)
      PROVE  IInv'
  BY <1>4, DiscardIInv
<1>5. CASE Destroy
  BY <1>5, DestroyIInv
<1>6. CASE UNCHANGED vars
  BY <1>6, UnchangedRegistryIInv DEF vars, registry, IInv, TypeOK
<1>7. QED
  BY <1>1, <1>2, <1>3, <1>4, <1>5, <1>6 DEF Next

(* Whatever a peer sends, the registry's two running counters are exact,   *)
(* what the connection holds stays within its limits, and a stream is      *)
(* mid-message exactly when it holds bytes.                                *)
THEOREM ReassemblyInvariant == Spec => []IInv
BY InitIInv, NextIInv, PTL DEF Spec

(* Type correctness.  *)
THEOREM TypeCorrect == Spec => []TypeOK
<1>1. IInv => TypeOK
  BY DEF IInv
<1>2. QED
  BY <1>1, ReassemblyInvariant, PTL

(* The byte counter never drifts from the bytes held.  *)
THEOREM BytesExact == Spec => []ByteAccounting
<1>1. IInv => ByteAccounting
  BY DEF IInv
<1>2. QED
  BY <1>1, ReassemblyInvariant, PTL

(* The count behind the active-stream cap never drifts.  *)
THEOREM ActiveExact == Spec => []ActiveAccounting
<1>1. IInv => ActiveAccounting
  BY DEF IInv
<1>2. QED
  BY <1>1, ReassemblyInvariant, PTL

(* The connection's reassembly memory and active streams stay bounded.  *)
THEOREM LimitsHold == Spec => []WithinLimits
<1>1. IInv => WithinLimits
  BY DEF IInv
<1>2. QED
  BY <1>1, ReassemblyInvariant, PTL

(* reassembly_bytes_read is zero exactly between messages.  *)
THEOREM ContinuationUnambiguous == Spec => []MidMessage
<1>1. IInv => MidMessage
  BY DEF IInv
<1>2. QED
  BY <1>1, ReassemblyInvariant, PTL

-----------------------------------------------------------------------------
(* The two copies of the checks.                                           *)

(* Every check of phase 3 repeats one of phase 1.  *)
LEMMA LateChecksRepeat ==
    ASSUME TypeOK, NEW h \in Header, LateRejects(h)
    PROVE  PeekRejects(h)
<1>1. h.csid \in Csid
  BY HeaderFields
<1>2. IsFiniteSet(Registered)
  BY FS_Subset, ChunkReaderAssumption DEF Registered
<1>3. Cardinality(Registered) \in Nat /\ reassembling_count \in Nat
  BY <1>2, FS_CardinalityType DEF TypeOK
<1>4. GetOrCreateFails(h.csid) => ~CanGetOrCreate(h.csid)
  BY <1>3, ChunkReaderAssumption DEF GetOrCreateFails, CanGetOrCreate
<1>5. QED
  BY <1>4 DEF LateRejects, PeekRejects

(* A rejected chunk is rejected before any of it is consumed, so an error  *)
(* never leaves payload bytes behind a header that is gone.                *)
THEOREM ErrorsConsumeNothing == Spec => []NoDesync
<1>1. Init => NoDesync
  BY DEF Init, NoDesync
<1>2. IInv /\ NoDesync /\ [Next]_vars => NoDesync'
  <2> SUFFICES ASSUME IInv, NoDesync, [Next]_vars PROVE NoDesync'
    OBVIOUS
  <2>1. CASE ChunkReadNeedsMore
    BY <2>1 DEF ChunkReadNeedsMore, NoDesync
  <2>2. ASSUME NEW h \in Header, NEW data, ChunkRead(h, data)
        PROVE  NoDesync'
    <3>1. CASE ChunkReadRejects(h)
      BY <3>1, LateChecksRepeat DEF ChunkReadRejects, NoDesync, IInv
    <3>2. CASE ChunkReadPartial(h, data)
      BY <3>2 DEF ChunkReadPartial, NoDesync
    <3>3. CASE ChunkReadCompletes(h, data)
      BY <3>3 DEF ChunkReadCompletes, NoDesync
    <3>4. QED
      BY <2>2, <3>1, <3>2, <3>3 DEF ChunkRead
  <2>3. ASSUME NEW raw \in AnnouncedChunkSize, SetChunkSize(raw)
        PROVE  NoDesync'
    BY <2>3 DEF SetChunkSize, NoDesync
  <2>4. ASSUME NEW c \in Csid, AbortStream(c) \/ ResetStream(c)
        PROVE  NoDesync'
    BY <2>4 DEF AbortStream, ResetStream, DiscardReassembly, NoDesync
  <2>5. CASE Destroy
    BY <2>5 DEF Destroy, NoDesync
  <2>6. CASE UNCHANGED vars
    BY <2>6 DEF vars, NoDesync
  <2>7. QED
    BY <2>1, <2>2, <2>3, <2>4, <2>5, <2>6 DEF Next
<1>3. QED
  BY <1>1, <1>2, ReassemblyInvariant, PTL DEF Spec

(* A message is delivered only when it is whole.  *)
THEOREM MessagesWhole == Spec => []WholeMessage
<1>1. Init => WholeMessage
  BY DEF Init, WholeMessage
<1>2. IInv /\ WholeMessage /\ [Next]_vars => WholeMessage'
  <2> SUFFICES ASSUME IInv, WholeMessage, [Next]_vars PROVE WholeMessage'
    OBVIOUS
  <2>1. CASE ChunkReadNeedsMore
    BY <2>1 DEF ChunkReadNeedsMore, WholeMessage
  <2>2. ASSUME NEW h \in Header, NEW data \in [1 .. PayloadRead(h) -> Byte], ChunkRead(h, data)
        PROVE  WholeMessage'
    <3>1. CASE ChunkReadRejects(h)
      BY <3>1 DEF ChunkReadRejects, WholeMessage
    <3>2. CASE ChunkReadPartial(h, data)
      BY <3>2 DEF ChunkReadPartial, WholeMessage
    <3>3. CASE ChunkReadCompletes(h, data)
      BY <3>3, CompletesIInv
    <3>4. QED
      BY <2>2, <3>1, <3>2, <3>3 DEF ChunkRead
  <2>3. ASSUME NEW raw \in AnnouncedChunkSize, SetChunkSize(raw)
        PROVE  WholeMessage'
    BY <2>3 DEF SetChunkSize, WholeMessage
  <2>4. ASSUME NEW c \in Csid, AbortStream(c) \/ ResetStream(c)
        PROVE  WholeMessage'
    BY <2>4 DEF AbortStream, ResetStream, DiscardReassembly, WholeMessage
  <2>5. CASE Destroy
    BY <2>5 DEF Destroy, WholeMessage
  <2>6. CASE UNCHANGED vars
    BY <2>6 DEF vars, WholeMessage
  <2>7. QED
    BY <2>1, <2>2, <2>3, <2>4, <2>5, <2>6 DEF Next
<1>3. QED
  BY <1>1, <1>2, ReassemblyInvariant, PTL DEF Spec

=============================================================================
