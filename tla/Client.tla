------------------------------- MODULE Client -------------------------------
(***************************************************************************)
(* The client (client/mod.rs), the transport under it (transport.rs) and   *)
(* the handshake (handshake.rs) against a server that may answer, refuse,  *)
(* stay silent, ping, stream, stop at its acknowledgement window or hang   *)
(* up at any moment.                                                       *)
(*                                                                         *)
(* Both directions of the connection are sequences of units.  A unit is    *)
(* one part of a message: k is what it belongs to, i its index in the      *)
(* message, x what an Acknowledgement acknowledges, what a status answers  *)
(* or the chunk size a media message was cut with.  A socket holds a few   *)
(* units, so every message can be cut anywhere.                            *)
(*                                                                         *)
(* The client is one thread.  A call of the host is one or several steps,  *)
(* one per socket operation or message; they interleave with the server's. *)
(* A deadline may pass at any step of a blocking call.                     *)
(***************************************************************************)
EXTENDS Integers, Sequences, FiniteSets, FiniteSetsExt

CONSTANTS SocketUnits,           \* what the kernel holds in one direction
          MAX_RECV_BUFFER,       \* units staged before a read is refused
          MAX_RECV_PER_POLL,     \* MAX_RECV_BYTES_PER_POLL
          MAX_MESSAGES_PER_POLL,
          COMMAND_WAIT,          \* MAX_RECV_BYTES_PER_COMMAND_WAIT
          MAX_PINGS,             \* MAX_INBOUND_PING_RESPONSES
          Window,                \* the WindowAckSize the server announces
          SendLimit,             \* what the server sends unacknowledged
          MaxQueued,             \* send_buffer beyond which the host waits
          MaxOutstanding,        \* unanswered requests before another is made
          Tls                    \* an rtmps:// connection

ASSUME ClientAssumption ==
  /\ {SocketUnits, MAX_RECV_BUFFER, MAX_RECV_PER_POLL, MAX_MESSAGES_PER_POLL,
      COMMAND_WAIT, MAX_PINGS, Window, SendLimit, MaxQueued} \subseteq Nat \ {0}
  /\ Window <= SendLimit
  /\ Tls \in BOOLEAN

VARIABLES
  c,        \* the Client
  call,     \* the host's call in progress
  result,   \* what the last call returned
  net,      \* the connection: up to the server, down from it
  srv       \* the server's end

vars == <<c, call, result, net, srv>>

-----------------------------------------------------------------------------
(* Units and messages.                                                     *)

Parts(k) == IF k \in {"c1", "s1", "publish", "play", "frame", "media"} THEN 2 ELSE 1

Message(k, x) == [i \in 1..Parts(k) |-> [k |-> k, i |-> i, x |-> x]]

Drop(s, n) == SubSeq(s, n + 1, Len(s))

\* chunk_read_owned returns a message once all of it is staged.
Complete(s) == s # <<>> /\ Len(s) >= Parts(Head(s).k)

Rest(s) == Drop(s, Parts(Head(s).k))

-----------------------------------------------------------------------------
(* State.                                                                  *)

NewClient ==
  [state |-> "Disconnected", hsout |-> <<>>, sendbuf |-> <<>>, ackrem |-> 0,
   staged |-> <<>>, window |-> 0, since |-> 0, pings |-> 0,
   bigchunks |-> FALSE, terminal |-> FALSE]

\* reset_session_state leaves handshake.out alone: client_init does not
\* clear it.
ResetSession(cl) == [NewClient EXCEPT !.hsout = cl.hsout]

NoCall == [at |-> "host", op |-> "none", next |-> "none", late |-> FALSE,
           budget |-> 0, processed |-> 0, got |-> <<>>]

NoNet == [up |-> <<>>, down |-> <<>>, pend |-> 0]

NewServer == [hs |-> "C0", got |-> <<>>, out |-> <<>>, part |-> <<>>,
              granted |-> {}, unacked |-> 0, bigchunks |-> FALSE,
              open |-> TRUE, garbled |-> FALSE]

NoServer == [NewServer EXCEPT !.open = FALSE]

Init == /\ c = NewClient /\ call = NoCall /\ result = "ok"
        /\ net = NoNet /\ srv = NoServer

-----------------------------------------------------------------------------
(* The transport.                                                          *)

Room == SocketUnits - Len(net.up)

\* What a non-blocking write of s may take: all that fits; nothing when TLS
\* must read first.  A write to a closed peer fails.
Writable(s) == {Min({Room, Len(s)})} \cup (IF Tls THEN {0} ELSE {})

\* poll(2) sees the kernel's units, not those already decrypted, and a
\* hang-up.
Readable == Len(net.down) > net.pend \/ ~srv.open

\* After a read of n units the rest of a TLS record may be decrypted.
AfterRead(n) ==
  {[net EXCEPT !.down = Drop(@, n), !.pend = p] :
     p \in IF Tls THEN 0..(Len(net.down) - n) ELSE {0}}

\* recv_buffer gained n units of the connection.
Received(cl, n) == [cl EXCEPT !.staged = @ \o SubSeq(net.down, 1, n),
                              !.since = @ + n]

\* A read that would overflow recv_buffer fails the session: what it took
\* from the socket is of no more use.
Overflows(n) == Len(c.staged) + n > MAX_RECV_BUFFER

-----------------------------------------------------------------------------
(* Queueing and draining send_buffer.                                      *)

Queue(cl, k, x) == [cl EXCEPT !.sendbuf = @ \o Message(k, x)]

AckNow(cl, left) ==
  LET q == Queue(cl, "ack", cl.since)
  IN  [q EXCEPT !.since = left, !.ackrem = Len(q.sendbuf)]

AckDue(cl) == cl.window > 0 /\ cl.since >= cl.window

AcksFromWindow(cl) ==
  IF cl.ackrem = 0 /\ AckDue(cl) THEN AckNow(cl, cl.since - cl.window) ELSE cl

\* At most one Acknowledgement is queued; later crossings wait for it.
maybe_send_window_ack(cl) ==
  IF cl.ackrem = 0 /\ AckDue(cl) THEN AckNow(cl, 0) ELSE cl

\* note_outbound_drained, and the reset of an emptied buffer.
note_outbound_drained(cl, n) ==
  [cl EXCEPT !.sendbuf = Drop(@, n),
             !.ackrem = IF n = Len(cl.sendbuf) THEN 0 ELSE Max({@ - n, 0})]

\* The network after the first n units of send_buffer went out.
Sent(nt, s, n) == [nt EXCEPT !.up = @ \o SubSeq(s, 1, n)]

Returns(r) == call' = NoCall /\ result' = r

MoreToDrain == call.processed < MAX_MESSAGES_PER_POLL /\ Complete(c.staged)

AfterDrainPollingKernel ==
  CASE call.next = "wait" -> IF call.processed = 0 THEN "block" ELSE "read"
    [] call.next = "svc" ->
         IF call.processed = 0
         THEN IF call.op = "poll" /\ c.sendbuf = <<>> THEN "block" ELSE "peek"
         ELSE "svcread"
    [] OTHER -> call.next

\* Where a drain goes on.  poll() on a player waits for the socket unless it
\* has just made progress or the transport holds plaintext; service_inbound
\* likewise, and not at all while outbound bytes are queued.
AfterDrain ==
  CASE call.next = "wait" ->
         IF call.processed = 0 /\ net.pend = 0 THEN "block" ELSE "read"
    [] call.next = "svc" ->
         IF call.processed = 0 /\ net.pend = 0
         THEN IF call.op = "poll" /\ c.sendbuf = <<>> THEN "block" ELSE "peek"
         ELSE "svcread"
    [] OTHER -> call.next

\* Where the call is: a loop that has nothing left to do is over.
Place ==
  CASE call.at = "drain" /\ ~MoreToDrain -> AfterDrain
    [] call.at = "send" /\ c.sendbuf = <<>> -> "wait"
    [] call.at = "c0c1" /\ c.hsout = <<>> -> "s0s1"
    [] call.at = "c2" /\ c.hsout = <<>> -> "s2"
    [] OTHER -> call.at

At(place) == Place = place

Goto(place) == [call EXCEPT !.at = place]

\* A failure inside connect() resets the session and drops the transport.
Fails(cl, r) ==
  /\ Returns(r)
  /\ IF call.op \in {"handshake", "connect", "createStream"}
     THEN c' = ResetSession(cl) /\ net' = NoNet /\ srv' = NoServer
     ELSE c' = cl /\ UNCHANGED <<net, srv>>

\* try_flush_send_buffer on cl, going on with k; a write
\* to a closed connection ends the call.
TryFlush(cl, k) ==
  \/ \E n \in Writable(cl.sendbuf) :
       /\ c' = note_outbound_drained(cl, n)
       /\ net' = Sent(net, cl.sendbuf, n)
       /\ call' = k
       /\ UNCHANGED <<result, srv>>
  \/ /\ ~srv.open /\ cl.sendbuf # <<>>
     /\ Fails(cl, "io")

-----------------------------------------------------------------------------
(* connect(): the dial and the handshake.                                  *)

\* connect() resets first, so that a failed dial leaves no old session.
DialFails ==
  /\ At("host")
  /\ c' = ResetSession(c)
  /\ result' \in {"timeout", "io"}
  /\ net' = NoNet /\ srv' = NoServer
  /\ UNCHANGED call

GeneratesBehindOld(old) == old \o Message("c0", 0) \o Message("c1", 0)

\* C0 and C1 replace what handshake.out still held.
client_generate_c0c1(old) == Message("c0", 0) \o Message("c1", 0)

Dial ==
  /\ At("host")
  /\ c' = [ResetSession(c) EXCEPT !.state = "Handshaking",
                                  !.hsout = client_generate_c0c1(@)]
  /\ call' = [NoCall EXCEPT !.at = "c0c1", !.op = "handshake"]
  /\ net' = NoNet /\ srv' = NewServer
  /\ result' = "ok"

\* One pass of send_bounded's loop over handshake.out.
SendHandshake ==
  /\ Place \in {"c0c1", "c2"}
  /\ \/ call.late /\ Fails(c, "timeout")
     \/ ~call.late /\ ~srv.open /\ Fails(c, "io")
     \/ /\ ~call.late
        /\ \E n \in Writable(c.hsout) \ {0} :
             /\ c' = [c EXCEPT !.hsout = Drop(@, n)]
             /\ net' = Sent(net, c.hsout, n)
        /\ UNCHANGED <<call, result, srv>>

Needed == IF At("s0s1") THEN 3 ELSE 1

\* One pass of read_exact_bounded: it never reads past what it needs.
ReadHandshake ==
  /\ Place \in {"s0s1", "s2"}
  /\ Len(call.got) < Needed
  /\ \/ call.late /\ Fails(c, "timeout")
     \/ ~call.late /\ net.down = <<>> /\ ~srv.open /\ Fails(c, "io")
     \/ /\ ~call.late /\ net.down # <<>>
        /\ LET n == Min({Len(net.down), Needed - Len(call.got)})
           IN  /\ net' \in AfterRead(n)
               /\ call' = [call EXCEPT !.got = @ \o SubSeq(net.down, 1, n)]
        /\ UNCHANGED <<c, result, srv>>

\* client_read_s0 refuses another version; client_read_s1 queues C2.
ReadS0S1 ==
  /\ At("s0s1") /\ Len(call.got) = Needed
  /\ IF Head(call.got).x # 0
     THEN Fails(c, "handshake")
     ELSE /\ c' = [c EXCEPT !.hsout = Message("c2", 0)]
          /\ call' = [Goto("c2") EXCEPT !.got = <<>>]
          /\ UNCHANGED <<result, net, srv>>

\* A command is queued and sent with a fresh byte budget for its answer.
Exchange(cl, k) ==
  /\ c' = Queue(cl, k, 0)
  /\ call' = [NoCall EXCEPT !.at = "send", !.op = k, !.late = call.late,
                            !.budget = COMMAND_WAIT]

ReadS2 ==
  /\ At("s2") /\ Len(call.got) = Needed
  /\ Exchange([c EXCEPT !.state = "Connected"], "connect")
  /\ UNCHANGED <<result, net, srv>>

-----------------------------------------------------------------------------
(* The command exchanges of connect(), publish() and play().               *)

\* A host that was told its session failed connects again.
Failed == result \in {"io", "protocol"}

\* Requests, and answers, of this connection that are still under way.
Outstanding ==
  LET count(s) == Cardinality({i \in DOMAIN s :
                     s[i].k \in {"publish", "play", "start", "denied", "error"} /\ s[i].i = 1})
  IN  count(c.sendbuf) + count(net.up) + count(srv.part) + count(srv.out)
        + count(net.down) + count(c.staged)

StartExchange(k) ==
  /\ At("host") /\ c.state = "AppConnected" /\ ~Failed
  /\ Outstanding <= MaxOutstanding
  /\ Exchange(c, k)
  /\ result' = "ok"
  /\ UNCHANGED <<net, srv>>

Publish == StartExchange("publish")
Play == StartExchange("play")

\* One pass of send_bounded over send_buffer: send_command_msg and
\* flush_pending_outbound.
SendBounded ==
  /\ At("send")
  /\ \/ call.late /\ Fails(c, "timeout")
     \/ ~call.late /\ ~srv.open /\ Fails(c, "io")
     \/ /\ ~call.late
        /\ \E n \in Writable(c.sendbuf) \ {0} :
             /\ c' = note_outbound_drained(c, n)
             /\ net' = Sent(net, c.sendbuf, n)
        /\ UNCHANGED <<call, result, srv>>

\* handle_user_control on a Ping Request, in cl, going on with k: at most
\* MAX_PINGS answers a window, none during the drain after a hang-up.
PingsSoFar(elapsed) == IF elapsed THEN 0 ELSE c.pings

AnswerPing(cl, k, draining) ==
  \E elapsed \in BOOLEAN :
    LET answered == [cl EXCEPT !.pings = PingsSoFar(elapsed) + 1] IN
    \/ PingsSoFar(elapsed) >= MAX_PINGS /\ Fails(cl, "protocol")
    \/ /\ PingsSoFar(elapsed) < MAX_PINGS /\ draining
       /\ c' = answered /\ call' = k
       /\ UNCHANGED <<result, net, srv>>
    \/ /\ PingsSoFar(elapsed) < MAX_PINGS /\ ~draining
       /\ TryFlush(Queue(answered, "pong", 0), k)

AnyStatusAnswers(m) == IF call.op \in {"connect", "createStream"}
                       THEN m.k = "result"
                       ELSE m.k = "start"

\* What the awaited message is, and which message refuses the request.
Answers(m) == IF call.op \in {"connect", "createStream"}
              THEN m.k = "result"
              ELSE m.k = "start" /\ m.x = call.op

Rejects(m) == \/ m.k = "error"
              \/ m.k = "denied" /\ call.op \in {"publish", "play"}

\* queue_publish_chunk_size: SetChunkSize goes ahead of the first frame.
StartsPublishing(cl) ==
  [Queue(cl, "setcs", 0) EXCEPT !.state = "Publishing", !.bigchunks = TRUE]

Answered(cl) ==
  CASE call.op = "connect" -> Exchange(cl, "createStream") /\ UNCHANGED result
    [] call.op = "createStream" ->
         c' = [cl EXCEPT !.state = "AppConnected"] /\ Returns("ok")
    [] call.op = "publish" -> c' = StartsPublishing(cl) /\ Returns("ok")
    [] call.op = "play" -> c' = [cl EXCEPT !.state = "Playing"] /\ Returns("ok")

\* recv_message parses what is staged before it looks at the clock;
\* wait_for_command_with_budget goes on to the next message unless this one
\* answers or refuses the request.
WaitForCommand ==
  /\ At("wait") /\ Complete(c.staged)
  /\ LET m == Head(c.staged)
         cl == [c EXCEPT !.staged = Rest(@)]
     IN  CASE m.k = "window" ->
                /\ c' = maybe_send_window_ack([cl EXCEPT !.window = Window])
                /\ call' = Goto("send")
                /\ UNCHANGED <<result, net, srv>>
           [] m.k = "ping" -> AnswerPing(cl, Goto("send"), FALSE)
           [] Answers(m) -> Answered(cl) /\ UNCHANGED <<net, srv>>
           [] Rejects(m) -> Fails(cl, "auth")
           [] OTHER -> c' = cl /\ UNCHANGED <<call, result, net, srv>>

OutOfBytes == call.budget = 0

OutOfTime == call.late \/ call.budget = 0

\* Reads no more than the exchange's byte budget allows.
ReceiveReply ==
  /\ At("wait") /\ ~Complete(c.staged)
  /\ LET n == Min({Len(net.down), call.budget}) IN
     \/ OutOfTime /\ Fails(c, "timeout")
     \/ ~OutOfTime /\ net.down = <<>> /\ ~srv.open /\ Fails(c, "io")
     \/ ~OutOfTime /\ Overflows(n) /\ Fails(c, "protocol")
     \/ /\ ~OutOfTime /\ n > 0 /\ ~Overflows(n)
        /\ c' = maybe_send_window_ack(Received(c, n))
        /\ call' = [Goto("send") EXCEPT !.budget = @ - n]
        /\ net' \in AfterRead(n)
        /\ UNCHANGED <<result, srv>>

Blocking == call.op \in {"handshake", "connect", "createStream", "publish", "play"}

\* The deadline of a blocking call passes.
Expire ==
  /\ Blocking /\ ~call.late
  /\ call' = [call EXCEPT !.late = TRUE]
  /\ UNCHANGED <<c, result, net, srv>>

-----------------------------------------------------------------------------
(* poll() and send_frame().                                                *)

Poll(op, place, next) == [NoCall EXCEPT !.at = place, !.op = op, !.next = next,
                                        !.budget = MAX_RECV_PER_POLL]

MayPoll(st) == At("host") /\ c.state = st /\ ~Failed

PollPlaying ==
  /\ MayPoll("Playing")
  /\ TryFlush(c, Poll("poll", "drain", IF c.terminal THEN "fail" ELSE "wait"))

PollPublishing ==
  /\ MayPoll("Publishing")
  /\ TryFlush(c, Poll("poll", "writable", "svc"))

\* Still queued bytes are waited for, then tried once more.
WaitWritable ==
  /\ At("writable")
  /\ TryFlush(c, Goto("drain"))

SendFrame ==
  /\ MayPoll("Publishing") /\ Len(c.sendbuf) < MaxQueued
  /\ TryFlush(c, Poll("frame", "drain", "svc"))

\* drain_ready_messages, one message.
DrainMessage ==
  /\ At("drain") /\ MoreToDrain
  /\ LET m == Head(c.staged)
         cl == [c EXCEPT !.staged = Rest(@)]
         k == [call EXCEPT !.processed = @ + 1]
     IN  IF m.k = "ping" THEN AnswerPing(cl, k, call.next = "fail")
         ELSE /\ c' = IF m.k = "window" THEN [cl EXCEPT !.window = Window] ELSE cl
              /\ call' = k
              /\ UNCHANGED <<result, net, srv>>

\* The wait ends: the socket is readable, or the host's timeout passed.
Unblock ==
  /\ Place \in {"block", "peek"}
  /\ call' = Goto(IF call.next = "wait" THEN "read"
                  ELSE IF Readable THEN "svcread" ELSE "after")
  /\ UNCHANGED <<c, result, net, srv>>

\* poll()'s recv loop on a player: up to the byte budget; an end of stream
\* is only seen once everything before it was read.
PollRead ==
  /\ At("read")
  /\ LET n == Min({Len(net.down), call.budget})
         eof == ~srv.open /\ n = Len(net.down) /\ n < call.budget
     IN  IF Overflows(n) THEN Fails(c, "protocol")
         ELSE /\ c' = Received(c, n)
              /\ net' \in AfterRead(n)
              /\ call' = [Goto("drain") EXCEPT !.next = IF eof THEN "fail" ELSE "finish"]
              /\ UNCHANGED <<result, srv>>

Finish ==
  /\ At("finish")
  /\ TryFlush(maybe_send_window_ack(c), NoCall)

\* drain_then_fail: the error waits until the backlog is delivered.
DrainThenFail ==
  /\ At("fail")
  /\ LET more == call.processed >= MAX_MESSAGES_PER_POLL IN
     /\ c' = [c EXCEPT !.terminal = more]
     /\ Returns(IF more THEN "ok" ELSE "io")
  /\ UNCHANGED <<net, srv>>

\* service_inbound's recv loop.
ServiceRead ==
  /\ At("svcread")
  /\ LET n == Min({Len(net.down), call.budget})
         over == call.budget = 0 \/ call.processed >= MAX_MESSAGES_PER_POLL
     IN  CASE over \/ (n = 0 /\ srv.open) ->
                /\ c' = maybe_send_window_ack(c)
                /\ call' = Goto("after")
                /\ UNCHANGED <<result, net, srv>>
           [] ~over /\ n = 0 /\ ~srv.open -> Fails(c, "io")
           [] ~over /\ n > 0 /\ Overflows(n) -> Fails(c, "protocol")
           [] OTHER ->
                /\ c' = Received(c, n)
                /\ net' \in AfterRead(n)
                /\ call' = [Goto("drain") EXCEPT !.next = "svcread",
                                                  !.budget = @ - n]
                /\ UNCHANGED <<result, srv>>

AfterService ==
  /\ At("after")
  /\ TryFlush(IF call.op = "frame" THEN Queue(c, "frame", c.bigchunks) ELSE c, NoCall)

-----------------------------------------------------------------------------
(* The server: its handshake is conn.rs's; what it answers is its choice.  *)

Expects == CASE srv.hs = "C0" -> "c0" [] srv.hs = "C1" -> "c1" [] srv.hs = "C2" -> "c2"

NextStage == CASE srv.hs = "C0" -> "C1" [] srv.hs = "C1" -> "C2" [] srv.hs = "C2" -> "Done"

\* do_handshake: each stage waits for all of its bytes; C1 is answered by
\* S0, S1 and S2 at once.
do_handshake(u) ==
  LET got == Append(srv.got, u)
      full == Len(got) = Parts(Expects)
      answer(v) == Message("s0", v) \o Message("s1", 0) \o Message("s2", 0)
  IN  {[srv EXCEPT !.got = IF full THEN <<>> ELSE got,
                   !.hs = IF full THEN NextStage ELSE @,
                   !.out = IF full /\ Expects = "c1" THEN @ \o answer(v) ELSE @,
                   !.garbled = @ \/ u.k # Expects] : v \in {0, 1}}

\* The answers a server may give to a command.
Replies(k) ==
  CASE k = "connect" -> {Message("window", 0) \o Message("result", 0), Message("error", 0)}
    [] k = "createStream" -> {Message("result", 0)}
    [] k \in {"publish", "play"} ->
         {Message("start", k), Message("denied", 0), Message("error", 0)}
    [] OTHER -> {<<>>}

\* A message of the client has arrived in full.
Takes(m) ==
  {[srv EXCEPT
      !.part = <<>>,
      !.out = @ \o r,
      !.granted = IF r = Message("start", m.k) THEN @ \cup {m.k} ELSE @,
      !.unacked = IF m.k = "ack" THEN @ - m.x ELSE @,
      !.bigchunks = @ \/ m.k = "setcs",
      !.garbled = @ \/ (m.k = "frame" /\ m.x # srv.bigchunks)] : r \in Replies(m.k)}

InStep(u) == IF srv.part = <<>> THEN u.i = 1
             ELSE u.k = Head(srv.part).k /\ u.i = Len(srv.part) + 1

SrvRecv ==
  /\ srv.open /\ net.up # <<>>
  /\ LET u == Head(net.up) IN
     srv' \in CASE srv.hs # "Done" -> do_handshake(u)
               [] srv.hs = "Done" /\ ~InStep(u) -> {[srv EXCEPT !.garbled = TRUE]}
               [] srv.hs = "Done" /\ InStep(u) /\ u.i < Parts(u.k) ->
                    {[srv EXCEPT !.part = Append(@, u)]}
               [] OTHER -> Takes(u)
  /\ net' = [net EXCEPT !.up = Tail(@)]
  /\ UNCHANGED <<c, call, result>>

Counted(u) == IF u.k \in {"s0", "s1", "s2"} THEN 0 ELSE 1

SrvWrite ==
  /\ srv.open /\ srv.out # <<>> /\ Len(net.down) < SocketUnits
  /\ LET u == Head(srv.out) IN
     /\ Counted(u) = 1 => srv.unacked < SendLimit
     /\ net' = [net EXCEPT !.down = Append(@, u)]
     /\ srv' = [srv EXCEPT !.out = Tail(@), !.unacked = @ + Counted(u)]
  /\ UNCHANGED <<c, call, result>>

\* Pings, and media for a player.
SrvStart ==
  /\ srv.open /\ srv.hs = "Done" /\ srv.out = <<>>
  /\ Len(c.sendbuf) < MaxQueued
  /\ \E k \in {"ping"} \cup IF "play" \in srv.granted THEN {"media"} ELSE {} :
       srv' = [srv EXCEPT !.out = Message(k, 0)]
  /\ UNCHANGED <<c, call, result, net>>

SrvClose ==
  /\ srv.open
  /\ srv' = [srv EXCEPT !.open = FALSE, !.out = <<>>, !.part = <<>>, !.got = <<>>]
  /\ net' = [net EXCEPT !.up = <<>>]
  /\ UNCHANGED <<c, call, result>>

-----------------------------------------------------------------------------
Next ==
  \/ DialFails \/ Dial \/ SendHandshake \/ ReadHandshake \/ ReadS0S1 \/ ReadS2
  \/ Publish \/ Play \/ SendBounded \/ WaitForCommand \/ ReceiveReply \/ Expire
  \/ PollPlaying \/ PollPublishing \/ WaitWritable \/ SendFrame
  \/ DrainMessage \/ Unblock \/ PollRead \/ Finish \/ DrainThenFail
  \/ ServiceRead \/ AfterService
  \/ SrvRecv \/ SrvWrite \/ SrvStart \/ SrvClose

Spec == Init /\ [][Next]_vars

-----------------------------------------------------------------------------
(* Properties.                                                             *)

\* Whatever is cut, times out, is retried or is reconnected, each side reads
\* the stream the other one wrote: the handshake takes exactly its own bytes,
\* no message is cut short, repeated or left over from an earlier session,
\* and media is cut with the chunk size the server has been told.
WireIntact ==
  /\ ~srv.garbled
  /\ \A i \in DOMAIN call.got :
       call.got[i].k = IF Place = "s2" THEN "s2" ELSE IF i = 1 THEN "s0" ELSE "s1"
  /\ \A i \in DOMAIN c.staged : c.staged[i].k \notin {"s0", "s1", "s2"}

Acks(s) == {i \in DOMAIN s : s[i].k = "ack"}
Acked(s) == MapThenSumSet(LAMBDA i : s[i].x, Acks(s))

\* ack_bytes_remaining is where the queued Acknowledgement ends, None when
\* none is queued, and at most one is queued, through every partial write,
\* blocking flush and reconnect.
AckTracked == Acks(c.sendbuf) = IF c.ackrem = 0 THEN {} ELSE {c.ackrem}

\* No byte the server sent drops out of the acknowledgement count: what it
\* still waits for is in the socket, not yet acknowledged, or in an
\* Acknowledgement under way.
AcksAddUp ==
  srv.open /\ ~Failed =>
    srv.unacked = Cardinality({i \in DOMAIN net.down : Counted(net.down[i]) = 1})
                    + c.since + Acked(c.sendbuf) + Acked(net.up)

\* A server that stops at its window is never left waiting: there is
\* something to read, an Acknowledgement under way, or the player's next
\* poll() sends one.
NoStall ==
  srv.open /\ ~Failed /\ srv.unacked >= SendLimit /\ At("host") =>
    \/ net.down # <<>>
    \/ Acks(c.sendbuf) \cup Acks(net.up) # {}
    \/ c.window = 0
    \/ c.state = "Playing" /\ c.since >= c.window

\* publish() and play() succeed only when this connection's server granted
\* that role, whatever answers to earlier, timed out requests arrive.
RoleGranted ==
  /\ c.state = "Publishing" => "publish" \in srv.granted
  /\ c.state = "Playing" => "play" \in srv.granted

\* ErrorCode::Io is about the connection in use: the server hung up, or was
\* never reached.  A deferred error of an earlier session is not reported.
ErrorIsOwn == result = "io" /\ At("host") => ~srv.open

\* With nothing left to write, the hang-up is reported only after every
\* message that was staged has been delivered.
DeliveredFirst ==
  result = "io" /\ At("host") /\ c.sendbuf = <<>> => ~Complete(c.staged)

\* poll() waits for the socket only when there is nothing to deliver, no
\* plaintext inside the TLS layer that poll(2) cannot see and, while
\* publishing, nothing left to write.
WaitsWhenDry ==
  At("block") => /\ ~Complete(c.staged) /\ net.pend = 0
                 /\ c.state = "Publishing" => c.sendbuf = <<>>

\* Once its deadline has passed a blocking call takes nothing more from the
\* connection, however much the server keeps sending.
DeadlineHolds ==
  [][call.late => Len(c'.staged) <= Len(c.staged) /\ Len(call'.got) <= Len(call.got)]_vars

\* Acknowledgements neither lose nor repeat a byte, through partial writes.
AcksExact == AckTracked /\ AcksAddUp

\* Neither end waits for what is there already: the server at its window for an
\* Acknowledgement that will not come, poll() for bytes it holds.
NobodyStuck == NoStall /\ WaitsWhenDry

\* What a call returns is about the connection in use and comes in order: roles
\* it was granted, errors of its own, and those after the staged messages.
ResultIsOwn == RoleGranted /\ ErrorIsOwn /\ DeliveredFirst
=============================================================================
