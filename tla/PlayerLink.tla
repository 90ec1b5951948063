----------------------------- MODULE PlayerLink -----------------------------
(***************************************************************************)
(* The way out to one connected peer: the send buffer, media staged for a  *)
(* vectored write, flow control of a player that falls behind, pings, the  *)
(* write stall and the replay of init frames with its cooldown.            *)
(* (session/conn.rs: recv to maybe_send_ping, flush to send_staged_media;  *)
(* server/mod.rs: relay_frame_to_player, player_flow_decision.)            *)
(*                                                                         *)
(* A poll reads what the peer sent, replays init frames that are due,      *)
(* relays the frames of the batch, sends what it staged, and pings and     *)
(* flushes.  How much the socket takes at each write is the environment's  *)
(* choice.  Bytes are counted in coarse units, time in steps; the host     *)
(* polls at least once per step.  Instants are kept as ages.               *)
(***************************************************************************)
EXTENDS Integers, Sequences, FiniteSets

CONSTANTS
    MediaUnits, PingUnits, ReplyUnits, InitUnits,  \* sizes of what is sent
    soft, hard, congestion_timeout,                \* PlayerFlowLimits
    SEND_PROGRESS_BYTES,
    PING_INTERVAL, PING_TIMEOUT, WRITE_STALL_TIMEOUT, MAX_PENDING_PINGS,
    INIT_REPLAY_COOLDOWN,
    Tls,                          \* whether the transport is encrypted
    MaxFrames,                    \* bound on the frames relayed per poll
    MaxOut,                       \* bound on what is queued
    None

ASSUME PlayerLinkAssumption ==
    /\ {MediaUnits, PingUnits, ReplyUnits, InitUnits, soft, hard, congestion_timeout,
        SEND_PROGRESS_BYTES, PING_INTERVAL, PING_TIMEOUT, WRITE_STALL_TIMEOUT,
        MAX_PENDING_PINGS, INIT_REPLAY_COOLDOWN, MaxFrames, MaxOut} \subseteq Nat
    /\ 0 < PING_INTERVAL /\ PING_INTERVAL < PING_TIMEOUT
    /\ 0 < WRITE_STALL_TIMEOUT /\ 0 < MAX_PENDING_PINGS
    /\ soft < hard
    /\ Tls \in BOOLEAN
    /\ None \notin {"a", "b"} \cup Nat \cup [min_backlog : Nat, age : Nat] \cup [age : Nat, left : Nat]

VARIABLES
    status,                       \* "open", or why the connection was closed
    phase,                        \* where the poll is
    frames,                       \* frames relayed in this poll
    out,                          \* send_buffer.available()
    staged_media_bytes,
    relay_congestion,             \* None or [min_backlog, age of last_progress]
    send_progress_bytes,
    last_send_progress,           \* age, or None
    last_recv_progress,           \* age
    send_stalled_since,           \* age, or None
    queued_ping,                  \* None or [age, left: bytes_until_flushed]
    pending_pings,                \* ages of the pings in flight, oldest first
    last_ping_sent,               \* age, or None
    playing, paused,
    needs_init_frames, init_replay_deferred,
    last_init_replay_request,     \* age, or None
    \* What the properties refer to.
    gap,                          \* frames skipped since the last resync point: "no",
                                  \* "skipped", "resumed" once the player asked again
    owed,                         \* age of a play whose init frames are due, or None
    quiet,                        \* time the peer has shown no sign of life
    deaf                          \* time output has waited without a byte taken

flowVars == <<relay_congestion, playing, paused, gap>>
replayVars == <<needs_init_frames, init_replay_deferred, last_init_replay_request, owed>>
pingVars == <<queued_ping, pending_pings, last_ping_sent>>
progressVars == <<send_progress_bytes, last_send_progress, send_stalled_since>>
vars == <<status, phase, frames, out, staged_media_bytes, flowVars, replayVars, pingVars,
          progressVars, last_recv_progress, quiet, deaf>>

\* How long a peer may go without a sign of life: see DeadPeerDropped.
DeadAfter == 4 * (PING_TIMEOUT - 1) + PING_INTERVAL - 1

\* Ages stop at their timeout, those of the histories one step later.
Older(age, limit) == IF age = None \/ age = limit THEN age ELSE age + 1
Within(age, limit) == age # None /\ age < limit

Init ==
    /\ status = "open" /\ phase = "idle" /\ frames = 0
    /\ out = 0 /\ staged_media_bytes = 0
    /\ relay_congestion = None
    /\ send_progress_bytes = 0 /\ last_send_progress = None /\ last_recv_progress = 0
    /\ send_stalled_since = None
    /\ queued_ping = None /\ pending_pings = <<>> /\ last_ping_sent = None
    /\ playing = None /\ paused = FALSE
    /\ needs_init_frames = FALSE /\ init_replay_deferred = FALSE
    /\ last_init_replay_request = None
    /\ gap = "no" /\ owed = None /\ quiet = 0 /\ deaf = 0

(***************************************************************************)
(* Writing to the socket.                                                  *)
(***************************************************************************)
peer_is_draining == Within(last_send_progress, PING_TIMEOUT)
peer_is_sending == Within(last_recv_progress, PING_TIMEOUT)

\* note_bytes_sent, with what is left in the buffer after the write, then the
\* bookkeeping of stalls at the end of flush (stalls is FALSE in
\* send_staged_media, which leaves that to the flush that follows).
Wrote(n, left, stalls) ==
    /\ send_progress_bytes' = IF send_progress_bytes + n >= SEND_PROGRESS_BYTES THEN 0
                              ELSE send_progress_bytes + n
    /\ last_send_progress' = IF send_progress_bytes + n >= SEND_PROGRESS_BYTES THEN 0
                             ELSE last_send_progress
    /\ LET cleared == IF n > 0 THEN None ELSE send_stalled_since
       IN  send_stalled_since' =
             CASE ~stalls -> cleared
               [] stalls /\ left = 0 -> None
               [] OTHER -> IF cleared = None THEN 0 ELSE cleared
    /\ deaf' = IF n > 0 \/ left = 0 THEN 0 ELSE deaf

(***************************************************************************)
(* The start of a poll: what the peer sent.                                *)
(***************************************************************************)
RequestDropped ==
    IF Within(last_init_replay_request, INIT_REPLAY_COOLDOWN)
    THEN UNCHANGED <<init_replay_deferred, needs_init_frames, last_init_replay_request>>
    ELSE /\ last_init_replay_request' = 0
         /\ init_replay_deferred' = FALSE
         /\ needs_init_frames' = TRUE

\* request_init_replay.
RequestInitReplay ==
    IF Within(last_init_replay_request, INIT_REPLAY_COOLDOWN)
    THEN init_replay_deferred' = TRUE /\ UNCHANGED <<needs_init_frames, last_init_replay_request>>
    ELSE /\ last_init_replay_request' = 0
         /\ init_replay_deferred' = FALSE
         /\ needs_init_frames' = TRUE

Receives(reply) ==
    /\ status = "open" /\ phase = "idle"
    /\ out + reply <= MaxOut
    /\ phase' = "replay"
    /\ out' = out + reply
    /\ last_recv_progress' = 0 /\ quiet' = 0
    /\ UNCHANGED <<status, frames, staged_media_bytes, progressVars, queued_ping, last_ping_sent, deaf>>

RecvNothing ==
    /\ status = "open" /\ phase = "idle"
    /\ phase' = "replay"
    /\ UNCHANGED <<status, frames, out, staged_media_bytes, flowVars, replayVars, pingVars,
                   progressVars, last_recv_progress, quiet, deaf>>

RecvData ==
    /\ Receives(0)
    /\ UNCHANGED <<flowVars, replayVars, pending_pings>>

\* handle_user_control: the answer to a ping in flight, in whatever order.
RecvPingResponse(i) ==
    /\ Receives(0)
    /\ pending_pings' = SubSeq(pending_pings, 1, i - 1)
                          \o SubSeq(pending_pings, i + 1, Len(pending_pings))
    /\ UNCHANGED <<flowVars, replayVars>>

Resumed == IF gap = "skipped" THEN "resumed" ELSE gap

\* complete_play_authorized: another route, or the one it plays already.
RecvPlay(r) ==
    /\ Receives(ReplyUnits)
    /\ playing' = r /\ paused' = FALSE
    /\ relay_congestion' = None
    /\ IF playing = r
       THEN gap' = Resumed /\ UNCHANGED replayVars
       ELSE gap' = "no" /\ owed' = 0 /\ RequestInitReplay
    /\ UNCHANGED pending_pings

RecvPause(flag) ==
    /\ Receives(ReplyUnits)
    /\ paused' = flag
    /\ relay_congestion' = IF flag THEN relay_congestion ELSE None
    /\ gap' = IF flag THEN gap ELSE Resumed
    /\ UNCHANGED <<playing, replayVars, pending_pings>>

\* deleteStream, closeStream, FCUnpublish.
RecvDeleteStream ==
    /\ Receives(ReplyUnits)
    /\ playing # None
    /\ playing' = None /\ paused' = FALSE
    /\ relay_congestion' = None /\ gap' = "no" /\ owed' = None
    /\ UNCHANGED <<needs_init_frames, init_replay_deferred, last_init_replay_request, pending_pings>>

\* rearm_deferred_init_replay: the requests after it.
Rearmed(needs, request) ==
    CASE needs -> [needs |-> TRUE, deferred |-> FALSE, request |-> request]
      [] ~needs /\ Within(request, INIT_REPLAY_COOLDOWN) ->
           [needs |-> FALSE, deferred |-> TRUE, request |-> request]
      [] OTHER -> [needs |-> TRUE, deferred |-> FALSE, request |-> 0]

\* The replay of recv_and_reap_connections: after another connection gave up a
\* route it waits for the one of replay_init_frames_for_new_players, which
\* follows before any frame of the batch.
Replay(cached) ==
    LET r == IF init_replay_deferred THEN Rearmed(needs_init_frames, last_init_replay_request)
             ELSE [needs |-> needs_init_frames, deferred |-> FALSE, request |-> last_init_replay_request]
        now == r.needs /\ playing # None
        sent == IF now /\ cached THEN InitUnits ELSE 0
    IN  /\ phase = "replay"
        /\ phase' = "relay" /\ frames' = 0
        /\ out + sent <= MaxOut
        /\ out' = out + sent
        /\ needs_init_frames' = (r.needs /\ ~now)
        /\ init_replay_deferred' = r.deferred
        /\ last_init_replay_request' = r.request
        /\ owed' = IF now THEN None ELSE owed
        /\ UNCHANGED <<status, staged_media_bytes, flowVars, pingVars, progressVars,
                       last_recv_progress, quiet, deaf>>

(***************************************************************************)
(* The fan-out.                                                            *)
(***************************************************************************)
backlog == out + staged_media_bytes

ResumesWhenDrained(delivery, c) ==
    IF backlog >= hard THEN [flow |-> "disconnect", congestion |-> c]
    ELSE IF soft = 0 \/ delivery = "critical" THEN [flow |-> "send", congestion |-> c]
    ELSE IF backlog <= soft \div 2 THEN [flow |-> "send", congestion |-> None]
    ELSE [flow |-> "skip", congestion |-> [min_backlog |-> backlog, age |-> 0]]

\* player_flow_decision: what to do with a frame, and the congestion after it.
player_flow_decision(delivery, c) ==
    IF backlog >= hard THEN [flow |-> "disconnect", congestion |-> c]
    ELSE IF soft = 0 \/ delivery = "critical" THEN [flow |-> "send", congestion |-> c]
    ELSE IF c = None
         THEN IF backlog <= soft THEN [flow |-> "send", congestion |-> None]
              ELSE [flow |-> "skip", congestion |-> [min_backlog |-> backlog, age |-> 0]]
    ELSE IF delivery = "resync" /\ backlog <= soft \div 2 THEN [flow |-> "send", congestion |-> None]
    ELSE IF backlog < c.min_backlog \/ backlog = 0
         THEN [flow |-> "skip", congestion |-> [min_backlog |-> backlog, age |-> 0]]
    ELSE IF c.age >= congestion_timeout THEN [flow |-> "disconnect", congestion |-> c]
    ELSE [flow |-> "skip", congestion |-> c]

can_stage_media == out = 0 /\ ~Tls

\* relay_frame_to_player.
RelayFrame(delivery) ==
    LET d == player_flow_decision(delivery, relay_congestion)
    IN  /\ status = "open" /\ phase = "relay"
        /\ playing # None /\ ~paused
        /\ frames < MaxFrames
        /\ frames' = frames + 1
        /\ relay_congestion' = d.congestion
        /\ CASE d.flow = "send" ->
                  /\ backlog + MediaUnits <= MaxOut
                  /\ IF can_stage_media
                     THEN staged_media_bytes' = staged_media_bytes + MediaUnits /\ UNCHANGED out
                     ELSE out' = out + MediaUnits /\ UNCHANGED staged_media_bytes
                  /\ gap' = IF delivery = "resync" THEN "no" ELSE gap
                  /\ UNCHANGED status
             [] d.flow = "skip" ->
                  gap' = "skipped" /\ UNCHANGED <<status, out, staged_media_bytes>>
             [] d.flow = "disconnect" ->
                  status' = "congested" /\ UNCHANGED <<gap, out, staged_media_bytes>>
        /\ UNCHANGED <<phase, playing, paused, replayVars, pingVars, progressVars,
                       last_recv_progress, quiet, deaf>>

\* send_staged_media: the socket takes n units, the rest is queued.
SendStaged(n) ==
    /\ status = "open" /\ phase = "relay"
    /\ phase' = "flush"
    /\ n <= staged_media_bytes
    /\ staged_media_bytes' = 0
    /\ out' = out + staged_media_bytes - n
    /\ IF staged_media_bytes = 0 THEN UNCHANGED <<progressVars, queued_ping, quiet, deaf>>
       ELSE /\ Wrote(n, out', FALSE)
            /\ queued_ping' = IF queued_ping = None THEN None
                              ELSE [queued_ping EXCEPT !.left = IF @ > n THEN @ - n ELSE 0]
            /\ quiet' = IF last_send_progress' = 0 THEN 0 ELSE quiet
    /\ UNCHANGED <<status, frames, flowVars, replayVars, pending_pings, last_ping_sent, last_recv_progress>>

(***************************************************************************)
(* The end of a poll: maybe_send_ping, then flush.                         *)
(***************************************************************************)
Draining == peer_is_draining \/ peer_is_sending

\* The pings that may still be answered: the oldest come first.
Stale(pings) == {i \in DOMAIN pings : pings[i] >= PING_TIMEOUT}
Fresh(pings) == SubSeq(pings, Cardinality(Stale(pings)) + 1, Len(pings))

\* The pings in flight that maybe_send_ping keeps.  The stale ones of a silent
\* peer are dropped as well, with the connection.
Kept == IF peer_is_sending /\ ~peer_is_draining THEN Fresh(pending_pings) ELSE pending_pings

PingDue == ~Within(last_ping_sent, PING_INTERVAL)

FailsAfterDroppingStale ==
    /\ PingDue
    /\ IF queued_ping # None THEN ~Draining /\ queued_ping.age >= PING_TIMEOUT
       ELSE ~(Draining /\ Kept # <<>>) /\ Len(Fresh(pending_pings)) >= MAX_PENDING_PINGS

PingFails ==
    /\ PingDue
    /\ IF queued_ping # None THEN ~Draining /\ queued_ping.age >= PING_TIMEOUT
       ELSE /\ ~(Draining /\ Kept # <<>>)
            /\ \/ ~Draining /\ Stale(pending_pings) # {}
               \/ Len(Kept) >= MAX_PENDING_PINGS

SendsPing == PingDue /\ queued_ping = None /\ ~(Draining /\ Kept # <<>>)

WriteStalled == send_stalled_since # None /\ send_stalled_since >= WRITE_STALL_TIMEOUT

KeepAliveFails ==
    /\ status = "open" /\ phase = "flush"
    /\ WriteStalled \/ PingFails
    /\ status' = IF WriteStalled THEN "stalled" ELSE "timed out"
    /\ UNCHANGED <<phase, frames, out, staged_media_bytes, flowVars, replayVars, pingVars,
                   progressVars, last_recv_progress, quiet, deaf>>

PingAndFlush(n) ==
    LET ping == IF SendsPing THEN PingUnits ELSE 0
        queued == IF SendsPing THEN [age |-> 0, left |-> out + PingUnits] ELSE queued_ping
        pings == IF PingDue THEN Kept ELSE pending_pings
        flushed(q) == IF q.left > n THEN q.left - n ELSE 0
    IN  /\ status = "open" /\ phase = "flush"
        /\ ~WriteStalled /\ ~PingFails
        /\ phase' = "polled"
        /\ n <= out + ping
        /\ out' = out + ping - n
        /\ IF out + ping = 0 THEN UNCHANGED <<progressVars, deaf, quiet>>
           ELSE /\ Wrote(n, out', TRUE)
                /\ quiet' = IF last_send_progress' = 0 THEN 0 ELSE quiet
        /\ IF queued # None /\ flushed(queued) = 0
           THEN queued_ping' = None /\ pending_pings' = Append(pings, 0) /\ last_ping_sent' = 0
           ELSE /\ queued_ping' = IF queued = None THEN None ELSE [queued EXCEPT !.left = flushed(queued)]
                /\ pending_pings' = pings
                /\ UNCHANGED last_ping_sent
        /\ UNCHANGED <<status, frames, staged_media_bytes, flowVars, replayVars, last_recv_progress>>

\* Another poll within the same step, or a step of time.
PollAgain ==
    /\ phase = "polled"
    /\ phase' = "idle"
    /\ UNCHANGED <<status, frames, out, staged_media_bytes, flowVars, replayVars, pingVars,
                   progressVars, last_recv_progress, quiet, deaf>>

Clock ==
    /\ status = "open" /\ phase = "polled"
    /\ phase' = "idle"
    /\ relay_congestion' = IF relay_congestion = None THEN None
                           ELSE [relay_congestion EXCEPT !.age = Older(@, congestion_timeout)]
    /\ last_send_progress' = Older(last_send_progress, PING_TIMEOUT)
    /\ last_recv_progress' = Older(last_recv_progress, PING_TIMEOUT)
    /\ send_stalled_since' = Older(send_stalled_since, WRITE_STALL_TIMEOUT)
    /\ queued_ping' = IF queued_ping = None THEN None
                      ELSE [queued_ping EXCEPT !.age = Older(@, PING_TIMEOUT)]
    /\ pending_pings' = [i \in DOMAIN pending_pings |-> Older(pending_pings[i], PING_TIMEOUT)]
    /\ last_ping_sent' = Older(last_ping_sent, PING_INTERVAL)
    /\ last_init_replay_request' = Older(last_init_replay_request, INIT_REPLAY_COOLDOWN)
    /\ owed' = Older(owed, INIT_REPLAY_COOLDOWN + 1)
    /\ quiet' = Older(quiet, DeadAfter + 1)
    /\ deaf' = IF out > 0 THEN Older(deaf, WRITE_STALL_TIMEOUT + 1) ELSE 0
    /\ UNCHANGED <<status, frames, out, staged_media_bytes, playing, paused, gap,
                   needs_init_frames, init_replay_deferred, send_progress_bytes>>

Next ==
    \/ RecvNothing \/ RecvData
    \/ \E i \in DOMAIN pending_pings : RecvPingResponse(i)
    \/ \E r \in {"a", "b"} : RecvPlay(r)
    \/ \E flag \in BOOLEAN : RecvPause(flag)
    \/ RecvDeleteStream
    \/ \E cached \in BOOLEAN : Replay(cached)
    \/ \E delivery \in {"critical", "resync", "droppable"} : RelayFrame(delivery)
    \/ \E n \in 0 .. MaxOut + PingUnits : SendStaged(n) \/ PingAndFlush(n)
    \/ KeepAliveFails
    \/ PollAgain
    \/ Clock

Spec == Init /\ [][Next]_vars

\* After flow control skipped a frame for a player, no droppable frame reaches it
\* before a resync point does, however often its backlog drains and fills again
\* and whatever critical frames go out between (player_flow_decision).
GapClosedByResync ==
    [][RelayFrame("droppable") /\ gap = "skipped" => backlog' = backlog]_vars

\* A peer that neither sends nor takes a meaningful amount of data is dropped in
\* bounded time, whatever mixture of stalled writes, queued pings and unanswered
\* pings it leaves behind (maybe_send_ping).  At worst a ping is queued when the
\* timeout is almost over, leaves a timeout later, is not answered within the
\* next one, and is not looked at while another ping is queued for a fourth one
\* and an interval has passed since that one left.
DeadPeerDropped ==
    status = "open" /\ phase = "polled" => quiet <= DeadAfter

\* A peer that takes nothing of what is queued for it is dropped after
\* WRITE_STALL_TIMEOUT, even if it keeps sending and answering pings.
DeafPeerDropped ==
    status = "open" /\ phase = "polled" => deaf < WRITE_STALL_TIMEOUT

\* Only such peers are dropped: keep-alive ends no connection that gave a sign of
\* life within PING_TIMEOUT and took a byte within WRITE_STALL_TIMEOUT.
ClosedForCause ==
    /\ status = "timed out" => quiet >= PING_TIMEOUT
    /\ status = "stalled" => deaf >= WRITE_STALL_TIMEOUT

\* The init frames of the route a player asked for are replayed within
\* INIT_REPLAY_COOLDOWN, through any sequence of route changes: a request made in
\* the cooldown is deferred, not lost.
InitFramesTimely == owed # None => owed <= INIT_REPLAY_COOLDOWN

\* Keep-alive drops the dead and the deaf in bounded time, and nobody else.
DroppedExactly == DeadPeerDropped /\ DeafPeerDropped /\ ClosedForCause
=============================================================================
