-------------------------- MODULE PlayerLinkProofs --------------------------
(***************************************************************************)
(* What PlayerLink promises holds for every choice of sizes, limits and    *)
(* timeouts.                                                               *)
(***************************************************************************)
EXTENDS PlayerLink, FiniteSetTheorems, TLAPS

Age(limit) == 0 .. limit
Congestion == [min_backlog : Nat, age : Nat]
Queued == [age : Age(PING_TIMEOUT), left : Nat]

LinkTypes ==
    /\ status \in {"open", "congested", "stalled", "timed out"}
    /\ phase \in {"idle", "replay", "relay", "flush", "polled"}

AmountTypes == frames \in Nat /\ out \in Nat /\ staged_media_bytes \in Nat

FlowTypes ==
    /\ relay_congestion \in Congestion \cup {None}
    /\ playing \in {"a", "b", None} /\ paused \in BOOLEAN
    /\ gap \in {"no", "skipped", "resumed"}

ReplayTypes ==
    /\ needs_init_frames \in BOOLEAN /\ init_replay_deferred \in BOOLEAN
    /\ last_init_replay_request \in Age(INIT_REPLAY_COOLDOWN) \cup {None}
    /\ owed \in Nat \cup {None}

PingTypes ==
    /\ queued_ping \in Queued \cup {None}
    /\ pending_pings \in Seq(Age(PING_TIMEOUT))
    /\ last_ping_sent \in Age(PING_INTERVAL) \cup {None}

ProgressTypes ==
    /\ send_progress_bytes \in Nat
    /\ last_send_progress \in Age(PING_TIMEOUT) \cup {None}
    /\ last_recv_progress \in Age(PING_TIMEOUT)
    /\ send_stalled_since \in Age(WRITE_STALL_TIMEOUT) \cup {None}
    /\ quiet \in Nat /\ deaf \in Nat

TypeOK == LinkTypes /\ AmountTypes /\ FlowTypes /\ ReplayTypes /\ PingTypes /\ ProgressTypes

-----------------------------------------------------------------------------
(* The inductive invariant, in parts that need the types and each other.   *)

(* A gap that is open keeps the player congested.                          *)
GapCongested == gap = "skipped" => relay_congestion # None /\ soft # 0

(* A play that waits for its init frames has a request on record that is   *)
(* at least as old, and after the replay of a poll one still in cooldown.  *)
OwedRequested ==
    owed # None =>
      /\ playing # None /\ last_init_replay_request # None
      /\ owed <= last_init_replay_request
      /\ needs_init_frames \/ init_replay_deferred
      /\ phase \in {"relay", "flush", "polled"} => last_init_replay_request < INIT_REPLAY_COOLDOWN

(* The peer has been quiet since the later of its two signs of life.       *)
QuietSince ==
    /\ last_recv_progress < PING_TIMEOUT => quiet <= last_recv_progress
    /\ Within(last_send_progress, PING_TIMEOUT) => quiet <= last_send_progress
    /\ \/ quiet >= last_recv_progress
       \/ last_send_progress # None /\ quiet >= last_send_progress

(* The stall timer runs exactly while the peer is deaf.                    *)
DeafSince ==
    /\ send_stalled_since # None => out > 0 /\ deaf >= send_stalled_since
    /\ deaf > 0 => send_stalled_since # None /\ deaf <= send_stalled_since
    /\ phase = "polled" => /\ out > 0 => send_stalled_since # None
                           /\ send_stalled_since # None => send_stalled_since < WRITE_STALL_TIMEOUT

(* How long the peer may have been quiet, from the pings it has not        *)
(* answered.  T is the longest time a poll lets something be old.          *)
T == PING_TIMEOUT - 1
AllFresh == \A i \in DOMAIN pending_pings : pending_pings[i] < PING_TIMEOUT

QuietQueued ==
    queued_ping # None =>
      /\ last_ping_sent \in {None, PING_INTERVAL}
      /\ quiet <= 3 * T + queued_ping.age
      /\ pending_pings = <<>> => quiet <= T + queued_ping.age

QuietIdle ==
    queued_ping = None =>
      /\ last_ping_sent = None => quiet = 0
      /\ last_ping_sent # None => quiet <= 4 * T + last_ping_sent
      /\ pending_pings = <<>> /\ last_ping_sent # None => quiet <= last_ping_sent

QuietPending ==
    pending_pings # <<>> /\ AllFresh => \E i \in DOMAIN pending_pings : quiet <= 2 * T + pending_pings[i]

(* What a poll that ends has looked at.                                    *)
PolledPings ==
    phase = "polled" =>
      /\ quiet >= PING_TIMEOUT /\ queued_ping # None => queued_ping.age < PING_TIMEOUT
      /\ queued_ping = None /\ (quiet >= PING_TIMEOUT \/ pending_pings = <<>>) =>
           Within(last_ping_sent, PING_INTERVAL)

(* A ping in flight was sent.                                              *)
PendingSent == last_ping_sent = None => pending_pings = <<>>

PingInv == QuietQueued /\ QuietIdle /\ QuietPending /\ PolledPings /\ PendingSent

(* Polls and time go on only while the connection is open.                 *)
OpenPhases == phase \notin {"relay", "flush"} => status = "open"

IInv ==
    /\ TypeOK /\ OpenPhases /\ GapCongested /\ OwedRequested /\ QuietSince /\ DeafSince /\ PingInv
    /\ ClosedForCause

-----------------------------------------------------------------------------
(* The constants' types, one by one.                                       *)
LEMMA Constants ==
    /\ MediaUnits \in Nat /\ PingUnits \in Nat /\ ReplyUnits \in Nat /\ InitUnits \in Nat
    /\ soft \in Nat /\ hard \in Nat /\ congestion_timeout \in Nat /\ SEND_PROGRESS_BYTES \in Nat
    /\ PING_INTERVAL \in Nat /\ PING_TIMEOUT \in Nat /\ WRITE_STALL_TIMEOUT \in Nat
    /\ MAX_PENDING_PINGS \in Nat /\ INIT_REPLAY_COOLDOWN \in Nat /\ MaxFrames \in Nat /\ MaxOut \in Nat
    /\ 0 < PING_INTERVAL /\ PING_INTERVAL < PING_TIMEOUT
    /\ 0 < WRITE_STALL_TIMEOUT /\ 0 < MAX_PENDING_PINGS
  BY PlayerLinkAssumption

LEMMA NoneDiffers ==
    None \notin {"a", "b"} /\ None \notin Nat /\ None \notin Congestion /\ None \notin Queued
  BY PlayerLinkAssumption DEF Congestion, Queued, Age

(* A ping that is answered leaves the others, one that is stale the newer. *)
LEMMA PingsLeft ==
    ASSUME NEW S, NEW s \in Seq(S)
    PROVE  /\ \A i \in DOMAIN s : SubSeq(s, 1, i - 1) \o SubSeq(s, i + 1, Len(s)) \in Seq(S)
           /\ Fresh(s) \in Seq(S)
  <1>1. ASSUME NEW i \in DOMAIN s PROVE SubSeq(s, 1, i - 1) \o SubSeq(s, i + 1, Len(s)) \in Seq(S)
    OBVIOUS
  <1>2. Cardinality(Stale(s)) \in Nat
    <2>1. IsFiniteSet(1 .. Len(s)) /\ Stale(s) \subseteq 1 .. Len(s)
      BY FS_Interval DEF Stale
    <2> QED
      BY <2>1, FS_Subset, FS_CardinalityType
  <1>3. Fresh(s) \in Seq(S)
    BY <1>2 DEF Fresh
  <1> QED
    BY <1>1, <1>3

(* An age that grows stays an age.                                         *)
LEMMA OlderAge ==
    ASSUME NEW limit \in Nat, NEW a \in Age(limit) \cup {None}
    PROVE  /\ Older(a, limit) \in Age(limit) \cup {None}
           /\ Older(a, limit) = None <=> a = None
           /\ a # None => Older(a, limit) = IF a = limit THEN a ELSE a + 1
  BY NoneDiffers DEF Older, Age

-----------------------------------------------------------------------------
(* Types.                                                                  *)

(* A decision is one of three.                                             *)
LEMMA FlowType ==
    ASSUME NEW delivery, NEW c
    PROVE  player_flow_decision(delivery, c).flow \in {"send", "skip", "disconnect"}
  BY DEF player_flow_decision

LEMMA LinkStep ==
    ASSUME LinkTypes, [Next]_vars
    PROVE  LinkTypes'
  <1> USE DEF LinkTypes
  <1>1. CASE RecvNothing
    BY <1>1 DEF RecvNothing
  <1>2. CASE RecvData
    BY <1>2 DEF RecvData, Receives
  <1>3. ASSUME NEW i \in DOMAIN pending_pings, RecvPingResponse(i) PROVE LinkTypes'
    BY <1>3 DEF RecvPingResponse, Receives
  <1>4. ASSUME NEW r \in {"a", "b"}, RecvPlay(r) PROVE LinkTypes'
    BY <1>4 DEF RecvPlay, Receives
  <1>5. ASSUME NEW flag \in BOOLEAN, RecvPause(flag) PROVE LinkTypes'
    BY <1>5 DEF RecvPause, Receives
  <1>6. CASE RecvDeleteStream
    BY <1>6 DEF RecvDeleteStream, Receives
  <1>7. ASSUME NEW cached \in BOOLEAN, Replay(cached) PROVE LinkTypes'
    BY <1>7 DEF Replay
  <1>8. ASSUME NEW delivery \in {"critical", "resync", "droppable"}, RelayFrame(delivery) PROVE LinkTypes'
    BY <1>8, FlowType DEF RelayFrame
  <1>9. ASSUME NEW n \in 0 .. MaxOut + PingUnits, SendStaged(n) PROVE LinkTypes'
    BY <1>9 DEF SendStaged
  <1>10. ASSUME NEW n \in 0 .. MaxOut + PingUnits, PingAndFlush(n) PROVE LinkTypes'
    BY <1>10 DEF PingAndFlush
  <1>11. CASE KeepAliveFails
    BY <1>11 DEF KeepAliveFails
  <1>12. CASE PollAgain
    BY <1>12 DEF PollAgain
  <1>13. CASE Clock
    BY <1>13 DEF Clock
  <1>14. CASE UNCHANGED vars
    BY <1>14 DEF vars
  <1> QED
    BY <1>1, <1>2, <1>3, <1>4, <1>5, <1>6, <1>7, <1>8, <1>9, <1>10, <1>11, <1>12, <1>13, <1>14 DEF Next

LEMMA AmountStep ==
    ASSUME AmountTypes, [Next]_vars
    PROVE  AmountTypes'
  <1> USE Constants DEF AmountTypes
  <1>1. CASE RecvNothing
    BY <1>1 DEF RecvNothing
  <1>2. CASE RecvData
    BY <1>2 DEF RecvData, Receives
  <1>3. ASSUME NEW i \in DOMAIN pending_pings, RecvPingResponse(i) PROVE AmountTypes'
    BY <1>3 DEF RecvPingResponse, Receives
  <1>4. ASSUME NEW r \in {"a", "b"}, RecvPlay(r) PROVE AmountTypes'
    BY <1>4 DEF RecvPlay, Receives
  <1>5. ASSUME NEW flag \in BOOLEAN, RecvPause(flag) PROVE AmountTypes'
    BY <1>5 DEF RecvPause, Receives
  <1>6. CASE RecvDeleteStream
    BY <1>6 DEF RecvDeleteStream, Receives
  <1>7. ASSUME NEW cached \in BOOLEAN, Replay(cached) PROVE AmountTypes'
    BY <1>7 DEF Replay
  <1>8. ASSUME NEW delivery \in {"critical", "resync", "droppable"}, RelayFrame(delivery) PROVE AmountTypes'
    <2>1. /\ frames' = frames + 1
          /\ \/ out' = out + MediaUnits /\ UNCHANGED staged_media_bytes
             \/ staged_media_bytes' = staged_media_bytes + MediaUnits /\ UNCHANGED out
             \/ UNCHANGED <<out, staged_media_bytes>>
      BY <1>8, FlowType, Zenon DEF RelayFrame
    <2> QED
      BY <2>1
  <1>9. ASSUME NEW n \in 0 .. MaxOut + PingUnits, SendStaged(n) PROVE AmountTypes'
    BY <1>9 DEF SendStaged
  <1>10. ASSUME NEW n \in 0 .. MaxOut + PingUnits, PingAndFlush(n) PROVE AmountTypes'
    <2>1. /\ out' = out + (IF SendsPing THEN PingUnits ELSE 0) - n
          /\ n <= out + (IF SendsPing THEN PingUnits ELSE 0)
          /\ UNCHANGED <<frames, staged_media_bytes>>
      BY <1>10, Zenon DEF PingAndFlush
    <2> QED
      BY <2>1
  <1>11. CASE KeepAliveFails
    BY <1>11 DEF KeepAliveFails
  <1>12. CASE PollAgain
    BY <1>12 DEF PollAgain
  <1>13. CASE Clock
    BY <1>13 DEF Clock
  <1>14. CASE UNCHANGED vars
    BY <1>14 DEF vars
  <1> QED
    BY <1>1, <1>2, <1>3, <1>4, <1>5, <1>6, <1>7, <1>8, <1>9, <1>10, <1>11, <1>12, <1>13, <1>14 DEF Next

(* The congestion a decision leaves.                                       *)
LEMMA CongestionType ==
    ASSUME AmountTypes, NEW delivery, NEW c \in Congestion \cup {None}
    PROVE  player_flow_decision(delivery, c).congestion \in Congestion \cup {None}
  <1>1. backlog \in Nat
    BY DEF backlog, AmountTypes
  <1>2. [min_backlog |-> backlog, age |-> 0] \in Congestion
    BY <1>1 DEF Congestion
  <1> QED
    BY <1>2 DEF player_flow_decision

LEMMA FlowStep ==
    ASSUME FlowTypes, AmountTypes, [Next]_vars
    PROVE  FlowTypes'
  <1> USE DEF FlowTypes
  <1>1. CASE RecvNothing
    BY <1>1 DEF RecvNothing, flowVars
  <1>2. CASE RecvData
    BY <1>2 DEF RecvData, Receives, flowVars
  <1>3. ASSUME NEW i \in DOMAIN pending_pings, RecvPingResponse(i) PROVE FlowTypes'
    BY <1>3 DEF RecvPingResponse, Receives, flowVars
  <1>4. ASSUME NEW r \in {"a", "b"}, RecvPlay(r) PROVE FlowTypes'
    BY <1>4 DEF RecvPlay, Receives, Resumed, flowVars
  <1>5. ASSUME NEW flag \in BOOLEAN, RecvPause(flag) PROVE FlowTypes'
    BY <1>5 DEF RecvPause, Receives, Resumed, flowVars
  <1>6. CASE RecvDeleteStream
    BY <1>6 DEF RecvDeleteStream, Receives, flowVars
  <1>7. ASSUME NEW cached \in BOOLEAN, Replay(cached) PROVE FlowTypes'
    BY <1>7 DEF Replay, flowVars
  <1>8. ASSUME NEW delivery \in {"critical", "resync", "droppable"}, RelayFrame(delivery)
       PROVE  FlowTypes'
    <2>1. /\ UNCHANGED <<playing, paused>>
          /\ gap' \in {"no", "skipped", gap}
          /\ relay_congestion' = player_flow_decision(delivery, relay_congestion).congestion
      BY <1>8, FlowType DEF RelayFrame
    <2> QED
      BY <2>1, CongestionType
  <1>9. ASSUME NEW n \in 0 .. MaxOut + PingUnits, SendStaged(n) PROVE FlowTypes'
    BY <1>9 DEF SendStaged, flowVars
  <1>10. ASSUME NEW n \in 0 .. MaxOut + PingUnits, PingAndFlush(n) PROVE FlowTypes'
    BY <1>10 DEF PingAndFlush, flowVars
  <1>11. CASE KeepAliveFails
    BY <1>11 DEF KeepAliveFails, flowVars
  <1>12. CASE PollAgain
    BY <1>12 DEF PollAgain, flowVars
  <1>13. CASE Clock
    <2>1. UNCHANGED <<playing, paused, gap>>
      BY <1>13 DEF Clock
    <2>2. CASE relay_congestion = None
      BY <1>13, <2>1, <2>2 DEF Clock
    <2>3. CASE relay_congestion # None
      <3>1. relay_congestion \in Congestion /\ Older(relay_congestion.age, congestion_timeout) \in Nat
        BY <2>3, Constants DEF Congestion, Older
      <3>2. relay_congestion' =
              [relay_congestion EXCEPT !.age = Older(relay_congestion.age, congestion_timeout)]
        BY <1>13, <2>3 DEF Clock
      <3> QED
        BY <2>1, <3>1, <3>2 DEF Congestion
    <2> QED
      BY <2>2, <2>3
  <1>14. CASE UNCHANGED vars
    BY <1>14 DEF vars, flowVars
  <1> QED
    BY <1>1, <1>2, <1>3, <1>4, <1>5, <1>6, <1>7, <1>8, <1>9, <1>10, <1>11, <1>12, <1>13, <1>14 DEF Next

(* The request that a deferral or a replay leaves.                         *)
LEMMA RearmedType ==
    ASSUME NEW needs \in BOOLEAN, NEW request \in Age(INIT_REPLAY_COOLDOWN) \cup {None}
    PROVE  Rearmed(needs, request) \in
             [needs : BOOLEAN, deferred : BOOLEAN, request : Age(INIT_REPLAY_COOLDOWN) \cup {None}]
  BY Constants DEF Rearmed, Age

LEMMA ReplayStep ==
    ASSUME ReplayTypes, [Next]_vars
    PROVE  ReplayTypes'
  <1> USE DEF ReplayTypes
  <1>1. CASE RecvNothing
    BY <1>1 DEF RecvNothing, replayVars
  <1>2. CASE RecvData
    BY <1>2 DEF RecvData, Receives, replayVars
  <1>3. ASSUME NEW i \in DOMAIN pending_pings, RecvPingResponse(i) PROVE ReplayTypes'
    BY <1>3 DEF RecvPingResponse, Receives, replayVars
  <1>4. ASSUME NEW r \in {"a", "b"}, RecvPlay(r) PROVE ReplayTypes'
    <2>1. UNCHANGED replayVars \/ (owed' = 0 /\ RequestInitReplay)
      BY <1>4, Zenon DEF RecvPlay
    <2>2. 0 \in Age(INIT_REPLAY_COOLDOWN) /\ 0 \in Nat
      BY Constants DEF Age
    <2>3. \/ UNCHANGED replayVars
          \/ /\ owed' = 0 /\ init_replay_deferred' \in BOOLEAN
             /\ needs_init_frames' \in {TRUE, needs_init_frames}
             /\ last_init_replay_request' \in {0, last_init_replay_request}
      BY <2>1 DEF RequestInitReplay
    <2> QED
      BY <2>2, <2>3, Zenon DEF replayVars
  <1>5. ASSUME NEW flag \in BOOLEAN, RecvPause(flag) PROVE ReplayTypes'
    BY <1>5 DEF RecvPause, Receives, replayVars
  <1>6. CASE RecvDeleteStream
    BY <1>6 DEF RecvDeleteStream, Receives, replayVars
  <1>7. ASSUME NEW cached \in BOOLEAN, Replay(cached) PROVE ReplayTypes'
    <2> DEFINE r == IF init_replay_deferred THEN Rearmed(needs_init_frames, last_init_replay_request)
                    ELSE [needs |-> needs_init_frames, deferred |-> FALSE,
                          request |-> last_init_replay_request]
    <2>1. r \in [needs : BOOLEAN, deferred : BOOLEAN, request : Age(INIT_REPLAY_COOLDOWN) \cup {None}]
      BY RearmedType
    <2>2. /\ needs_init_frames' = (r.needs /\ ~(r.needs /\ playing # None))
          /\ init_replay_deferred' = r.deferred
          /\ last_init_replay_request' = r.request
          /\ owed' \in {None, owed}
      BY <1>7 DEF Replay
    <2> QED
      BY <2>1, <2>2
  <1>8. ASSUME NEW delivery \in {"critical", "resync", "droppable"}, RelayFrame(delivery)
       PROVE  ReplayTypes'
    BY <1>8 DEF RelayFrame, replayVars
  <1>9. ASSUME NEW n \in 0 .. MaxOut + PingUnits, SendStaged(n) PROVE ReplayTypes'
    BY <1>9 DEF SendStaged, replayVars
  <1>10. ASSUME NEW n \in 0 .. MaxOut + PingUnits, PingAndFlush(n) PROVE ReplayTypes'
    BY <1>10 DEF PingAndFlush, replayVars
  <1>11. CASE KeepAliveFails
    BY <1>11 DEF KeepAliveFails, replayVars
  <1>12. CASE PollAgain
    BY <1>12 DEF PollAgain, replayVars
  <1>13. CASE Clock
    <2>1. last_init_replay_request' \in Age(INIT_REPLAY_COOLDOWN) \cup {None}
      BY <1>13, OlderAge, Constants DEF Clock
    <2>2. owed' \in Nat \cup {None}
      BY <1>13 DEF Clock, Older
    <2> QED
      BY <1>13, <2>1, <2>2 DEF Clock
  <1>14. CASE UNCHANGED vars
    BY <1>14 DEF vars, replayVars
  <1> QED
    BY <1>1, <1>2, <1>3, <1>4, <1>5, <1>6, <1>7, <1>8, <1>9, <1>10, <1>11, <1>12, <1>13, <1>14 DEF Next

(* A queued ping moves on as bytes leave.                                  *)
LEMMA QueuedFlushed ==
    ASSUME NEW q \in Queued, NEW n \in Nat
    PROVE  /\ [q EXCEPT !.left = IF q.left > n THEN q.left - n ELSE 0] \in Queued
           /\ [q EXCEPT !.left = IF q.left > n THEN q.left - n ELSE 0].age = q.age
  <1>1. (IF q.left > n THEN q.left - n ELSE 0) \in Nat
    BY DEF Queued
  <1> QED
    BY <1>1 DEF Queued

LEMMA PingStep ==
    ASSUME PingTypes, AmountTypes, [Next]_vars
    PROVE  PingTypes'
  <1> USE DEF PingTypes
  <1>1. CASE RecvNothing
    BY <1>1 DEF RecvNothing, pingVars
  <1>2. CASE RecvData
    BY <1>2 DEF RecvData, Receives, pingVars
  <1>3. ASSUME NEW i \in DOMAIN pending_pings, RecvPingResponse(i) PROVE PingTypes'
    BY <1>3, PingsLeft DEF RecvPingResponse, Receives, pingVars, pingVars
  <1>4. ASSUME NEW r \in {"a", "b"}, RecvPlay(r) PROVE PingTypes'
    BY <1>4 DEF RecvPlay, Receives, pingVars
  <1>5. ASSUME NEW flag \in BOOLEAN, RecvPause(flag) PROVE PingTypes'
    BY <1>5 DEF RecvPause, Receives, pingVars
  <1>6. CASE RecvDeleteStream
    BY <1>6 DEF RecvDeleteStream, Receives, pingVars
  <1>7. ASSUME NEW cached \in BOOLEAN, Replay(cached) PROVE PingTypes'
    BY <1>7 DEF Replay, pingVars
  <1>8. ASSUME NEW delivery \in {"critical", "resync", "droppable"}, RelayFrame(delivery)
       PROVE  PingTypes'
    BY <1>8 DEF RelayFrame, pingVars
  <1>9. ASSUME NEW n \in 0 .. MaxOut + PingUnits, SendStaged(n) PROVE PingTypes'
    <2>1. UNCHANGED <<pending_pings, last_ping_sent>>
      BY <1>9 DEF SendStaged
    <2>2. \/ UNCHANGED queued_ping
          \/ /\ queued_ping # None
             /\ queued_ping' = 
                  [queued_ping EXCEPT !.left = IF queued_ping.left > n THEN queued_ping.left - n ELSE 0]
      BY <1>9 DEF SendStaged
    <2>3. n \in Nat
      BY Constants
    <2>4. queued_ping' \in Queued \cup {None}
      BY <2>2, <2>3, QueuedFlushed
    <2> QED
      BY <2>1, <2>4
  <1>10. ASSUME NEW n \in 0 .. MaxOut + PingUnits, PingAndFlush(n) PROVE PingTypes'
    <2> DEFINE queued == IF SendsPing THEN [age |-> 0, left |-> out + PingUnits] ELSE queued_ping
               pings == IF PingDue THEN Kept ELSE pending_pings
               flushed(q) == IF q.left > n THEN q.left - n ELSE 0
    <2>1. pings \in Seq(Age(PING_TIMEOUT))
      BY PingsLeft DEF Kept
    <2>2. queued \in Queued \cup {None}
      BY Constants DEF Queued, Age, AmountTypes
    <2>3. \/ queued_ping' = None /\ pending_pings' = Append(pings, 0) /\ last_ping_sent' = 0
          \/ /\ queued_ping' = IF queued = None THEN None ELSE [queued EXCEPT !.left = flushed(queued)]
             /\ pending_pings' = pings /\ UNCHANGED last_ping_sent
      BY <1>10, Zenon DEF PingAndFlush
    <2> HIDE DEF queued, pings
    <2>4. queued # None => [queued EXCEPT !.left = flushed(queued)] \in Queued
      <3>1. n \in Nat
        BY Constants
      <3> QED
        BY <2>2, <3>1, QueuedFlushed
    <2>5. queued_ping' \in Queued \cup {None}
      BY <2>3, <2>4
    <2>6. pending_pings' \in Seq(Age(PING_TIMEOUT)) /\ last_ping_sent' \in Age(PING_INTERVAL) \cup {None}
      <3>1. 0 \in Age(PING_TIMEOUT) /\ 0 \in Age(PING_INTERVAL)
        BY Constants DEF Age
      <3>2. Append(pings, 0) \in Seq(Age(PING_TIMEOUT))
        BY <2>1, <3>1
      <3> QED
        BY <2>1, <2>3, <3>1, <3>2, Zenon
    <2> QED
      BY <2>5, <2>6
  <1>11. CASE KeepAliveFails
    BY <1>11 DEF KeepAliveFails, pingVars
  <1>12. CASE PollAgain
    BY <1>12 DEF PollAgain, pingVars
  <1>13. CASE Clock
    <2>1. last_ping_sent' \in Age(PING_INTERVAL) \cup {None}
      BY <1>13, OlderAge, Constants DEF Clock
    <2>2. queued_ping' \in Queued \cup {None}
      <3>1. CASE queued_ping = None
        BY <1>13, <3>1 DEF Clock
      <3>2. CASE queued_ping # None
        <4>1. queued_ping \in Queued /\ Older(queued_ping.age, PING_TIMEOUT) \in Age(PING_TIMEOUT)
          BY <3>2, OlderAge, Constants, NoneDiffers DEF Queued, Age, Older
        <4>2. queued_ping' = [queued_ping EXCEPT !.age = Older(queued_ping.age, PING_TIMEOUT)]
          BY <1>13, <3>2 DEF Clock
        <4> QED
          BY <4>1, <4>2 DEF Queued
      <3> QED
        BY <3>1, <3>2
    <2>3. pending_pings' \in Seq(Age(PING_TIMEOUT))
      <3>1. pending_pings' = [i \in 1 .. Len(pending_pings) |-> Older(pending_pings[i], PING_TIMEOUT)]
        BY <1>13 DEF Clock
      <3>2. \A i \in 1 .. Len(pending_pings) : Older(pending_pings[i], PING_TIMEOUT) \in Age(PING_TIMEOUT)
        BY Constants DEF Older, Age
      <3> QED
        BY <3>1, <3>2
    <2> QED
      BY <2>1, <2>2, <2>3
  <1>14. CASE UNCHANGED vars
    BY <1>14 DEF vars, pingVars
  <1> QED
    BY <1>1, <1>2, <1>3, <1>4, <1>5, <1>6, <1>7, <1>8, <1>9, <1>10, <1>11, <1>12, <1>13, <1>14 DEF Next

(* What a write leaves of the progress.                                    *)
LEMMA WroteTypes ==
    ASSUME ProgressTypes, NEW n \in Nat, NEW left, NEW stalls \in BOOLEAN, Wrote(n, left, stalls)
    PROVE  /\ send_progress_bytes' \in Nat
           /\ last_send_progress' \in {0, last_send_progress}
           /\ send_stalled_since' \in {0, None, send_stalled_since}
           /\ deaf' \in {0, deaf}
  <1>1. send_progress_bytes' \in {0, send_progress_bytes + n}
    BY DEF Wrote
  <1>2. send_progress_bytes' \in Nat
    BY <1>1 DEF ProgressTypes
  <1>3. last_send_progress' \in {0, last_send_progress} /\ deaf' \in {0, deaf}
    BY DEF Wrote
  <1>4. send_stalled_since' \in {0, None, send_stalled_since}
    BY DEF Wrote
  <1> QED
    BY <1>2, <1>3, <1>4

LEMMA ProgressStep ==
    ASSUME ProgressTypes, [Next]_vars
    PROVE  ProgressTypes'
  <1> USE DEF ProgressTypes
  <1>1. CASE RecvNothing
    BY <1>1 DEF RecvNothing, progressVars
  <1>2. CASE RecvData
    BY <1>2, Constants DEF RecvData, Receives, Age, progressVars
  <1>3. ASSUME NEW i \in DOMAIN pending_pings, RecvPingResponse(i) PROVE ProgressTypes'
    BY <1>3, Constants DEF RecvPingResponse, Receives, Age, progressVars
  <1>4. ASSUME NEW r \in {"a", "b"}, RecvPlay(r) PROVE ProgressTypes'
    BY <1>4, Constants DEF RecvPlay, Receives, Age, progressVars
  <1>5. ASSUME NEW flag \in BOOLEAN, RecvPause(flag) PROVE ProgressTypes'
    BY <1>5, Constants DEF RecvPause, Receives, Age, progressVars
  <1>6. CASE RecvDeleteStream
    BY <1>6, Constants DEF RecvDeleteStream, Receives, Age, progressVars
  <1>7. ASSUME NEW cached \in BOOLEAN, Replay(cached) PROVE ProgressTypes'
    BY <1>7 DEF Replay, progressVars
  <1>8. ASSUME NEW delivery \in {"critical", "resync", "droppable"}, RelayFrame(delivery)
       PROVE  ProgressTypes'
    BY <1>8 DEF RelayFrame, progressVars
  <1>9. ASSUME NEW n \in 0 .. MaxOut + PingUnits, SendStaged(n) PROVE ProgressTypes'
    <2>0. n \in Nat
      BY Constants
    <2>1. last_recv_progress' = last_recv_progress
      BY <1>9 DEF SendStaged
    <2>2. \/ UNCHANGED <<progressVars, quiet, deaf>>
          \/ Wrote(n, out', FALSE) /\ quiet' \in {0, quiet}
      BY <1>9 DEF SendStaged
    <2>3. CASE UNCHANGED <<progressVars, quiet, deaf>>
      BY <2>1, <2>3 DEF progressVars
    <2>4. CASE Wrote(n, out', FALSE) /\ quiet' \in {0, quiet}
      <3>1. /\ send_progress_bytes' \in Nat /\ last_send_progress' \in {0, last_send_progress}
            /\ send_stalled_since' \in {0, None, send_stalled_since} /\ deaf' \in {0, deaf}
        BY <2>0, <2>4, WroteTypes
      <3>2. 0 \in Age(PING_TIMEOUT) /\ 0 \in Age(WRITE_STALL_TIMEOUT)
        BY Constants DEF Age
      <3> QED
        BY <2>1, <2>4, <3>1, <3>2
    <2> QED
      BY <2>2, <2>3, <2>4
  <1>10. ASSUME NEW n \in 0 .. MaxOut + PingUnits, PingAndFlush(n) PROVE ProgressTypes'
    <2>0. n \in Nat
      BY Constants
    <2>1. last_recv_progress' = last_recv_progress
      BY <1>10 DEF PingAndFlush
    <2>2. \/ UNCHANGED <<progressVars, quiet, deaf>>
          \/ Wrote(n, out', TRUE) /\ quiet' \in {0, quiet}
      <3> DEFINE ping == IF SendsPing THEN PingUnits ELSE 0
      <3>1. IF out + ping = 0 THEN UNCHANGED <<progressVars, deaf, quiet>>
            ELSE /\ Wrote(n, out', TRUE)
                 /\ quiet' = IF last_send_progress' = 0 THEN 0 ELSE quiet
        BY <1>10 DEF PingAndFlush
      <3> HIDE DEF ping
      <3> QED
        BY <3>1
    <2>3. CASE UNCHANGED <<progressVars, quiet, deaf>>
      BY <2>1, <2>3 DEF progressVars
    <2>4. CASE Wrote(n, out', TRUE) /\ quiet' \in {0, quiet}
      <3>1. /\ send_progress_bytes' \in Nat /\ last_send_progress' \in {0, last_send_progress}
            /\ send_stalled_since' \in {0, None, send_stalled_since} /\ deaf' \in {0, deaf}
        BY <2>0, <2>4, WroteTypes
      <3>2. 0 \in Age(PING_TIMEOUT) /\ 0 \in Age(WRITE_STALL_TIMEOUT)
        BY Constants DEF Age
      <3> QED
        BY <2>1, <2>4, <3>1, <3>2
    <2> QED
      BY <2>2, <2>3, <2>4
  <1>11. CASE KeepAliveFails
    BY <1>11 DEF KeepAliveFails, progressVars
  <1>12. CASE PollAgain
    BY <1>12 DEF PollAgain, progressVars
  <1>13. CASE Clock
    <2>1. /\ last_send_progress' \in Age(PING_TIMEOUT) \cup {None}
          /\ send_stalled_since' \in Age(WRITE_STALL_TIMEOUT) \cup {None}
      BY <1>13, OlderAge, Constants DEF Clock
    <2>2. last_recv_progress' \in Age(PING_TIMEOUT)
      BY <1>13, Constants DEF Clock, Older, Age
    <2>3. quiet' \in Nat /\ deaf' \in Nat
      BY <1>13 DEF Clock, Older
    <2> QED
      BY <1>13, <2>1, <2>2, <2>3 DEF Clock
  <1>14. CASE UNCHANGED vars
    BY <1>14 DEF vars, progressVars
  <1> QED
    BY <1>1, <1>2, <1>3, <1>4, <1>5, <1>6, <1>7, <1>8, <1>9, <1>10, <1>11, <1>12, <1>13, <1>14 DEF Next

-----------------------------------------------------------------------------
(* The parts of the invariant.                                             *)

LEMMA OpenStep ==
    ASSUME LinkTypes, OpenPhases, [Next]_vars
    PROVE  OpenPhases'
  <1> USE DEF OpenPhases, LinkTypes
  <1>1. CASE RecvNothing
    BY <1>1 DEF RecvNothing
  <1>2. CASE RecvData
    BY <1>2 DEF RecvData, Receives
  <1>3. ASSUME NEW i \in DOMAIN pending_pings, RecvPingResponse(i) PROVE OpenPhases'
    BY <1>3 DEF RecvPingResponse, Receives
  <1>4. ASSUME NEW r \in {"a", "b"}, RecvPlay(r) PROVE OpenPhases'
    BY <1>4 DEF RecvPlay, Receives
  <1>5. ASSUME NEW flag \in BOOLEAN, RecvPause(flag) PROVE OpenPhases'
    BY <1>5 DEF RecvPause, Receives
  <1>6. CASE RecvDeleteStream
    BY <1>6 DEF RecvDeleteStream, Receives
  <1>7. ASSUME NEW cached \in BOOLEAN, Replay(cached) PROVE OpenPhases'
    BY <1>7 DEF Replay
  <1>8. ASSUME NEW delivery \in {"critical", "resync", "droppable"}, RelayFrame(delivery)
       PROVE  OpenPhases'
    BY <1>8 DEF RelayFrame
  <1>9. ASSUME NEW n \in 0 .. MaxOut + PingUnits, SendStaged(n) PROVE OpenPhases'
    BY <1>9 DEF SendStaged
  <1>10. ASSUME NEW n \in 0 .. MaxOut + PingUnits, PingAndFlush(n) PROVE OpenPhases'
    BY <1>10 DEF PingAndFlush
  <1>11. CASE KeepAliveFails
    BY <1>11 DEF KeepAliveFails
  <1>12. CASE PollAgain
    BY <1>12 DEF PollAgain
  <1>13. CASE Clock
    BY <1>13 DEF Clock
  <1>14. CASE UNCHANGED vars
    BY <1>14 DEF vars
  <1> QED
    BY <1>1, <1>2, <1>3, <1>4, <1>5, <1>6, <1>7, <1>8, <1>9, <1>10, <1>11, <1>12, <1>13, <1>14 DEF Next

(* With a gap open, a frame that is sent is critical or a resync point,    *)
(* and only the latter ends the congestion; a skip leaves the player       *)
(* congested.                                                              *)
LEMMA GapDecision ==
    ASSUME AmountTypes, NEW delivery \in {"critical", "resync", "droppable"}, NEW c
    PROVE  LET d == player_flow_decision(delivery, c)
           IN  /\ c # None /\ soft # 0 /\ delivery = "droppable" => d.flow # "send"
               /\ c # None /\ soft # 0 /\ d.congestion = None => delivery = "resync" /\ d.flow = "send"
               /\ d.flow = "skip" => d.congestion # None /\ soft # 0
  <1>1. backlog \in Nat
    BY DEF backlog, AmountTypes
  <1>2. [min_backlog |-> backlog, age |-> 0] \in Congestion
    BY <1>1 DEF Congestion
  <1>3. [min_backlog |-> backlog, age |-> 0] # None
    BY <1>2, NoneDiffers
  <1> QED
    BY <1>3 DEF player_flow_decision

LEMMA GapStep ==
    ASSUME FlowTypes, AmountTypes, GapCongested, [Next]_vars
    PROVE  GapCongested'
  <1> USE DEF GapCongested
  <1>1. CASE RecvNothing
    BY <1>1 DEF RecvNothing, flowVars
  <1>2. CASE RecvData
    BY <1>2 DEF RecvData, Receives, flowVars
  <1>3. ASSUME NEW i \in DOMAIN pending_pings, RecvPingResponse(i) PROVE GapCongested'
    BY <1>3 DEF RecvPingResponse, Receives, flowVars
  <1>4. ASSUME NEW r \in {"a", "b"}, RecvPlay(r) PROVE GapCongested'
    BY <1>4 DEF RecvPlay, Receives, Resumed, flowVars
  <1>5. ASSUME NEW flag \in BOOLEAN, RecvPause(flag) PROVE GapCongested'
    BY <1>5 DEF RecvPause, Receives, Resumed, flowVars
  <1>6. CASE RecvDeleteStream
    BY <1>6 DEF RecvDeleteStream, Receives, flowVars
  <1>7. ASSUME NEW cached \in BOOLEAN, Replay(cached) PROVE GapCongested'
    BY <1>7 DEF Replay, flowVars
  <1>8. ASSUME NEW delivery \in {"critical", "resync", "droppable"}, RelayFrame(delivery)
       PROVE  GapCongested'
    <2> DEFINE d == player_flow_decision(delivery, relay_congestion)
    <2>1. relay_congestion' = d.congestion
      BY <1>8 DEF RelayFrame
    <2>2. \/ d.flow = "send" /\ gap' = IF delivery = "resync" THEN "no" ELSE gap
          \/ d.flow = "skip" /\ gap' = "skipped"
          \/ d.flow = "disconnect" /\ gap' = gap
      BY <1>8, FlowType DEF RelayFrame
    <2> QED
      BY <2>1, <2>2, GapDecision
  <1>9. ASSUME NEW n \in 0 .. MaxOut + PingUnits, SendStaged(n) PROVE GapCongested'
    BY <1>9 DEF SendStaged, flowVars
  <1>10. ASSUME NEW n \in 0 .. MaxOut + PingUnits, PingAndFlush(n) PROVE GapCongested'
    BY <1>10 DEF PingAndFlush, flowVars
  <1>11. CASE KeepAliveFails
    BY <1>11 DEF KeepAliveFails, flowVars
  <1>12. CASE PollAgain
    BY <1>12 DEF PollAgain, flowVars
  <1>13. CASE Clock
    <2>1. gap' = gap
      BY <1>13 DEF Clock
    <2>2. CASE relay_congestion = None
      BY <2>1, <2>2
    <2>3. CASE relay_congestion # None
      <3>1. relay_congestion' \in Congestion
        BY <1>13, <2>3 DEF Clock, FlowTypes, Congestion, Older
      <3> QED
        BY <2>1, <2>3, <3>1, NoneDiffers
    <2> QED
      BY <2>2, <2>3
  <1>14. CASE UNCHANGED vars
    BY <1>14 DEF vars, flowVars
  <1> QED
    BY <1>1, <1>2, <1>3, <1>4, <1>5, <1>6, <1>7, <1>8, <1>9, <1>10, <1>11, <1>12, <1>13, <1>14 DEF Next

LEMMA OwedStep ==
    ASSUME ReplayTypes, FlowTypes, OwedRequested, [Next]_vars
    PROVE  OwedRequested'
  <1> USE DEF OwedRequested
  <1>1. CASE RecvNothing
    BY <1>1 DEF RecvNothing, replayVars, flowVars
  <1>2. CASE RecvData
    BY <1>2 DEF RecvData, Receives, replayVars, flowVars
  <1>3. ASSUME NEW i \in DOMAIN pending_pings, RecvPingResponse(i) PROVE OwedRequested'
    BY <1>3 DEF RecvPingResponse, Receives, replayVars, flowVars
  <1>4. ASSUME NEW r \in {"a", "b"}, RecvPlay(r) PROVE OwedRequested'
    <2>1. phase' = "replay" /\ playing' = r
      BY <1>4 DEF RecvPlay, Receives
    <2>2. r # None
      BY NoneDiffers
    <2>3. CASE playing = r
      <3>1. UNCHANGED replayVars
        BY <1>4, <2>3 DEF RecvPlay
      <3> QED
        BY <2>1, <2>2, <3>1, <2>3 DEF replayVars
    <2>4. CASE playing # r
      <3>1. owed' = 0 /\ RequestInitReplay
        BY <1>4, <2>4 DEF RecvPlay
      <3>2. CASE Within(last_init_replay_request, INIT_REPLAY_COOLDOWN)
        <4>1. init_replay_deferred' = TRUE /\ UNCHANGED <<needs_init_frames, last_init_replay_request>>
          BY <3>1, <3>2 DEF RequestInitReplay
        <4>2. last_init_replay_request # None /\ 0 <= last_init_replay_request
          BY <3>2, Constants DEF Within, ReplayTypes, Age
        <4> QED
          BY <2>1, <2>2, <3>1, <4>1, <4>2
      <3>3. CASE ~Within(last_init_replay_request, INIT_REPLAY_COOLDOWN)
        <4>1. last_init_replay_request' = 0 /\ needs_init_frames' = TRUE
          BY <3>1, <3>3 DEF RequestInitReplay
        <4>2. 0 # None
          BY NoneDiffers
        <4> QED
          BY <2>1, <2>2, <3>1, <4>1, <4>2
      <3> QED
        BY <3>2, <3>3
    <2> QED
      BY <2>3, <2>4
  <1>5. ASSUME NEW flag \in BOOLEAN, RecvPause(flag) PROVE OwedRequested'
    BY <1>5 DEF RecvPause, Receives, replayVars, flowVars
  <1>6. CASE RecvDeleteStream
    BY <1>6 DEF RecvDeleteStream, Receives, replayVars, flowVars
  <1>7. ASSUME NEW cached \in BOOLEAN, Replay(cached) PROVE OwedRequested'
    <2> DEFINE r == IF init_replay_deferred THEN Rearmed(needs_init_frames, last_init_replay_request)
                    ELSE [needs |-> needs_init_frames, deferred |-> FALSE,
                          request |-> last_init_replay_request]
    <2>1. /\ owed' = IF r.needs /\ playing # None THEN None ELSE owed
          /\ init_replay_deferred' = r.deferred /\ last_init_replay_request' = r.request
          /\ playing' = playing
      BY <1>7 DEF Replay, flowVars
    <2>2. SUFFICES ASSUME owed' # None PROVE OwedRequested'
      BY <2>1
    <2>3. owed' = owed /\ playing # None /\ ~r.needs
      BY <2>1, <2>2
    <2>4. init_replay_deferred /\ ~needs_init_frames
      BY <2>2, <2>3 DEF ReplayTypes, Rearmed
    <2>5. /\ Within(last_init_replay_request, INIT_REPLAY_COOLDOWN)
          /\ r = [needs |-> FALSE, deferred |-> TRUE, request |-> last_init_replay_request]
      BY <2>3, <2>4 DEF ReplayTypes, Rearmed
    <2>6. init_replay_deferred' = TRUE /\ last_init_replay_request' = last_init_replay_request
      BY <2>1, <2>5
    <2> QED
      BY <2>1, <2>2, <2>3, <2>5, <2>6 DEF Within
  <1>8. ASSUME NEW delivery \in {"critical", "resync", "droppable"}, RelayFrame(delivery)
       PROVE  OwedRequested'
    BY <1>8 DEF RelayFrame, replayVars, flowVars
  <1>9. ASSUME NEW n \in 0 .. MaxOut + PingUnits, SendStaged(n) PROVE OwedRequested'
    BY <1>9 DEF SendStaged, replayVars, flowVars
  <1>10. ASSUME NEW n \in 0 .. MaxOut + PingUnits, PingAndFlush(n) PROVE OwedRequested'
    BY <1>10 DEF PingAndFlush, replayVars, flowVars
  <1>11. CASE KeepAliveFails
    BY <1>11 DEF KeepAliveFails, replayVars, flowVars
  <1>12. CASE PollAgain
    BY <1>12 DEF PollAgain, replayVars, flowVars
  <1>13. CASE Clock
    <2>1. phase' = "idle" /\ UNCHANGED <<playing, needs_init_frames, init_replay_deferred>>
      BY <1>13 DEF Clock
    <2>2. CASE owed = None
      <3>1. owed' = None
        BY <1>13, <2>2 DEF Clock, Older
      <3> QED
        BY <3>1
    <2>3. CASE owed # None
      <3>1. last_init_replay_request # None /\ last_init_replay_request < INIT_REPLAY_COOLDOWN
        BY <1>13, <2>3 DEF Clock
      <3>2. last_init_replay_request \in Nat
        BY <3>1 DEF ReplayTypes, Age
      <3>3. last_init_replay_request' = last_init_replay_request + 1
        BY <1>13, <3>1, <3>2, Constants DEF Clock, Older
      <3>4. owed \in Nat /\ owed' \in {owed, owed + 1}
        BY <1>13, <2>3 DEF Clock, Older, ReplayTypes
      <3>5. owed' <= last_init_replay_request' /\ last_init_replay_request' \in Nat
        BY <2>3, <3>2, <3>3, <3>4
      <3> QED
        BY <2>1, <2>3, <3>5, NoneDiffers
    <2> QED
      BY <2>2, <2>3
  <1>14. CASE UNCHANGED vars
    BY <1>14 DEF vars, replayVars, flowVars
  <1> QED
    BY <1>1, <1>2, <1>3, <1>4, <1>5, <1>6, <1>7, <1>8, <1>9, <1>10, <1>11, <1>12, <1>13, <1>14 DEF Next

(* A message from the peer, and a write to it.                             *)
LEMMA QuietReceives ==
    ASSUME ProgressTypes, NEW reply, Receives(reply)
    PROVE  QuietSince'
  <1>1. last_recv_progress' = 0 /\ quiet' = 0 /\ last_send_progress' = last_send_progress
    BY DEF Receives, progressVars
  <1>2. last_send_progress # None => 0 <= last_send_progress
    BY DEF ProgressTypes, Age
  <1> QED
    BY <1>1, <1>2 DEF QuietSince, Within

LEMMA QuietWrote ==
    ASSUME ProgressTypes, QuietSince, last_recv_progress' = last_recv_progress,
           last_send_progress' \in {0, last_send_progress},
           quiet' = (IF last_send_progress' = 0 THEN 0 ELSE quiet)
    PROVE  QuietSince'
  <1>1. last_recv_progress \in Nat /\ 0 # None
    BY NoneDiffers DEF ProgressTypes, Age
  <1>2. CASE last_send_progress' = 0
    BY <1>1, <1>2 DEF QuietSince, Within
  <1>3. CASE last_send_progress' # 0
    <2>1. last_send_progress' = last_send_progress /\ quiet' = quiet
      BY <1>3
    <2> QED
      BY <2>1 DEF QuietSince
  <1> QED
    BY <1>2, <1>3

LEMMA QuietSinceStep ==
    ASSUME ProgressTypes, QuietSince, [Next]_vars
    PROVE  QuietSince'
  <1>1. CASE RecvNothing
    BY <1>1 DEF RecvNothing, QuietSince, progressVars
  <1>2. CASE RecvData
    BY <1>2, QuietReceives DEF RecvData, Receives, progressVars
  <1>3. ASSUME NEW i \in DOMAIN pending_pings, RecvPingResponse(i) PROVE QuietSince'
    BY <1>3, QuietReceives DEF RecvPingResponse, Receives, progressVars
  <1>4. ASSUME NEW r \in {"a", "b"}, RecvPlay(r) PROVE QuietSince'
    BY <1>4, QuietReceives DEF RecvPlay, Receives, progressVars
  <1>5. ASSUME NEW flag \in BOOLEAN, RecvPause(flag) PROVE QuietSince'
    BY <1>5, QuietReceives DEF RecvPause, Receives, progressVars
  <1>6. CASE RecvDeleteStream
    BY <1>6, QuietReceives DEF RecvDeleteStream, Receives, progressVars
  <1>7. ASSUME NEW cached \in BOOLEAN, Replay(cached) PROVE QuietSince'
    BY <1>7 DEF Replay, QuietSince, progressVars
  <1>8. ASSUME NEW delivery \in {"critical", "resync", "droppable"}, RelayFrame(delivery)
       PROVE  QuietSince'
    BY <1>8 DEF RelayFrame, QuietSince, progressVars
  <1>9. ASSUME NEW n \in 0 .. MaxOut + PingUnits, SendStaged(n) PROVE QuietSince'
    <2>1. last_recv_progress' = last_recv_progress
      BY <1>9 DEF SendStaged
    <2>2. \/ UNCHANGED <<last_send_progress, quiet>>
          \/ /\ last_send_progress' \in {0, last_send_progress}
             /\ quiet' = IF last_send_progress' = 0 THEN 0 ELSE quiet
      BY <1>9 DEF SendStaged, Wrote, progressVars
    <2>3. CASE UNCHANGED <<last_send_progress, quiet>>
      BY <2>1, <2>3 DEF QuietSince
    <2> QED
      BY <2>1, <2>2, <2>3, QuietWrote
  <1>10. ASSUME NEW n \in 0 .. MaxOut + PingUnits, PingAndFlush(n) PROVE QuietSince'
    <2>1. last_recv_progress' = last_recv_progress
      BY <1>10 DEF PingAndFlush
    <2>2. \/ UNCHANGED <<last_send_progress, quiet>>
          \/ /\ last_send_progress' \in {0, last_send_progress}
             /\ quiet' = IF last_send_progress' = 0 THEN 0 ELSE quiet
      BY <1>10 DEF PingAndFlush, Wrote, progressVars
    <2>3. CASE UNCHANGED <<last_send_progress, quiet>>
      BY <2>1, <2>3 DEF QuietSince
    <2> QED
      BY <2>1, <2>2, <2>3, QuietWrote
  <1>11. CASE KeepAliveFails
    BY <1>11 DEF KeepAliveFails, QuietSince, progressVars
  <1>12. CASE PollAgain
    BY <1>12 DEF PollAgain, QuietSince, progressVars
  <1>13. CASE Clock
    <2>1. /\ last_recv_progress \in Nat /\ last_recv_progress <= PING_TIMEOUT
          /\ last_send_progress # None => last_send_progress \in Nat /\ last_send_progress <= PING_TIMEOUT
          /\ quiet \in Nat
      BY Constants DEF ProgressTypes, Age
    <2>2. last_recv_progress' = IF last_recv_progress = PING_TIMEOUT THEN PING_TIMEOUT
                                ELSE last_recv_progress + 1
      BY <1>13, <2>1, NoneDiffers DEF Clock, Older
    <2>3. /\ last_send_progress = None => last_send_progress' = None
          /\ last_send_progress # None =>
               last_send_progress' = IF last_send_progress = PING_TIMEOUT THEN PING_TIMEOUT
                                     ELSE last_send_progress + 1
      BY <1>13 DEF Clock, Older
    <2>4. quiet' = quiet + 1 \/ (quiet' = quiet /\ quiet = DeadAfter + 1)
      BY <1>13, <2>1, NoneDiffers DEF Clock, Older
    <2>5. DeadAfter + 1 >= PING_TIMEOUT
      BY Constants DEF DeadAfter
    <2>6. last_send_progress # None => last_send_progress' # None
      BY <2>1, <2>3, Constants, NoneDiffers
    <2>7. last_recv_progress' < PING_TIMEOUT => quiet' <= last_recv_progress'
      BY <2>1, <2>2, <2>4, Constants DEF QuietSince
    <2>8. last_send_progress' # None /\ last_send_progress' < PING_TIMEOUT => quiet' <= last_send_progress'
      BY <2>1, <2>3, <2>4, Constants DEF QuietSince, Within
    <2>9. \/ quiet' >= last_recv_progress'
          \/ last_send_progress' # None /\ quiet' >= last_send_progress'
      <3>1. quiet >= last_recv_progress => quiet' >= last_recv_progress'
        BY <2>1, <2>2, <2>4, <2>5, Constants DEF DeadAfter
      <3>2. last_send_progress # None /\ quiet >= last_send_progress => quiet' >= last_send_progress'
        BY <2>1, <2>3, <2>4, <2>5, Constants DEF DeadAfter
      <3> QED
        BY <2>6, <3>1, <3>2 DEF QuietSince
    <2> QED
      BY <2>7, <2>8, <2>9 DEF QuietSince, Within
  <1>14. CASE UNCHANGED vars
    BY <1>14 DEF vars, QuietSince, progressVars
  <1> QED
    BY <1>1, <1>2, <1>3, <1>4, <1>5, <1>6, <1>7, <1>8, <1>9, <1>10, <1>11, <1>12, <1>13, <1>14 DEF Next

(* More to send changes nothing of the stall, except at the end of a poll. *)
LEMMA DeafGrows ==
    ASSUME AmountTypes, ProgressTypes, DeafSince, out' \in Nat, out' >= out,
           UNCHANGED <<send_stalled_since, deaf>>,
           phase' # "polled"
    PROVE  DeafSince'
  BY DEF DeafSince, AmountTypes

LEMMA DeafWrote ==
    ASSUME AmountTypes, ProgressTypes, DeafSince, NEW n \in Nat, NEW stalls \in BOOLEAN,
           Wrote(n, out', stalls), out' \in Nat,
           n = 0 => out' >= out,
           phase' = "polled" => stalls /\ ~WriteStalled
    PROVE  DeafSince'
  <1>1. /\ send_stalled_since # None => send_stalled_since \in Nat
        /\ deaf \in Nat /\ out \in Nat /\ 0 # None
    BY NoneDiffers DEF ProgressTypes, AmountTypes, Age
  <1>2. deaf' = IF n > 0 \/ out' = 0 THEN 0 ELSE deaf
    BY DEF Wrote
  <1>3. CASE ~stalls
    <2>1. send_stalled_since' = IF n > 0 THEN None ELSE send_stalled_since
      BY <1>3 DEF Wrote
    <2> QED
      BY <1>1, <1>2, <1>3, <2>1 DEF DeafSince
  <1>4. CASE stalls /\ out' = 0
    <2>1. send_stalled_since' = None
      BY <1>4 DEF Wrote
    <2> QED
      BY <1>1, <1>2, <1>4, <2>1 DEF DeafSince
  <1>5. CASE stalls /\ out' # 0
    <2>1. send_stalled_since' = IF n > 0 \/ send_stalled_since = None THEN 0 ELSE send_stalled_since
      BY <1>5 DEF Wrote
    <2>2. CASE n > 0 \/ send_stalled_since = None
      <3>1. send_stalled_since' = 0 /\ deaf' = 0
        BY <1>1, <1>2, <2>1, <2>2 DEF DeafSince
      <3> QED
        BY <1>1, <1>5, <3>1, Constants DEF DeafSince
    <2>3. CASE ~(n > 0 \/ send_stalled_since = None)
      <3>1. send_stalled_since' = send_stalled_since /\ deaf' = deaf
        BY <1>2, <1>5, <2>1, <2>3
      <3>2. phase' = "polled" => send_stalled_since < WRITE_STALL_TIMEOUT
        BY <1>1, <2>3, Constants DEF WriteStalled
      <3> QED
        BY <1>1, <1>5, <2>3, <3>1, <3>2 DEF DeafSince
    <2> QED
      BY <2>2, <2>3
  <1> QED
    BY <1>3, <1>4, <1>5

LEMMA DeafStep ==
    ASSUME AmountTypes, ProgressTypes, DeafSince, [Next]_vars
    PROVE  DeafSince'
  <1>1. CASE RecvNothing
    <2>1. phase' # "polled" /\ UNCHANGED <<send_stalled_since, deaf>>
      BY <1>1 DEF RecvNothing, progressVars
    <2>2. out' \in Nat /\ out' >= out
      BY <1>1, Constants DEF RecvNothing, AmountTypes
    <2> QED
      BY <2>1, <2>2, DeafGrows
  <1>2. CASE RecvData
    <2>1. phase' # "polled" /\ UNCHANGED <<send_stalled_since, deaf>>
      BY <1>2 DEF RecvData, Receives, progressVars
    <2>2. out' \in Nat /\ out' >= out
      BY <1>2, Constants DEF RecvData, Receives, AmountTypes
    <2> QED
      BY <2>1, <2>2, DeafGrows
  <1>3. ASSUME NEW i \in DOMAIN pending_pings, RecvPingResponse(i) PROVE DeafSince'
    <2>1. phase' # "polled" /\ UNCHANGED <<send_stalled_since, deaf>>
      BY <1>3 DEF RecvPingResponse, Receives, progressVars
    <2>2. out' \in Nat /\ out' >= out
      BY <1>3, Constants DEF RecvPingResponse, Receives, AmountTypes
    <2> QED
      BY <2>1, <2>2, DeafGrows
  <1>4. ASSUME NEW r \in {"a", "b"}, RecvPlay(r) PROVE DeafSince'
    <2>1. phase' # "polled" /\ UNCHANGED <<send_stalled_since, deaf>>
      BY <1>4 DEF RecvPlay, Receives, progressVars
    <2>2. out' \in Nat /\ out' >= out
      BY <1>4, Constants DEF RecvPlay, Receives, AmountTypes
    <2> QED
      BY <2>1, <2>2, DeafGrows
  <1>5. ASSUME NEW flag \in BOOLEAN, RecvPause(flag) PROVE DeafSince'
    <2>1. phase' # "polled" /\ UNCHANGED <<send_stalled_since, deaf>>
      BY <1>5 DEF RecvPause, Receives, progressVars
    <2>2. out' \in Nat /\ out' >= out
      BY <1>5, Constants DEF RecvPause, Receives, AmountTypes
    <2> QED
      BY <2>1, <2>2, DeafGrows
  <1>6. CASE RecvDeleteStream
    <2>1. phase' # "polled" /\ UNCHANGED <<send_stalled_since, deaf>>
      BY <1>6 DEF RecvDeleteStream, Receives, progressVars
    <2>2. out' \in Nat /\ out' >= out
      BY <1>6, Constants DEF RecvDeleteStream, Receives, AmountTypes
    <2> QED
      BY <2>1, <2>2, DeafGrows
  <1>7. ASSUME NEW cached \in BOOLEAN, Replay(cached) PROVE DeafSince'
    <2>1. phase' # "polled" /\ UNCHANGED <<send_stalled_since, deaf>>
      BY <1>7 DEF Replay, progressVars
    <2>2. out' \in Nat /\ out' >= out
      BY <1>7, Constants DEF Replay, AmountTypes
    <2> QED
      BY <2>1, <2>2, DeafGrows
  <1>8. ASSUME NEW delivery \in {"critical", "resync", "droppable"}, RelayFrame(delivery)
       PROVE  DeafSince'
    <2>1. phase' # "polled" /\ UNCHANGED <<send_stalled_since, deaf>>
      BY <1>8 DEF RelayFrame, progressVars
    <2>2. out' \in {out, out + MediaUnits}
      BY <1>8, FlowType DEF RelayFrame
    <2>3. out' \in Nat /\ out' >= out
      BY <2>2, Constants DEF AmountTypes
    <2> QED
      BY <2>1, <2>3, DeafGrows
  <1>9. ASSUME NEW n \in 0 .. MaxOut + PingUnits, SendStaged(n) PROVE DeafSince'
    <2>1. phase' = "flush" /\ out' = out + staged_media_bytes - n /\ n <= staged_media_bytes /\ n \in Nat
      BY <1>9, Constants DEF SendStaged
    <2>2. out' \in Nat /\ (n = 0 => out' >= out)
      BY <2>1 DEF AmountTypes
    <2>3. CASE staged_media_bytes = 0
      <3>1. UNCHANGED <<send_stalled_since, deaf>> /\ out' >= out
        BY <1>9, <2>1, <2>3 DEF SendStaged, progressVars, AmountTypes
      <3> QED
        BY <2>1, <2>2, <3>1, DeafGrows
    <2>4. CASE staged_media_bytes # 0
      <3>1. Wrote(n, out', FALSE)
        BY <1>9, <2>4 DEF SendStaged
      <3> QED
        BY <2>1, <2>2, <3>1, DeafWrote
    <2> QED
      BY <2>3, <2>4
  <1>10. ASSUME NEW n \in 0 .. MaxOut + PingUnits, PingAndFlush(n) PROVE DeafSince'
    <2> DEFINE ping == IF SendsPing THEN PingUnits ELSE 0
    <2>1. ping \in Nat /\ n \in Nat
      BY Constants
    <2>2. /\ n <= out + ping /\ out' = out + ping - n /\ ~WriteStalled
          /\ \/ out + ping = 0 /\ UNCHANGED <<progressVars, deaf>>
             \/ Wrote(n, out', TRUE)
      BY <1>10, Zenon DEF PingAndFlush
    <2> HIDE DEF ping
    <2>3. out' \in Nat /\ (n = 0 => out' >= out)
      BY <2>1, <2>2 DEF AmountTypes
    <2>4. CASE Wrote(n, out', TRUE)
      BY <2>1, <2>2, <2>3, <2>4, DeafWrote
    <2>5. CASE out + ping = 0 /\ UNCHANGED <<progressVars, deaf>>
      <3>1. out = 0 /\ out' = 0 /\ UNCHANGED <<send_stalled_since, deaf>>
        BY <2>1, <2>2, <2>5 DEF AmountTypes, progressVars
      <3>2. send_stalled_since = None
        BY <3>1 DEF DeafSince
      <3> QED
        BY <3>1, <3>2 DEF DeafSince
    <2> QED
      BY <2>2, <2>4, <2>5
  <1>11. CASE KeepAliveFails
    BY <1>11 DEF KeepAliveFails, DeafSince, progressVars
  <1>12. CASE PollAgain
    BY <1>12 DEF PollAgain, DeafSince, progressVars
  <1>13. CASE Clock
    <2>1. phase = "polled" /\ phase' = "idle" /\ out' = out
      BY <1>13 DEF Clock
    <2>2. CASE send_stalled_since = None
      <3>1. out = 0
        BY <2>1, <2>2 DEF DeafSince, AmountTypes
      <3>2. send_stalled_since' = None /\ deaf' = 0
        BY <1>13, <2>2, <3>1 DEF Clock, Older
      <3> QED
        BY <2>1, <3>2 DEF DeafSince
    <2>3. CASE send_stalled_since # None
      <3>1. /\ send_stalled_since \in Nat /\ deaf \in Nat /\ send_stalled_since < WRITE_STALL_TIMEOUT
            /\ out > 0 /\ deaf >= send_stalled_since
            /\ deaf > 0 => deaf <= send_stalled_since
        BY <2>1, <2>3 DEF DeafSince, ProgressTypes, Age
      <3>2. deaf = send_stalled_since
        BY <3>1
      <3>3. send_stalled_since' = send_stalled_since + 1
        BY <1>13, <2>3, <3>1, Constants DEF Clock, Older
      <3>4. deaf' = deaf + 1
        <4>1. deaf' = Older(deaf, WRITE_STALL_TIMEOUT + 1)
          BY <1>13, <3>1 DEF Clock
        <4> QED
          BY <3>1, <3>2, <4>1, Constants, NoneDiffers DEF Older
      <3>5. send_stalled_since + 1 # None
        BY <3>1, NoneDiffers
      <3> QED
        BY <2>1, <3>1, <3>2, <3>3, <3>4, <3>5 DEF DeafSince
    <2> QED
      BY <2>2, <2>3
  <1>14. CASE UNCHANGED vars
    BY <1>14 DEF vars, DeafSince, progressVars
  <1> QED
    BY <1>1, <1>2, <1>3, <1>4, <1>5, <1>6, <1>7, <1>8, <1>9, <1>10, <1>11, <1>12, <1>13, <1>14 DEF Next

(* Keep-alive gives up only on a peer that is not draining.                *)
LEMMA FailsQuiet ==
    ASSUME ProgressTypes, QuietSince, PingFails
    PROVE  quiet >= PING_TIMEOUT
  <1>1. ~Draining
    <2>1. CASE queued_ping # None
      BY <2>1 DEF PingFails
    <2>2. CASE queued_ping = None
      <3>1. /\ ~(Draining /\ Kept # <<>>)
            /\ ~Draining \/ Len(Kept) >= MAX_PENDING_PINGS
        BY <2>2 DEF PingFails
      <3>2. Kept = <<>> => ~(Len(Kept) >= MAX_PENDING_PINGS)
        BY Constants
      <3> QED
        BY <3>1, <3>2
    <2> QED
      BY <2>1, <2>2
  <1>2. /\ last_recv_progress = PING_TIMEOUT
        /\ last_send_progress = None \/ last_send_progress = PING_TIMEOUT
    <2>1. /\ ~(last_recv_progress # None /\ last_recv_progress < PING_TIMEOUT)
          /\ last_send_progress = None \/ ~(last_send_progress < PING_TIMEOUT)
      BY <1>1 DEF Draining, peer_is_draining, peer_is_sending, Within
    <2>2. last_recv_progress \in Nat /\ last_recv_progress <= PING_TIMEOUT
      BY Constants DEF ProgressTypes, Age
    <2>3. last_send_progress # None => last_send_progress \in Nat /\ last_send_progress <= PING_TIMEOUT
      BY Constants DEF ProgressTypes, Age
    <2> QED
      BY <2>1, <2>2, <2>3, Constants, NoneDiffers
  <1> QED
    BY <1>2 DEF QuietSince

LEMMA FailsDeaf ==
    ASSUME ProgressTypes, DeafSince, WriteStalled
    PROVE  deaf >= WRITE_STALL_TIMEOUT
  <1>1. deaf >= send_stalled_since /\ send_stalled_since >= WRITE_STALL_TIMEOUT
    BY DEF WriteStalled, DeafSince
  <1>2. deaf \in Nat /\ send_stalled_since \in Nat
    BY DEF WriteStalled, ProgressTypes, Age
  <1> QED
    BY <1>1, <1>2, Constants

LEMMA CauseStep ==
    ASSUME LinkTypes, OpenPhases, ProgressTypes, QuietSince, DeafSince, ClosedForCause, [Next]_vars
    PROVE  ClosedForCause'
  <1> USE DEF ClosedForCause
  <1>1. CASE RecvNothing
    BY <1>1 DEF RecvNothing
  <1>2. CASE RecvData
    BY <1>2 DEF RecvData, Receives
  <1>3. ASSUME NEW i \in DOMAIN pending_pings, RecvPingResponse(i) PROVE ClosedForCause'
    BY <1>3 DEF RecvPingResponse, Receives
  <1>4. ASSUME NEW r \in {"a", "b"}, RecvPlay(r) PROVE ClosedForCause'
    BY <1>4 DEF RecvPlay, Receives
  <1>5. ASSUME NEW flag \in BOOLEAN, RecvPause(flag) PROVE ClosedForCause'
    BY <1>5 DEF RecvPause, Receives
  <1>6. CASE RecvDeleteStream
    BY <1>6 DEF RecvDeleteStream, Receives
  <1>7. ASSUME NEW cached \in BOOLEAN, Replay(cached) PROVE ClosedForCause'
    BY <1>7 DEF Replay
  <1>8. ASSUME NEW delivery \in {"critical", "resync", "droppable"}, RelayFrame(delivery)
       PROVE  ClosedForCause'
    <2>1. status' \in {"open", "congested"}
      BY <1>8, FlowType DEF RelayFrame
    <2> QED
      BY <2>1
  <1>9. ASSUME NEW n \in 0 .. MaxOut + PingUnits, SendStaged(n) PROVE ClosedForCause'
    <2>1. status' = "open"
      BY <1>9 DEF SendStaged
    <2> QED
      BY <2>1
  <1>10. ASSUME NEW n \in 0 .. MaxOut + PingUnits, PingAndFlush(n) PROVE ClosedForCause'
    <2>1. status' = "open"
      BY <1>10 DEF PingAndFlush
    <2> QED
      BY <2>1
  <1>11. CASE KeepAliveFails
    <2>1. CASE WriteStalled
      <3>1. status' = "stalled" /\ deaf' = deaf
        BY <1>11, <2>1 DEF KeepAliveFails
      <3>2. deaf >= WRITE_STALL_TIMEOUT
        BY <2>1, FailsDeaf
      <3> QED
        BY <3>1, <3>2
    <2>2. CASE ~WriteStalled
      BY <1>11, <2>2, FailsQuiet DEF KeepAliveFails
    <2> QED
      BY <2>1, <2>2
  <1>12. CASE PollAgain
    BY <1>12 DEF PollAgain
  <1>13. CASE Clock
    <2>1. status' = "open"
      BY <1>13 DEF Clock
    <2> QED
      BY <2>1
  <1>14. CASE UNCHANGED vars
    BY <1>14 DEF vars
  <1> QED
    BY <1>1, <1>2, <1>3, <1>4, <1>5, <1>6, <1>7, <1>8, <1>9, <1>10, <1>11, <1>12, <1>13, <1>14 DEF Next

-----------------------------------------------------------------------------
(* The pings.                                                              *)

LEMMA TFacts == T \in Nat /\ 1 <= T /\ PING_INTERVAL <= T /\ PING_TIMEOUT = T + 1
  BY Constants DEF T

LEMMA NonEmptySeq ==
    ASSUME NEW S, NEW s \in Seq(S), s # <<>>
    PROVE  1 \in DOMAIN s /\ s[1] \in S
  OBVIOUS

(* A peer that drains has been quiet for less than a timeout.              *)
LEMMA DrainingQuiet ==
    ASSUME ProgressTypes, QuietSince, Draining
    PROVE  quiet <= T
  <1>1. \/ last_recv_progress < PING_TIMEOUT /\ quiet <= last_recv_progress
        \/ /\ last_send_progress # None /\ last_send_progress < PING_TIMEOUT
           /\ quiet <= last_send_progress
    BY DEF Draining, peer_is_draining, peer_is_sending, Within, QuietSince
  <1>2. /\ quiet \in Nat /\ last_recv_progress \in Nat
        /\ last_send_progress # None => last_send_progress \in Nat
    BY DEF ProgressTypes, Age
  <1> QED
    BY <1>1, <1>2, TFacts

(* What maybe_send_ping leaves to the flush.                               *)
Queueing == IF SendsPing THEN [age |-> 0, left |-> out + PingUnits] ELSE queued_ping
InFlight == IF PingDue THEN Kept ELSE pending_pings

LEMMA InFlightType ==
    ASSUME PingTypes, AmountTypes
    PROVE  /\ InFlight \in Seq(Age(PING_TIMEOUT))
           /\ Queueing \in Queued \cup {None}
  <1>1. InFlight \in Seq(Age(PING_TIMEOUT))
    BY PingsLeft DEF InFlight, Kept, PingTypes
  <1>2. [age |-> 0, left |-> out + PingUnits] \in Queued
    BY Constants DEF Queued, Age, AmountTypes
  <1> QED
    BY <1>1, <1>2 DEF Queueing, PingTypes

(* Stale pings are forgotten only while the peer sends.                    *)
LEMMA ForgottenQuiet ==
    ASSUME ProgressTypes, QuietSince, InFlight # pending_pings
    PROVE  PingDue /\ Draining /\ quiet <= T
  <1>1. PingDue /\ peer_is_sending
    BY DEF InFlight, Kept
  <1> QED
    BY <1>1, DrainingQuiet DEF Draining

(* A ping that is about to be flushed.                                     *)
LEMMA QueueingQuiet ==
    ASSUME AmountTypes, PingTypes, ProgressTypes, QuietSince, PingInv, ~PingFails, Queueing # None
    PROVE  /\ last_ping_sent \in {None, PING_INTERVAL}
           /\ quiet <= 3 * T + Queueing.age
           /\ Queueing.age < PING_TIMEOUT \/ quiet <= T
           /\ InFlight = <<>> => quiet <= T + Queueing.age
  <1> USE TFacts
  <1>0. /\ quiet \in Nat /\ Queueing.age \in Nat /\ Queueing.age <= PING_TIMEOUT
        /\ last_ping_sent # None => last_ping_sent \in Nat /\ last_ping_sent <= PING_INTERVAL
    BY InFlightType, Constants DEF ProgressTypes, PingTypes, Queued, Age
  <1>1. CASE ~SendsPing
    <2>1. Queueing = queued_ping /\ queued_ping # None
      BY <1>1 DEF Queueing
    <2>2. /\ last_ping_sent \in {None, PING_INTERVAL} /\ quiet <= 3 * T + Queueing.age
          /\ pending_pings = <<>> => quiet <= T + Queueing.age
      BY <2>1 DEF PingInv, QuietQueued
    <2>3. Queueing.age < PING_TIMEOUT \/ quiet <= T
      <3>1. PingDue
        BY <2>2, Constants DEF PingDue, Within
      <3>2. Draining \/ ~(Queueing.age >= PING_TIMEOUT)
        BY <2>1, <3>1 DEF PingFails
      <3> QED
        BY <1>0, <3>2, DrainingQuiet
    <2>4. InFlight = <<>> => quiet <= T + Queueing.age
      <3>1. CASE InFlight = pending_pings
        BY <2>2, <3>1
      <3>2. CASE InFlight # pending_pings
        BY <1>0, <3>2, ForgottenQuiet
      <3> QED
        BY <3>1, <3>2
    <2> QED
      BY <2>2, <2>3, <2>4
  <1>2. CASE SendsPing
    <2>1. /\ Queueing = [age |-> 0, left |-> out + PingUnits] /\ PingDue /\ queued_ping = None
          /\ ~(Draining /\ Kept # <<>>)
      BY <1>2 DEF Queueing, SendsPing
    <2>2. last_ping_sent \in {None, PING_INTERVAL}
      BY <1>0, <2>1, Constants DEF PingDue, Within
    <2>3. CASE Draining
      BY <1>0, <2>1, <2>2, <2>3, DrainingQuiet
    <2>4. CASE ~Draining
      <3>1. Stale(pending_pings) = {} /\ InFlight = pending_pings
        BY <2>1, <2>4 DEF PingFails, InFlight, Kept, Draining
      <3>2. CASE pending_pings = <<>>
        <4>1. quiet <= T
          BY <1>0, <2>1, <3>2, Constants DEF PingInv, QuietIdle
        <4> QED
          BY <1>0, <2>1, <2>2, <4>1
      <3>3. CASE pending_pings # <<>>
        <4>1. AllFresh
          BY <3>1, Constants DEF AllFresh, Stale, PingTypes, Age
        <4>2. PICK i \in DOMAIN pending_pings : quiet <= 2 * T + pending_pings[i]
          BY <3>3, <4>1 DEF PingInv, QuietPending
        <4>3. pending_pings[i] \in Nat /\ pending_pings[i] < PING_TIMEOUT
          BY <4>1 DEF AllFresh, PingTypes, Age
        <4>4. quiet <= 3 * T
          BY <1>0, <4>2, <4>3
        <4>5. Queueing.age = 0
          BY <2>1
        <4>6. quiet <= 3 * T + Queueing.age /\ Queueing.age < PING_TIMEOUT
          BY <1>0, <4>4, <4>5, Constants
        <4> QED
          BY <2>2, <3>1, <3>3, <4>6, Zenon
      <3> QED
        BY <3>2, <3>3
    <2> QED
      BY <2>3, <2>4
  <1> QED
    BY <1>1, <1>2

(* No ping to flush: none is due, or the peer is alive and has one to answer. *)
LEMMA NothingQueued ==
    ASSUME ProgressTypes, QuietSince, Queueing = None, AmountTypes
    PROVE  /\ queued_ping = None
           /\ Within(last_ping_sent, PING_INTERVAL) \/ (quiet <= T /\ InFlight # <<>>)
           /\ InFlight = <<>> => pending_pings = <<>>
  <1>1. ~SendsPing /\ queued_ping = None
    <2>1. [age |-> 0, left |-> out + PingUnits] # None
      <3>1. [age |-> 0, left |-> out + PingUnits] \in Queued
        BY Constants DEF Queued, Age, AmountTypes
      <3> QED
        BY <3>1, NoneDiffers
    <2> QED
      BY <2>1 DEF Queueing
  <1>2. CASE PingDue
    <2>1. Draining /\ InFlight # <<>>
      BY <1>1, <1>2 DEF SendsPing, InFlight
    <2> QED
      BY <1>1, <2>1, DrainingQuiet
  <1>3. CASE ~PingDue
    BY <1>1, <1>3 DEF PingDue, InFlight
  <1> QED
    BY <1>2, <1>3

(* The pings in flight bound the silence, as before.                       *)
LEMMA InFlightQuiet ==
    ASSUME AmountTypes, PingTypes, ProgressTypes, QuietSince, QuietPending,
           InFlight # <<>>, \A i \in DOMAIN InFlight : InFlight[i] < PING_TIMEOUT
    PROVE  \E i \in DOMAIN InFlight : quiet <= 2 * T + InFlight[i]
  <1>1. CASE InFlight = pending_pings
    BY <1>1 DEF QuietPending, AllFresh
  <1>2. CASE InFlight # pending_pings
    <2>1. 1 \in DOMAIN InFlight /\ InFlight[1] \in Nat
      <3>1. InFlight[1] \in Age(PING_TIMEOUT) /\ 1 \in DOMAIN InFlight
        BY InFlightType, NonEmptySeq
      <3> QED
        BY <3>1 DEF Age
    <2>2. quiet <= 2 * T + InFlight[1]
      BY <1>2, <2>1, ForgottenQuiet, TFacts DEF ProgressTypes
    <2> QED
      BY <2>1, <2>2
  <1> QED
    BY <1>1, <1>2

LEMMA NoneLeft == Fresh(<<>>) = <<>>
  <1>1. Stale(<<>>) = {} /\ Cardinality({}) = 0
    BY FS_EmptySet DEF Stale
  <1>2. Fresh(<<>>) = SubSeq(<<>>, 0 + 1, Len(<<>>))
    BY <1>1 DEF Fresh
  <1> QED
    BY <1>2

(* A sign of life ends the silence.                                        *)
LEMMA QuietEnds ==
    ASSUME PingTypes', QuietQueued, PendingSent', quiet' = 0, phase' # "polled",
           UNCHANGED <<queued_ping, last_ping_sent>>
    PROVE  PingInv'
  <1> USE TFacts
  <1>1. QuietQueued'
    <2>1. queued_ping' # None => queued_ping'.age \in Nat
      BY DEF PingTypes, Queued, Age
    <2> QED
      BY <2>1 DEF QuietQueued
  <1>2. QuietIdle'
    <2>1. last_ping_sent' # None => last_ping_sent' \in Nat
      BY DEF PingTypes, Age
    <2> QED
      BY <2>1 DEF QuietIdle
  <1>3. QuietPending'
    <2>1. pending_pings' # <<>> => 1 \in DOMAIN pending_pings' /\ pending_pings'[1] \in Age(PING_TIMEOUT)
      BY NonEmptySeq DEF PingTypes
    <2>2. pending_pings'[1] \in Age(PING_TIMEOUT) => 0 <= 2 * T + pending_pings'[1]
      BY DEF Age
    <2> QED
      BY <2>1, <2>2 DEF QuietPending
  <1> QED
    BY <1>1, <1>2, <1>3 DEF PingInv, PolledPings

(* Bytes that leave bring a queued ping on, and may end the silence.       *)
LEMMA QuietOn ==
    ASSUME PingTypes, PingInv, quiet' = quiet, phase' # "polled",
           UNCHANGED <<pending_pings, last_ping_sent>>,
           queued_ping' = None <=> queued_ping = None,
           queued_ping # None => queued_ping'.age = queued_ping.age
    PROVE  PingInv'
  <1>1. QuietQueued'
    BY DEF PingInv, QuietQueued
  <1>2. QuietIdle'
    BY DEF PingInv, QuietIdle
  <1>3. QuietPending'
    BY DEF PingInv, QuietPending, AllFresh
  <1>4. PendingSent'
    BY DEF PingInv, PendingSent
  <1> QED
    BY <1>1, <1>2, <1>3, <1>4 DEF PingInv, PolledPings

LEMMA QuietFlushed ==
    ASSUME AmountTypes, PingTypes, ProgressTypes, QuietSince, PingInv, ~PingFails,
           quiet' \in {0, quiet}, Queueing # None,
           queued_ping' = None, pending_pings' = Append(InFlight, 0), last_ping_sent' = 0
    PROVE  PingInv'
  <1> USE TFacts
  <1>0. quiet \in Nat /\ quiet' \in Nat /\ quiet' <= quiet
    BY DEF ProgressTypes
  <1>1. InFlight \in Seq(Age(PING_TIMEOUT)) /\ Queueing.age \in Nat
    BY InFlightType DEF Queued, Age
  <1>2. /\ quiet <= 3 * T + Queueing.age /\ (Queueing.age < PING_TIMEOUT \/ quiet <= T)
        /\ InFlight = <<>> => quiet <= T + Queueing.age
    BY QueueingQuiet
  <1>3. /\ pending_pings' # <<>> /\ DOMAIN pending_pings' = 1 .. Len(InFlight) + 1
        /\ Len(InFlight) \in Nat /\ DOMAIN InFlight = 1 .. Len(InFlight)
        /\ pending_pings'[Len(InFlight) + 1] = 0
        /\ \A i \in DOMAIN InFlight : pending_pings'[i] = InFlight[i]
    <2>1. 0 \in Age(PING_TIMEOUT)
      BY DEF Age
    <2> QED
      BY <1>1, <2>1
  <1>4. QuietQueued' /\ PolledPings' /\ PendingSent'
    BY Constants, NoneDiffers DEF QuietQueued, PolledPings, PendingSent, Within
  <1>5. QuietIdle'
    <2>1. quiet' <= 4 * T + 0
      BY <1>0, <1>1, <1>2
    <2> QED
      BY <1>3, <2>1, NoneDiffers DEF QuietIdle
  <1>6. QuietPending'
    <2>1. SUFFICES ASSUME AllFresh'
                   PROVE  \E i \in DOMAIN pending_pings' : quiet' <= 2 * T + pending_pings'[i]
      BY DEF QuietPending
    <2>2. CASE InFlight = <<>>
      <3>1. quiet' <= 2 * T + pending_pings'[Len(InFlight) + 1]
        BY <1>0, <1>1, <1>2, <1>3, <2>2
      <3> QED
        BY <1>3, <3>1
    <2>3. CASE InFlight # <<>>
      <3>1. \A i \in DOMAIN InFlight : i \in DOMAIN pending_pings'
        BY <1>3
      <3>2. \A i \in DOMAIN InFlight : InFlight[i] < PING_TIMEOUT
        BY <1>3, <2>1, <3>1 DEF AllFresh
      <3>3. PICK i \in DOMAIN InFlight : quiet <= 2 * T + InFlight[i]
        BY <2>3, <3>2, InFlightQuiet DEF PingInv
      <3>4. InFlight[i] \in Nat
        BY <1>1 DEF Age
      <3>5. quiet' <= 2 * T + pending_pings'[i]
        BY <1>0, <1>3, <3>3, <3>4
      <3> QED
        BY <3>1, <3>5
    <2> QED
      BY <2>2, <2>3
  <1> QED
    BY <1>4, <1>5, <1>6 DEF PingInv

LEMMA QuietNotFlushed ==
    ASSUME AmountTypes, PingTypes, ProgressTypes, QuietSince, PingInv, ~PingFails,
           quiet' \in {0, quiet},
           queued_ping' = None <=> Queueing = None,
           Queueing # None => queued_ping'.age = Queueing.age,
           pending_pings' = InFlight, last_ping_sent' = last_ping_sent
    PROVE  PingInv'
  <1> USE TFacts
  <1>0. quiet \in Nat /\ quiet' \in Nat /\ quiet' <= quiet
    BY DEF ProgressTypes
  <1>1. /\ InFlight \in Seq(Age(PING_TIMEOUT))
        /\ Queueing # None => Queueing.age \in Nat
        /\ last_ping_sent # None => last_ping_sent \in Nat
    BY InFlightType DEF Queued, Age, PingTypes
  <1>2. QuietPending'
    <2>1. SUFFICES ASSUME InFlight # <<>>, AllFresh'
                   PROVE  \E i \in DOMAIN pending_pings' : quiet' <= 2 * T + pending_pings'[i]
      BY DEF QuietPending
    <2>2. PICK i \in DOMAIN InFlight : quiet <= 2 * T + InFlight[i]
      BY <2>1, InFlightQuiet DEF PingInv, AllFresh
    <2>3. InFlight[i] \in Nat
      BY <1>1 DEF Age
    <2>4. quiet' <= 2 * T + pending_pings'[i]
      BY <1>0, <2>2, <2>3
    <2> QED
      BY <2>4
  <1>3. PendingSent'
    BY NoneLeft DEF PingInv, PendingSent, InFlight, Kept
  <1>4. CASE Queueing # None
    <2>1. /\ last_ping_sent \in {None, PING_INTERVAL} /\ quiet <= 3 * T + Queueing.age
          /\ Queueing.age < PING_TIMEOUT \/ quiet <= T
          /\ InFlight = <<>> => quiet <= T + Queueing.age
      BY <1>4, QueueingQuiet
    <2>2. QuietQueued'
      BY <1>0, <1>1, <1>4, <2>1 DEF QuietQueued
    <2>3. QuietIdle'
      BY <1>4 DEF QuietIdle
    <2>4. PolledPings'
      BY <1>0, <1>1, <1>4, <2>1 DEF PolledPings
    <2> QED
      BY <1>2, <1>3, <2>2, <2>3, <2>4 DEF PingInv
  <1>5. CASE Queueing = None
    <2>1. /\ queued_ping = None
          /\ Within(last_ping_sent, PING_INTERVAL) \/ (quiet <= T /\ InFlight # <<>>)
          /\ InFlight = <<>> => pending_pings = <<>>
      BY <1>5, NothingQueued
    <2>2. QuietQueued'
      BY <1>5 DEF QuietQueued
    <2>3. QuietIdle'
      BY <1>0, <1>1, <1>5, <2>1 DEF PingInv, QuietIdle
    <2>4. PolledPings'
      BY <1>0, <1>1, <1>5, <2>1 DEF PolledPings, Within
    <2> QED
      BY <1>2, <1>3, <2>2, <2>3, <2>4 DEF PingInv
  <1> QED
    BY <1>4, <1>5

LEMMA QuietLess ==
    ASSUME PingTypes, PingTypes', PingInv, quiet \in Nat, quiet' \in {0, quiet}, phase' # "polled",
           UNCHANGED <<pending_pings, last_ping_sent>>,
           queued_ping' = None <=> queued_ping = None,
           queued_ping # None => queued_ping'.age = queued_ping.age
    PROVE  PingInv'
  <1> USE TFacts
  <1>1. CASE quiet' = quiet
    BY <1>1, QuietOn
  <1>2. CASE quiet' = 0
    <2>1. QuietQueued'
      <3>1. queued_ping' # None => queued_ping'.age \in Nat
        BY DEF PingTypes, Queued, Age
      <3> QED
        BY <1>2, <3>1 DEF PingInv, QuietQueued
    <2>2. QuietIdle'
      <3>1. last_ping_sent' # None => last_ping_sent' \in Nat
        BY DEF PingTypes, Age
      <3> QED
        BY <1>2, <3>1 DEF QuietIdle
    <2>3. QuietPending'
      <3>1. pending_pings' # <<>> => 1 \in DOMAIN pending_pings' /\ pending_pings'[1] \in Age(PING_TIMEOUT)
        BY NonEmptySeq DEF PingTypes
      <3>2. pending_pings'[1] \in Age(PING_TIMEOUT) => 0 <= 2 * T + pending_pings'[1]
        BY DEF Age
      <3> QED
        BY <1>2, <3>1, <3>2 DEF QuietPending
    <2>4. PendingSent'
      BY DEF PingInv, PendingSent
    <2> QED
      BY <2>1, <2>2, <2>3, <2>4 DEF PingInv, PolledPings
  <1> QED
    BY <1>1, <1>2

(* A step of time, which follows a poll.                                   *)
LEMMA QuietAged ==
    ASSUME PingTypes, PingTypes', ProgressTypes, PingInv, Clock
    PROVE  PingInv'
  <1> USE TFacts, Constants
  <1>1. phase = "polled" /\ phase' = "idle"
    BY DEF Clock
  <1>2. quiet \in Nat /\ quiet' \in {quiet, quiet + 1}
    BY DEF Clock, Older, ProgressTypes
  <1>3. DOMAIN pending_pings' = DOMAIN pending_pings /\ (pending_pings' = <<>> <=> pending_pings = <<>>)
    <2>1. DOMAIN pending_pings' = DOMAIN pending_pings
      BY DEF Clock
    <2> QED
      BY <2>1 DEF PingTypes
  <1>4. /\ queued_ping' = None <=> queued_ping = None
        /\ queued_ping # None => queued_ping'.age = Older(queued_ping.age, PING_TIMEOUT)
    <2>1. CASE queued_ping = None
      BY <2>1 DEF Clock
    <2>2. CASE queued_ping # None
      <3>1. /\ queued_ping \in Queued
            /\ queued_ping' = [queued_ping EXCEPT !.age = Older(queued_ping.age, PING_TIMEOUT)]
        BY <2>2 DEF Clock, PingTypes
      <3>2. queued_ping' \in [age : {Older(queued_ping.age, PING_TIMEOUT)}, left : Nat]
        BY <3>1 DEF Queued
      <3>3. queued_ping'.age = Older(queued_ping.age, PING_TIMEOUT)
        BY <3>2
      <3>4. Older(queued_ping.age, PING_TIMEOUT) \in Nat
        BY <3>1 DEF Queued, Age, Older
      <3>5. queued_ping' \in [age : Nat, left : Nat]
        BY <3>2, <3>4
      <3> QED
        BY <2>2, <3>3, <3>5, PlayerLinkAssumption
    <2> QED
      BY <2>1, <2>2
  <1>5. /\ last_ping_sent' = None <=> last_ping_sent = None
        /\ last_ping_sent # None =>
             /\ last_ping_sent \in Nat /\ last_ping_sent <= PING_INTERVAL
             /\ last_ping_sent' = IF last_ping_sent = PING_INTERVAL THEN last_ping_sent ELSE last_ping_sent + 1
    <2>1. last_ping_sent' = Older(last_ping_sent, PING_INTERVAL)
      BY DEF Clock
    <2>2. last_ping_sent # None => last_ping_sent \in Nat /\ last_ping_sent <= PING_INTERVAL
      BY DEF PingTypes, Age
    <2> QED
      BY <2>1, <2>2, OlderAge DEF PingTypes
  <1>6. QuietQueued'
    <2>1. SUFFICES ASSUME queued_ping # None PROVE QuietQueued'
      BY <1>4 DEF QuietQueued
    <2>2. /\ last_ping_sent \in {None, PING_INTERVAL}
          /\ quiet <= 3 * T + queued_ping.age
          /\ pending_pings = <<>> => quiet <= T + queued_ping.age
          /\ quiet >= PING_TIMEOUT => queued_ping.age < PING_TIMEOUT
      BY <1>1, <2>1 DEF PingInv, QuietQueued, PolledPings
    <2>3. /\ queued_ping.age \in Nat /\ queued_ping.age <= PING_TIMEOUT
          /\ queued_ping'.age = IF queued_ping.age = PING_TIMEOUT THEN PING_TIMEOUT ELSE queued_ping.age + 1
      <3>1. queued_ping.age \in Nat /\ queued_ping.age <= PING_TIMEOUT
        BY <2>1 DEF PingTypes, Queued, Age
      <3> QED
        BY <1>4, <2>1, <3>1, NoneDiffers DEF Older
    <2>4. last_ping_sent' \in {None, PING_INTERVAL}
      BY <1>5, <2>2
    <2>5. quiet' <= 3 * T + queued_ping'.age
      BY <1>2, <2>2, <2>3
    <2>6. pending_pings' = <<>> => quiet' <= T + queued_ping'.age
      BY <1>2, <1>3, <2>2, <2>3
    <2> QED
      BY <2>4, <2>5, <2>6 DEF QuietQueued
  <1>7. QuietIdle'
    <2>1. SUFFICES ASSUME queued_ping = None PROVE QuietIdle'
      BY <1>4 DEF QuietIdle
    <2>2. /\ last_ping_sent # None => quiet <= 4 * T + last_ping_sent
          /\ pending_pings = <<>> /\ last_ping_sent # None => quiet <= last_ping_sent
          /\ quiet >= PING_TIMEOUT \/ pending_pings = <<>> =>
               last_ping_sent # None /\ last_ping_sent < PING_INTERVAL
          /\ last_ping_sent = None => pending_pings = <<>>
      BY <1>1, <2>1 DEF PingInv, QuietIdle, PolledPings, PendingSent, Within
    <2>3. last_ping_sent # None
      BY <2>2
    <2>4. quiet' <= 4 * T + last_ping_sent'
      BY <1>2, <1>5, <2>2, <2>3
    <2>5. pending_pings = <<>> => quiet' <= last_ping_sent'
      BY <1>2, <1>5, <2>2, <2>3
    <2> QED
      BY <1>3, <1>5, <2>3, <2>4, <2>5 DEF QuietIdle
  <1>8. QuietPending'
    <2>1. SUFFICES ASSUME pending_pings' # <<>>, AllFresh'
                   PROVE  \E i \in DOMAIN pending_pings' : quiet' <= 2 * T + pending_pings'[i]
      BY DEF QuietPending
    <2>2. \A i \in DOMAIN pending_pings : /\ pending_pings[i] \in Nat
                                          /\ pending_pings'[i] = pending_pings[i] + 1
      <3>1. TAKE i \in DOMAIN pending_pings
      <3>2. pending_pings[i] \in Age(PING_TIMEOUT)
        BY DEF PingTypes
      <3>3. pending_pings'[i] = Older(pending_pings[i], PING_TIMEOUT)
        BY DEF Clock
      <3>4. pending_pings'[i] < PING_TIMEOUT
        BY <1>3, <2>1 DEF AllFresh
      <3> QED
        BY <3>2, <3>3, <3>4, NoneDiffers DEF Older, Age
    <2>3. AllFresh
      <3>1. ASSUME NEW i \in DOMAIN pending_pings PROVE pending_pings[i] < PING_TIMEOUT
        <4>1. pending_pings'[i] < PING_TIMEOUT
          BY <1>3, <2>1 DEF AllFresh
        <4> QED
          BY <2>2, <4>1
      <3> QED
        BY <3>1 DEF AllFresh
    <2>4. PICK i \in DOMAIN pending_pings : quiet <= 2 * T + pending_pings[i]
      BY <1>3, <2>1, <2>3 DEF PingInv, QuietPending
    <2>5. quiet' <= 2 * T + pending_pings'[i]
      BY <1>2, <2>2, <2>4
    <2> QED
      BY <1>3, <2>5
  <1>9. PendingSent'
    BY <1>3, <1>5 DEF PingInv, PendingSent
  <1> QED
    BY <1>1, <1>6, <1>7, <1>8, <1>9 DEF PingInv, PolledPings

LEMMA PingInvStep ==
    ASSUME AmountTypes, PingTypes, PingTypes', ProgressTypes, QuietSince, PingInv, [Next]_vars
    PROVE  PingInv'
  <1>1. CASE RecvNothing
    <2>1. /\ phase' # "polled" /\ quiet' = quiet
          /\ UNCHANGED <<queued_ping, last_ping_sent, pending_pings>>
      BY <1>1 DEF RecvNothing, pingVars
    <2> QED
      BY <2>1, QuietOn
  <1>2. CASE RecvData
    <2>1. quiet' = 0 /\ phase' = "replay" /\ UNCHANGED <<queued_ping, last_ping_sent, pending_pings>>
      BY <1>2 DEF RecvData, Receives
    <2> QED
      BY <2>1, QuietEnds DEF PingInv, PendingSent
  <1>3. ASSUME NEW i \in DOMAIN pending_pings, RecvPingResponse(i) PROVE PingInv'
    <2>1. quiet' = 0 /\ phase' = "replay" /\ UNCHANGED <<queued_ping, last_ping_sent>>
      BY <1>3 DEF RecvPingResponse, Receives
    <2>2. PendingSent'
      BY <2>1 DEF PingInv, PendingSent
    <2> QED
      BY <2>1, <2>2, QuietEnds DEF PingInv
  <1>4. ASSUME NEW r \in {"a", "b"}, RecvPlay(r) PROVE PingInv'
    <2>1. quiet' = 0 /\ phase' = "replay" /\ UNCHANGED <<queued_ping, last_ping_sent, pending_pings>>
      BY <1>4 DEF RecvPlay, Receives
    <2> QED
      BY <2>1, QuietEnds DEF PingInv, PendingSent
  <1>5. ASSUME NEW flag \in BOOLEAN, RecvPause(flag) PROVE PingInv'
    <2>1. quiet' = 0 /\ phase' = "replay" /\ UNCHANGED <<queued_ping, last_ping_sent, pending_pings>>
      BY <1>5 DEF RecvPause, Receives
    <2> QED
      BY <2>1, QuietEnds DEF PingInv, PendingSent
  <1>6. CASE RecvDeleteStream
    <2>1. quiet' = 0 /\ phase' = "replay" /\ UNCHANGED <<queued_ping, last_ping_sent, pending_pings>>
      BY <1>6 DEF RecvDeleteStream, Receives
    <2> QED
      BY <2>1, QuietEnds DEF PingInv, PendingSent
  <1>7. ASSUME NEW cached \in BOOLEAN, Replay(cached) PROVE PingInv'
    <2>1. /\ phase' # "polled" /\ quiet' = quiet
          /\ UNCHANGED <<queued_ping, last_ping_sent, pending_pings>>
      BY <1>7 DEF Replay, pingVars
    <2> QED
      BY <2>1, QuietOn
  <1>8. ASSUME NEW delivery \in {"critical", "resync", "droppable"}, RelayFrame(delivery)
       PROVE  PingInv'
    <2>1. /\ phase' # "polled" /\ quiet' = quiet
          /\ UNCHANGED <<queued_ping, last_ping_sent, pending_pings>>
      BY <1>8 DEF RelayFrame, pingVars
    <2> QED
      BY <2>1, QuietOn
  <1>9. ASSUME NEW n \in 0 .. MaxOut + PingUnits, SendStaged(n) PROVE PingInv'
    <2>1. /\ phase' = "flush" /\ UNCHANGED <<pending_pings, last_ping_sent>> /\ quiet' \in {0, quiet}
          /\ \/ UNCHANGED queued_ping
             \/ queued_ping = None /\ queued_ping' = None
             \/ /\ queued_ping # None
                /\ queued_ping' = 
                     [queued_ping EXCEPT !.left = IF queued_ping.left > n THEN queued_ping.left - n ELSE 0]
      BY <1>9 DEF SendStaged
    <2>2. n \in Nat
      BY Constants
    <2>3. queued_ping' = None <=> queued_ping = None
      BY <2>1, <2>2, QueuedFlushed, NoneDiffers DEF PingTypes
    <2>4. queued_ping # None => queued_ping'.age = queued_ping.age
      BY <2>1, <2>2, QueuedFlushed DEF PingTypes
    <2> QED
      BY <2>1, <2>3, <2>4, QuietLess DEF ProgressTypes
  <1>10. ASSUME NEW n \in 0 .. MaxOut + PingUnits, PingAndFlush(n) PROVE PingInv'
    <2> DEFINE flushed(q) == IF q.left > n THEN q.left - n ELSE 0
    <2>1. ~PingFails
      BY <1>10 DEF PingAndFlush
    <2>2. quiet' \in {0, quiet}
      BY <1>10 DEF PingAndFlush
    <2>3. IF Queueing # None /\ flushed(Queueing) = 0
          THEN queued_ping' = None /\ pending_pings' = Append(InFlight, 0) /\ last_ping_sent' = 0
          ELSE /\ queued_ping' = IF Queueing = None THEN None
                                 ELSE [Queueing EXCEPT !.left = flushed(Queueing)]
               /\ pending_pings' = InFlight
               /\ UNCHANGED last_ping_sent
      BY <1>10, Zenon DEF PingAndFlush, Queueing, InFlight
    <2>4. CASE Queueing # None /\ flushed(Queueing) = 0
      <3>1. queued_ping' = None /\ pending_pings' = Append(InFlight, 0) /\ last_ping_sent' = 0
        BY <2>3, <2>4
      <3> QED
        BY <2>1, <2>2, <2>4, <3>1, QuietFlushed
    <2>5. CASE ~(Queueing # None /\ flushed(Queueing) = 0)
      <3>1. /\ queued_ping' = IF Queueing = None THEN None ELSE [Queueing EXCEPT !.left = flushed(Queueing)]
            /\ pending_pings' = InFlight /\ last_ping_sent' = last_ping_sent
        BY <2>3, <2>5
      <3>2. n \in Nat /\ Queueing \in Queued \cup {None}
        BY Constants, InFlightType
      <3>3. queued_ping' = None <=> Queueing = None
        BY <3>1, <3>2, QueuedFlushed, NoneDiffers
      <3>4. Queueing # None => queued_ping'.age = Queueing.age
        BY <3>1, <3>2, QueuedFlushed
      <3> QED
        BY <2>1, <2>2, <3>1, <3>3, <3>4, QuietNotFlushed
    <2> QED
      BY <2>4, <2>5
  <1>11. CASE KeepAliveFails
    <2>1. /\ phase' # "polled" /\ quiet' = quiet
          /\ UNCHANGED <<queued_ping, last_ping_sent, pending_pings>>
      BY <1>11 DEF KeepAliveFails, pingVars
    <2> QED
      BY <2>1, QuietOn
  <1>12. CASE PollAgain
    <2>1. /\ phase' # "polled" /\ quiet' = quiet
          /\ UNCHANGED <<queued_ping, last_ping_sent, pending_pings>>
      BY <1>12 DEF PollAgain, pingVars
    <2> QED
      BY <2>1, QuietOn
  <1>13. CASE Clock
    BY <1>13, QuietAged
  <1>14. CASE UNCHANGED vars
    <2>1. UNCHANGED <<phase, quiet, queued_ping, last_ping_sent, pending_pings>>
      BY <1>14 DEF vars, pingVars
    <2> QED
      BY <2>1 DEF PingInv, QuietQueued, QuietIdle, QuietPending, AllFresh, PolledPings, PendingSent
  <1> QED
    BY <1>1, <1>2, <1>3, <1>4, <1>5, <1>6, <1>7, <1>8, <1>9, <1>10, <1>11, <1>12, <1>13, <1>14 DEF Next

-----------------------------------------------------------------------------
(* The theorems.                                                           *)

LEMMA InitIInv == Init => IInv
  <1> SUFFICES ASSUME Init PROVE IInv
    OBVIOUS
  <1>1. LinkTypes /\ AmountTypes
    BY DEF Init, LinkTypes, AmountTypes
  <1>2. FlowTypes /\ ReplayTypes
    BY ZenonT(30) DEF Init, FlowTypes, ReplayTypes
  <1>3. PingTypes
    BY DEF Init, PingTypes
  <1>4. ProgressTypes
    BY Constants DEF Init, ProgressTypes, Age
  <1>5. OpenPhases /\ GapCongested /\ OwedRequested /\ ClosedForCause
    BY DEF Init, OpenPhases, GapCongested, OwedRequested, ClosedForCause
  <1>6. QuietSince /\ DeafSince
    BY Constants DEF Init, QuietSince, DeafSince, Within
  <1>7. PingInv
    BY DEF Init, PingInv, QuietQueued, QuietIdle, QuietPending, PolledPings, PendingSent
  <1> QED
    BY <1>1, <1>2, <1>3, <1>4, <1>5, <1>6, <1>7 DEF IInv, TypeOK

LEMMA NextIInv ==
    ASSUME IInv, [Next]_vars
    PROVE  IInv'
  <1> USE DEF IInv, TypeOK
  <1>1. TypeOK'
    BY LinkStep, AmountStep, FlowStep, ReplayStep, PingStep, ProgressStep
  <1>2. OpenPhases' /\ GapCongested' /\ OwedRequested'
    BY OpenStep, GapStep, OwedStep
  <1>3. QuietSince' /\ DeafSince' /\ ClosedForCause'
    BY QuietSinceStep, DeafStep, CauseStep
  <1>4. PingInv'
    BY <1>1, PingInvStep
  <1> QED
    BY <1>1, <1>2, <1>3, <1>4

(* In every reachable state the types, the four links between a history    *)
(* and the timers that stand for it, and the bound the pings put on a      *)
(* silence hold together: the ages that maybe_send_ping, flush and         *)
(* request_init_replay look at are never younger than what they measure.   *)
THEOREM Inductive == Spec => []IInv
  BY InitIInv, NextIInv, PTL DEF Spec

(* Init frames that are due are at most as old as the request on record,   *)
(* which a poll renews when the cooldown is over: a play that changes the  *)
(* route in the cooldown is served within it (request_init_replay,         *)
(* rearm_deferred_init_replay).                                            *)
THEOREM InitFramesAlwaysTimely == Spec => []InitFramesTimely
  <1>1. IInv => InitFramesTimely
    <2> SUFFICES ASSUME IInv, owed # None PROVE owed <= INIT_REPLAY_COOLDOWN
      BY DEF InitFramesTimely
    <2>1. owed <= last_init_replay_request /\ last_init_replay_request # None
      BY DEF IInv, OwedRequested
    <2>2. /\ owed \in Nat /\ last_init_replay_request \in Nat
          /\ last_init_replay_request <= INIT_REPLAY_COOLDOWN
      BY <2>1, Constants DEF IInv, TypeOK, ReplayTypes, Age
    <2> QED
      BY <2>1, <2>2, Constants
  <1> QED
    BY <1>1, Inductive, PTL

(* Keep-alive drops the silent within DeadAfter and the deaf within        *)
(* WRITE_STALL_TIMEOUT, and nobody else, for every choice of the intervals *)
(* and of how much the socket takes (maybe_send_ping, flush).              *)
THEOREM AlwaysDroppedExactly == Spec => []DroppedExactly
  <1>1. IInv => DeadPeerDropped
    <2> SUFFICES ASSUME IInv, phase = "polled" PROVE quiet <= DeadAfter
      BY DEF DeadPeerDropped
    <2>1. /\ quiet \in Nat
          /\ queued_ping # None => queued_ping.age \in Nat
          /\ last_ping_sent # None => last_ping_sent \in Nat
      BY DEF IInv, TypeOK, ProgressTypes, PingTypes, Queued, Age
    <2>2. DeadAfter = 4 * T + PING_INTERVAL - 1
      BY DEF DeadAfter, T
    <2>3. CASE quiet < PING_TIMEOUT
      BY <2>1, <2>2, <2>3, TFacts, Constants
    <2>4. CASE quiet >= PING_TIMEOUT /\ queued_ping # None
      <3>1. quiet <= 3 * T + queued_ping.age /\ queued_ping.age < PING_TIMEOUT
        BY <2>4 DEF IInv, PingInv, QuietQueued, PolledPings
      <3> QED
        BY <2>1, <2>2, <2>4, <3>1, TFacts, Constants
    <2>5. CASE quiet >= PING_TIMEOUT /\ queued_ping = None
      <3>1. last_ping_sent # None /\ last_ping_sent < PING_INTERVAL
        BY <2>5 DEF IInv, PingInv, PolledPings, Within
      <3>2. quiet <= 4 * T + last_ping_sent
        BY <2>5, <3>1 DEF IInv, PingInv, QuietIdle
      <3> QED
        BY <2>1, <2>2, <3>1, <3>2, TFacts, Constants
    <2> QED
      BY <2>1, <2>3, <2>4, <2>5, Constants
  <1>2. IInv => DeafPeerDropped
    <2> SUFFICES ASSUME IInv, phase = "polled" PROVE deaf < WRITE_STALL_TIMEOUT
      BY DEF DeafPeerDropped
    <2>1. /\ send_stalled_since # None => send_stalled_since < WRITE_STALL_TIMEOUT
          /\ deaf > 0 => send_stalled_since # None /\ deaf <= send_stalled_since
      BY DEF IInv, DeafSince
    <2>2. deaf \in Nat /\ (send_stalled_since # None => send_stalled_since \in Nat)
      BY DEF IInv, TypeOK, ProgressTypes, Age
    <2> QED
      BY <2>1, <2>2, Constants
  <1>3. IInv => ClosedForCause
    BY DEF IInv
  <1>4. IInv => DroppedExactly
    BY <1>1, <1>2, <1>3 DEF DroppedExactly
  <1> QED
    BY <1>4, Inductive, PTL

(* Once a frame was skipped, no droppable frame is sent or staged before a *)
(* resync point went out, for every limit and every backlog                *)
(* (player_flow_decision).                                                 *)
THEOREM GapAlwaysClosedByResync == Spec => GapClosedByResync
  <1>1. ASSUME IInv, RelayFrame("droppable"), gap = "skipped"
        PROVE  backlog' = backlog
    <2> DEFINE d == player_flow_decision("droppable", relay_congestion)
    <2>1. d.flow \in {"send", "skip", "disconnect"} /\ d.flow # "send"
      BY <1>1, FlowType, GapDecision DEF IInv, TypeOK, GapCongested
    <2>2. UNCHANGED <<out, staged_media_bytes>>
      BY <1>1, <2>1 DEF RelayFrame
    <2> QED
      BY <2>2 DEF backlog
  <1>2. IInv => (RelayFrame("droppable") /\ gap = "skipped" => backlog' = backlog)
    BY <1>1
  <1> QED
    BY <1>2, Inductive, PTL DEF GapClosedByResync

=============================================================================
