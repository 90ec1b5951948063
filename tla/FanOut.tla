------------------------------- MODULE FanOut -------------------------------
(***************************************************************************)
(* How queued media becomes the batch of a poll, and what happens to what  *)
(* the send budget leaves over (server/mod.rs, build_relay_frame_batch to  *)
(* remove_closed_connections).                                             *)
(*                                                                         *)
(* A poll receives from the connections in order, merges their queues, the *)
(* frames of publishers that are gone and the injected ones into a batch,  *)
(* and relays it frame by frame until the budget is spent.  The rest goes  *)
(* back to the queues it came from.  When sockets were accepted the poll   *)
(* does this a second time, for them and for messages still buffered, with *)
(* what is left of the budget.  Players are counted, not modelled          *)
(* (PlayerLink has them); a frame is known by its number.  Publishers need *)
(* no approval to relay here: deferred relaying is Session's.              *)
(***************************************************************************)
EXTENDS Integers, Sequences, FiniteSets, SequencesExt

CONSTANTS
    ConnOrder,                    \* the connections, oldest first
    External,                     \* ids of socket-less publishers
    ExternalRoute,                \* External -> the route each one feeds
    Route,
    Audience,                     \* Route -> number of players that receive it
    FrameBytes(_),                \* retained bytes of the n-th frame
    max_relay_sends_per_poll,
    MAX_PENDING_RELAY_FRAMES,
    max_pending_relay_bytes,
    export_max_frames, export_max_bytes,
    MaxFrames,                    \* bound on the frames accepted
    MaxRead, MaxBuffered,         \* bounds on what a connection has for the first pass and the second
    RR_WRAP,                      \* stands for 2^64, where the round-robin offset wraps
    None

Conn == ToSet(ConnOrder)
Publisher == Conn \cup External
LastConn == Len(ConnOrder)

ASSUME FanOutAssumption ==
    /\ IsInjective(ConnOrder)
    /\ Conn \cap External = {}
    /\ ExternalRoute \in [External -> Route]
    /\ Audience \in [Route -> Nat]
    /\ {max_relay_sends_per_poll, MAX_PENDING_RELAY_FRAMES, max_pending_relay_bytes,
        export_max_frames, export_max_bytes} \subseteq Nat \ {0}
    /\ \A n \in 1 .. MaxFrames : FrameBytes(n) \in Nat
    /\ RR_WRAP \in Nat \ {0} /\ \A k \in 1 .. LastConn : RR_WRAP % k = 0

Frame == [n : 1 .. MaxFrames, from : Publisher, route : Route]

VARIABLES
    owner,                        \* Route -> its publisher or None
    conns,                        \* Conn -> [status, publishes, queue]
    pending_injected_relay,
    orphaned_relay,
    relay_local_rr_offset,
    relay_interleave_inject_first,
    relay_export,                 \* the export ring
    accepted,                     \* the publishers of the frames so far, in order
    again, phase, at, read,       \* where the poll is, again in its second pass
    batch, relay_sends,
    relayed,                      \* the frame relayed last in this pass
    lost,                         \* frames dropped with their route
    sent_in_poll,                 \* what the poll has sent, to be compared with its budget
    exported                      \* numbers of the frames exported, in order

queueVars == <<owner, conns, pending_injected_relay, orphaned_relay>>
exportVars == <<relay_export, exported>>
turnVars == <<relay_local_rr_offset, relay_interleave_inject_first>>
pollVars == <<again, phase, at, read, batch, relay_sends, sent_in_poll>>
vars == <<queueVars, exportVars, turnVars, pollVars, accepted, relayed, lost>>

Idle == [status |-> "open", publishes |-> None, queue |-> <<>>]

Init ==
    /\ owner = [r \in Route |-> None]
    /\ conns = [c \in Conn |-> Idle]
    /\ pending_injected_relay = <<>>
    /\ orphaned_relay = <<>>
    /\ relay_local_rr_offset = 0
    /\ relay_interleave_inject_first = FALSE
    /\ relay_export = <<>>
    /\ accepted = <<>>
    /\ again = FALSE /\ phase = "recv" /\ at = 1 /\ read = 0
    /\ batch = <<>> /\ relay_sends = 0 /\ sent_in_poll = 0
    /\ relayed = None
    /\ lost = {}
    /\ exported = <<>>

Bytes(f) == FrameBytes(f.n)
QueueBytes(q) == FoldLeft(LAMBDA sum, f : sum + Bytes(f), 0, q)
Fits(q, f) ==
    /\ Len(q) < MAX_PENDING_RELAY_FRAMES
    /\ QueueBytes(q) + Bytes(f) <= max_pending_relay_bytes

(***************************************************************************)
(* Receiving: the commands and frames of one connection after the other.   *)
(* Injection and its release come from the host, between polls.            *)
(***************************************************************************)
Reading(c) ==
    /\ phase = "recv" /\ at <= LastConn /\ c = ConnOrder[at]
    /\ conns[c].status = "open"
    /\ read < IF again THEN MaxBuffered ELSE MaxRead
    /\ read' = read + 1
    /\ UNCHANGED <<exportVars, turnVars, again, phase, at, batch, relay_sends, sent_in_poll, relayed>>

Released(c) == [r \in Route |-> IF owner[r] = c THEN None ELSE owner[r]]

Publish(c, r) ==
    /\ Reading(c)
    /\ owner[r] \in {None, c} /\ conns[c].publishes # r
    /\ owner' = [Released(c) EXCEPT ![r] = c]
    /\ conns' = [conns EXCEPT ![c].publishes = r]
    /\ UNCHANGED <<pending_injected_relay, orphaned_relay, accepted, lost>>

Unpublish(c) ==
    /\ Reading(c)
    /\ conns[c].publishes # None
    /\ owner' = Released(c)
    /\ conns' = [conns EXCEPT ![c].publishes = None]
    /\ UNCHANGED <<pending_injected_relay, orphaned_relay, accepted, lost>>

\* Conn::queue_relay_frame; a frame that does not fit is an error.
QueueRelayFrame(c) ==
    LET f == [n |-> Len(accepted) + 1, from |-> c, route |-> conns[c].publishes]
    IN  /\ Reading(c)
        /\ conns[c].publishes # None
        /\ Len(accepted) < MaxFrames
        /\ Fits(conns[c].queue, f)
        /\ conns' = [conns EXCEPT ![c].queue = Append(@, f)]
        /\ accepted' = Append(accepted, f.from)
        /\ UNCHANGED <<owner, pending_injected_relay, orphaned_relay, lost>>

\* An authorized releaseStream takes the route of another publisher.
ReleaseStream(c, r) ==
    /\ Reading(c)
    /\ owner[r] \in Conn \ {c}
    /\ owner' = [owner EXCEPT ![r] = None]
    /\ UNCHANGED <<conns, pending_injected_relay, orphaned_relay, accepted, lost>>

EndRecv ==
    /\ phase = "recv" /\ at <= LastConn
    /\ at' = at + 1 /\ read' = 0
    /\ LET c == ConnOrder[at]
       IN  \/ UNCHANGED <<owner, conns>>
           \/ /\ conns[c].status = "open"
              /\ conns' = [conns EXCEPT ![c].status = "closed"]
              /\ owner' = Released(c)
    /\ UNCHANGED <<pending_injected_relay, orphaned_relay, exportVars, turnVars, accepted, lost,
                   again, phase, batch, relay_sends, sent_in_poll, relayed>>

BetweenPolls ==
    /\ ~again /\ phase = "recv" /\ at = 1 /\ read = 0
    /\ UNCHANGED <<turnVars, pollVars, relayed>>

\* Server::inject_relay_frame.
InjectRelayFrame(x) ==
    LET f == [n |-> Len(accepted) + 1, from |-> x, route |-> ExternalRoute[x]]
    IN  /\ BetweenPolls
        /\ Len(accepted) < MaxFrames
        /\ Fits(pending_injected_relay, f)
        /\ owner[f.route] \in {None, x}
        /\ owner' = [owner EXCEPT ![f.route] = x]
        /\ pending_injected_relay' = Append(pending_injected_relay, f)
        /\ accepted' = Append(accepted, f.from)
        /\ UNCHANGED <<conns, orphaned_relay, exportVars, lost>>

\* Server::release_injected_route.
ReleaseInjectedRoute(x) ==
    LET ours == {f \in ToSet(pending_injected_relay) : f.route = ExternalRoute[x]}
    IN  /\ BetweenPolls
        /\ x \in {owner[r] : r \in Route}
        /\ owner' = Released(x)
        /\ pending_injected_relay' = SelectSeq(pending_injected_relay, LAMBDA f : f \notin ours)
        /\ lost' = lost \cup {f.n : f \in ours}
        /\ UNCHANGED <<conns, orphaned_relay, exportVars, accepted>>

\* Server::drain_relay_export.
DrainExport ==
    /\ BetweenPolls
    /\ relay_export # <<>>
    /\ relay_export' = <<>>
    /\ UNCHANGED <<queueVars, exported, accepted, lost>>

(***************************************************************************)
(* The batch.                                                              *)
(***************************************************************************)
RouteOrder(frames) ==
    FoldLeft(LAMBDA seen, f : IF f.route \in ToSet(seen) THEN seen ELSE Append(seen, f.route),
             <<>>, frames)

\* The frames of each route, the routes in the order they are met.
ByRoute(frames) ==
    LET order == RouteOrder(frames)
    IN  [i \in DOMAIN order |-> SelectSeq(frames, LAMBDA f : f.route = order[i])]

\* Mutant: queues are popped from the end.
RoundsPopping(queues, start) ==
    LET n == Len(queues)
        longest == FoldLeft(LAMBDA m, q : IF Len(q) > m THEN Len(q) ELSE m, 0, queues)
        Turn(k) == LET q == queues[((start + k) % n) + 1]
                       round == (k \div n) + 1
                   IN  IF round <= Len(q) THEN <<q[Len(q) + 1 - round]>> ELSE <<>>
    IN  FlattenSeq([k \in 1 .. n * longest |-> Turn(k - 1)])

\* One frame of each queue in turn, from queue number start (from 0) on.
Rounds(queues, start) ==
    LET n == Len(queues)
        longest == FoldLeft(LAMBDA m, q : IF Len(q) > m THEN Len(q) ELSE m, 0, queues)
        Turn(k) == LET q == queues[((start + k) % n) + 1]
                       round == (k \div n) + 1
                   IN  IF round <= Len(q) THEN <<q[round]>> ELSE <<>>
    IN  FlattenSeq([k \in 1 .. n * longest |-> Turn(k - 1)])

round_robin_relay_queues(queues, start) ==
    LET routes == ByRoute(FlattenSeq(queues))
    IN  IF routes = <<>> THEN <<>> ELSE Rounds(routes, start % Len(routes))

merge_local_and_injected_by_route(local, injected, inject_first) ==
    LET routes == ByRoute(local \o injected)
        start == IF inject_first
                 THEN SelectInSeq(routes, LAMBDA q : Head(q).from \in External)
                 ELSE 0
    IN  IF routes = <<>> THEN <<>> ELSE Rounds(routes, IF start = 0 THEN 0 ELSE start - 1)

Displaced(c) ==
    /\ conns[c].status = "open"
    /\ conns[c].publishes # None /\ owner[conns[c].publishes] # c

\* detach_displaced_route_owners: the frames of the lost route go.
Detached(c) == {f \in ToSet(conns[c].queue) : Displaced(c) /\ f.route = conns[c].publishes}

\* Mutant: a budget for each pass.
SendsOfPass == 0

\* The budget is spent once per poll.
SendsSoFar == relay_sends

\* build_relay_frame_batch, after detach_displaced_route_owners.
BuildBatch ==
    LET kept == [c \in Conn |-> SelectSeq(conns[c].queue, LAMBDA f : f \notin Detached(c))]
        queues == SelectSeq([i \in 1 .. LastConn |-> kept[ConnOrder[i]]], LAMBDA q : q # <<>>)
        local == orphaned_relay
                 \o (IF queues = <<>> THEN <<>>
                     ELSE round_robin_relay_queues(queues, relay_local_rr_offset % Len(queues)))
    IN  /\ phase = "recv" /\ at = LastConn + 1
        /\ phase' = "send"
        /\ relay_sends' = SendsSoFar
        /\ batch' = merge_local_and_injected_by_route(local, pending_injected_relay,
                                                      relay_interleave_inject_first)
        /\ conns' = [c \in Conn |->
                       [conns[c] EXCEPT !.queue = <<>>,
                                        !.publishes = IF Displaced(c) THEN None ELSE @]]
        /\ lost' = lost \cup {f.n : f \in UNION {Detached(c) : c \in Conn}}
        /\ orphaned_relay' = <<>>
        /\ pending_injected_relay' = <<>>
        /\ relay_local_rr_offset' = IF queues = <<>> THEN relay_local_rr_offset
                                    ELSE (relay_local_rr_offset + 1) % RR_WRAP
        /\ relay_interleave_inject_first' = ~relay_interleave_inject_first
        /\ UNCHANGED <<owner, exportVars, accepted, again, at, read, sent_in_poll, relayed>>

(***************************************************************************)
(* Relaying and exporting.                                                 *)
(***************************************************************************)
\* RelayExportBuffer::push_clone: the oldest frames make room.
PushClone(ring, f) ==
    LET fitting == {i \in 1 .. Len(ring) + 1 :
                      LET rest == SubSeq(ring, i, Len(ring))
                      IN  /\ Len(rest) < export_max_frames
                          /\ QueueBytes(rest) + Bytes(f) <= export_max_bytes}
        first == CHOOSE i \in fitting : \A j \in fitting : i <= j
    IN  IF Bytes(f) > export_max_bytes THEN <<>>
        ELSE Append(SubSeq(ring, first, Len(ring)), f)

\* Frames pushed one after the other; injected ones are not exported.
Exported(frames) ==
    LET local == SelectSeq(frames, LAMBDA f : f.from \in Conn)
    IN  /\ relay_export' = FoldLeft(PushClone, relay_export, local)
        /\ exported' = exported \o [i \in DOMAIN local |-> local[i].n]

OverBudget(f) ==
    /\ Audience[f.route] > 0
    /\ relay_sends > 0
    /\ relay_sends + Audience[f.route] > max_relay_sends_per_poll

\* One frame of send_and_export_relay_frames.  Flow control decides how many
\* of the players it is sent to.
SendFrame(delivered) ==
    LET f == Head(batch)
    IN  /\ phase = "send" /\ batch # <<>>
        /\ ~OverBudget(f)
        /\ relay_sends' = relay_sends + delivered
        /\ sent_in_poll' = sent_in_poll + delivered
        /\ relayed' = f
        /\ batch' = Tail(batch)
        /\ Exported(<<f>>)
        /\ UNCHANGED <<queueVars, turnVars, accepted, lost, again, phase, at, read>>

(***************************************************************************)
(* What is left over.                                                      *)
(***************************************************************************)
\* Mutant: what a full queue drops is not exported.
PushOrphanedSilently(state, f) ==
    [state EXCEPT !.queue = IF Fits(@, f) THEN Append(@, f) ELSE Append(Tail(@), f)]

\* push_orphaned_relay on the queue and on what it has exported.
PushOrphaned(state, f) ==
    LET q == state.queue
        fitting == {i \in 1 .. Len(q) + 1 : Fits(SubSeq(q, i, Len(q)), f)}
        first == CHOOSE i \in fitting : \A j \in fitting : i <= j
    IN  IF fitting = {} THEN [queue |-> q, dropped |-> Append(state.dropped, f)]
        ELSE [queue |-> Append(SubSeq(q, first, Len(q)), f),
              dropped |-> state.dropped \o SubSeq(q, 1, first - 1)]

\* The frames of the connections that go, the last connection first.
ClosedQueues(frames, closed) ==
    FlattenSeq([i \in 1 .. LastConn |->
        LET c == ConnOrder[LastConn + 1 - i]
        IN  IF c \in closed THEN SelectSeq(frames, LAMBDA f : f.from = c) ELSE <<>>])

\* poll_impl: sockets accepted after the first pass get a second one, which keeps the
\* poll's count of sends and takes the sources in the same order.
SecondPass(new) ==
    /\ new => ~again
    /\ again' = new
    /\ relay_sends' = IF new THEN relay_sends ELSE 0
    /\ sent_in_poll' = IF new THEN sent_in_poll ELSE 0
    /\ relay_interleave_inject_first' = (relay_interleave_inject_first # new)

\* requeue_relay_frame for the rest of the batch, flush_connections, in which
\* the sockets of failed break, and remove_closed_connections.
EndPass(failed, new) ==
    LET closed == failed \cup {c \in Conn : conns[c].status = "closed"}
        ownerless == SelectSeq(batch, LAMBDA f : f.from \in Conn /\ conns[f.from].status = "gone")
        orphans == FoldLeft(PushOrphaned, [queue |-> <<>>, dropped |-> <<>>],
                            ownerless \o ClosedQueues(batch, closed))
    IN  /\ phase = "send"
        /\ batch # <<>> => OverBudget(Head(batch))
        /\ \A c \in failed : conns[c].status = "open"
        /\ phase' = "recv" /\ at' = 1 /\ read' = 0
        /\ batch' = <<>>
        /\ SecondPass(new)
        /\ pending_injected_relay' = SelectSeq(batch, LAMBDA f : f.from \in External)
        /\ orphaned_relay' = orphans.queue
        /\ Exported(orphans.dropped)
        /\ conns' = [c \in Conn |->
                       IF conns[c].status = "open" /\ c \notin failed
                       THEN [conns[c] EXCEPT !.queue = SelectSeq(batch, LAMBDA f : f.from = c)]
                       ELSE [Idle EXCEPT !.status = "gone"]]
        /\ owner' = [r \in Route |-> IF owner[r] \in failed THEN None ELSE owner[r]]
        /\ relayed' = None
        /\ UNCHANGED <<relay_local_rr_offset, accepted, lost>>

Next ==
    \/ \E c \in Conn :
          \/ \E r \in Route : Publish(c, r) \/ ReleaseStream(c, r)
          \/ Unpublish(c)
          \/ QueueRelayFrame(c)
    \/ \E x \in External : InjectRelayFrame(x) \/ ReleaseInjectedRoute(x)
    \/ DrainExport
    \/ EndRecv
    \/ BuildBatch
    \/ batch # <<>> /\ \E delivered \in 0 .. Audience[Head(batch).route] : SendFrame(delivered)
    \/ \E failed \in SUBSET Conn, new \in BOOLEAN : EndPass(failed, new)

Spec == Init /\ [][Next]_vars

(***************************************************************************)
(* Properties.                                                             *)
(***************************************************************************)
Waiting ==
    ToSet(orphaned_relay) \cup ToSet(batch) \cup ToSet(pending_injected_relay)
    \cup UNION {ToSet(conns[c].queue) : c \in Conn}

Order == INSTANCE RelayOrder WITH count <- Len(accepted), waiting <- Waiting

\* The media of a publisher on a route is relayed in the order it was sent and
\* without repeats, through every requeue, orphaning, merge and round robin
\* ("relay each frame in order so players receive frames in the same sequence
\* the publisher sent them", send_and_export_relay_frames).
PublisherOrder == Order!Spec

\* A local frame is exported once, when it is relayed or dropped from a full
\* orphan queue, and never while it may still be requeued; injected frames and
\* frames that went with their route are not exported
\* (send_and_export_relay_frames, push_orphaned_relay).
ExportedOnce ==
    LET kept == lost \cup {f.n : f \in Waiting}
    IN  \A n \in DOMAIN accepted :
            Cardinality({i \in DOMAIN exported : exported[i] = n}) =
                IF n \notin kept /\ accepted[n] \in Conn THEN 1 ELSE 0

\* The export ring holds the latest exports, whatever it had to drop to stay
\* within its bounds (RelayExportBuffer::push_clone).
ExportIsRecent ==
    /\ IsSuffix([i \in DOMAIN relay_export |-> relay_export[i].n], exported)
    /\ Len(relay_export) <= export_max_frames
    /\ QueueBytes(relay_export) <= export_max_bytes

\* Both passes of a poll together send no more than its budget, or one frame
\* to its whole audience when that alone exceeds the budget (poll_impl,
\* send_and_export_relay_frames).
WithinSendBudget ==
    \/ sent_in_poll <= max_relay_sends_per_poll
    \/ \E r \in Route : sent_in_poll <= Audience[r]

\* Every queue stays within the limits its frames were admitted under, though
\* requeue_relay_frame puts frames back unchecked.
QueuesBounded ==
    \A q \in {conns[c].queue : c \in Conn} \cup {orphaned_relay, pending_injected_relay} :
        /\ Len(q) <= MAX_PENDING_RELAY_FRAMES
        /\ QueueBytes(q) <= max_pending_relay_bytes

\* What a poll cannot send within its budget waits within the limits of the queues.
BudgetsHold == WithinSendBudget /\ QueuesBounded

\* The host that drains the export sees every local frame once and the latest ones in order.
ExportExact == ExportedOnce /\ ExportIsRecent
=============================================================================
