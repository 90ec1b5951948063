----------------------------- MODULE RelayTick -----------------------------
(***************************************************************************)
(* One poll of the server over its connections (server/mod.rs), as far as  *)
(* the init-frame cache is concerned: who owns a route, whose frames are   *)
(* cached under it, and what a player that joins is sent.  A tick receives *)
(* from each connection in turn, applies the evictions this left, replays  *)
(* the cache to new players, relays and caches the queued frames one by    *)
(* one, and removes what closed.  Between ticks the host answers the       *)
(* authorizations it put off, injects frames and stops the server.         *)
(*                                                                         *)
(* The cache is that of InitCache; a payload is known by its publisher.    *)
(* The connections are Session's in outline: one stream each, no pinned    *)
(* relay keys, no overflow of the eviction queues (Session has these).     *)
(***************************************************************************)
EXTENDS InitCache
LOCAL INSTANCE SequencesExt

CONSTANTS
    ConnOrder,                    \* the connections, oldest first
    Bodies,                       \* Publisher -> the frames it may send
    MAX_PENDING_RELAY_FRAMES,     \* per connection, and for injected frames
    Releasable,                   \* publishers whose routes the host lets peers release
    Playable,                     \* routes some connection asks to play
    Deferrable,                   \* the <<role, route>> the host may put off
    Early,                        \* connections accepted at the outset
    MaxCommands                   \* bound on the commands read per recv

Conn == {ConnOrder[i] : i \in 1 .. Len(ConnOrder)}
LastConn == Len(ConnOrder)

ASSUME RelayTickAssumption ==
    /\ Local = Conn
    /\ Bodies \in [Publisher -> SUBSET Frames]

VARIABLES
    routes,                       \* Route -> its publisher or None
    conns,                        \* Conn -> its state, see NewConn
    external_route_ids,           \* external ids in use
    injected, orphaned,           \* frames without a connection to keep them
    phase,                        \* where the poll loop is
    at,                           \* the connection being received from
    commands,                     \* commands it has sent in this recv
    evictions_queued,
    batch,                        \* the frames of this tick still to be relayed
    shown,                        \* the latest replay
    stopped                       \* publishers a stop has ended

tickVars == <<cacheVars, routes, conns, external_route_ids, injected, orphaned, phase, at, commands,
              evictions_queued, batch, shown, stopped>>

NoRequest == [role |-> None]

NewConn ==
    [status |-> "new",            \* not accepted yet, open, closed or gone
     publishes |-> None,          \* the route of its publishing stream
     claimed |-> None,            \* claimed_publish_route
     plays |-> None,
     relay_enabled |-> FALSE,
     needs_init_frames |-> FALSE,
     request |-> NoRequest,       \* put off by the host
     evictions |-> {}, abandoned |-> {},
     relay |-> <<>>]

NothingShown == [during |-> None]

\* The batch of a tick by source: a publisher, or the orphans (None).
Source == Publisher \cup {None}
NoBatch == [q \in Source |-> <<>>]

TickInit ==
    /\ CacheInit
    /\ routes = [r \in Route |-> None]
    /\ conns = [c \in Conn |-> [NewConn EXCEPT !.status = IF c \in Early THEN "open" ELSE "new"]]
    /\ external_route_ids = {}
    /\ injected = <<>>
    /\ orphaned = <<>>
    /\ phase = "idle"
    /\ at = 1
    /\ commands = 0
    /\ evictions_queued = FALSE
    /\ batch = NoBatch
    /\ shown = NothingShown
    /\ stopped = {}

(***************************************************************************)
(* Connections.                                                            *)
(***************************************************************************)
Present(c) == conns[c].status \in {"open", "closed"}

\* The routes a connection stops feeding when it gives up publishing.
Left(conn) == {conn.claimed, conn.publishes} \ {None}

Freed(table, c, keys) ==
    [r \in Route |-> IF r \in keys /\ table[r] = c THEN None ELSE table[r]]

\* complete_publish_authorized: a contended route changes nothing.
Publishing(conn, r) ==
    [conn EXCEPT !.publishes = r, !.claimed = r, !.plays = None, !.relay_enabled = TRUE,
                 !.request = NoRequest, !.evictions = @ \cup (Left(conn) \ {r})]

\* complete_play_authorized, with request_init_replay.
Playing(conn, r) ==
    [conn EXCEPT !.publishes = None, !.claimed = None, !.plays = r, !.relay_enabled = TRUE,
                 !.request = NoRequest, !.evictions = @ \cup Left(conn),
                 !.needs_init_frames = TRUE]

\* FCUnpublish, deleteStream, closeStream.
Unpublished(conn) ==
    [conn EXCEPT !.publishes = None, !.claimed = None, !.plays = None, !.relay_enabled = FALSE,
                 !.request = NoRequest, !.evictions = @ \cup Left(conn)]

StartPublish(c, r) ==
    /\ routes[r] \in {None, c}
    /\ routes' = [Freed(routes, c, {conns[c].claimed}) EXCEPT ![r] = c]
    /\ conns' = [conns EXCEPT ![c] = Publishing(@, r)]

StartPlay(c, r) ==
    /\ routes' = Freed(routes, c, {conns[c].claimed})
    /\ conns' = [conns EXCEPT ![c] = Playing(@, r)]

\* replay_init_frames_for_conn: whether it takes place, and what it sends.
CanReplay(conn) ==
    /\ conn.status = "open"
    /\ conn.needs_init_frames
    /\ conn.plays # None /\ conn.relay_enabled
    /\ conn.request.role # "play"

Replayed(conn) == IF CanReplay(conn) THEN [conn EXCEPT !.needs_init_frames = FALSE] ELSE conn

\* The publishers whose payloads an entry holds.
Sources(c) ==
    {b.by : b \in ({c.metadata, c.last_keyframe, c.video.combined, c.audio.combined}
                   \cup {c.video.track[t] : t \in Track} \cup {c.audio.track[t] : t \in Track})
                  \ {None}}

Show(when, players) ==
    LET routed == {r \in {conns'[c].plays : c \in players} : stream_cache'[r] # None}
    IN  shown' = IF routed = {} THEN NothingShown
                 ELSE [during |-> when,
                       content |-> [r \in routed |-> Sources(stream_cache'[r])]]

(***************************************************************************)
(* Between two ticks: the host.                                            *)
(***************************************************************************)
HostKeeps == UNCHANGED <<orphaned, phase, at, commands, evictions_queued, batch, stopped>>

\* complete_publish_authorization.
CompletePublish(c, allow) ==
    /\ phase = "idle" /\ conns[c].status = "open"
    /\ conns[c].request.role = "publish"
    /\ LET r == conns[c].request.route
       IN  \/ allow /\ StartPublish(c, r)
           \/ /\ ~allow \/ routes[r] \notin {None, c}
              /\ conns' = [conns EXCEPT ![c].request = NoRequest]
              /\ UNCHANGED routes
    /\ shown' = NothingShown
    /\ UNCHANGED <<cacheVars, external_route_ids, injected>>
    /\ HostKeeps

\* complete_play_authorization: init frames that are due follow at once.
CompletePlay(c, allow) ==
    LET answered == IF allow THEN Playing(conns[c], conns[c].request.route)
                    ELSE [conns[c] EXCEPT !.request = NoRequest]
    IN  /\ phase = "idle" /\ conns[c].status = "open"
        /\ conns[c].request.role = "play"
        /\ routes' = IF allow THEN Freed(routes, c, {conns[c].claimed}) ELSE routes
        /\ conns' = [conns EXCEPT ![c] = Replayed(answered)]
        /\ UNCHANGED <<cacheVars, external_route_ids, injected>>
        /\ Show("completion", IF CanReplay(answered) THEN {c} ELSE {})
        /\ HostKeeps

\* Server::inject_relay_frame: the route is claimed for the external id.
InjectRelayFrame(x, f) ==
    LET r == ExternalRoute[x]
    IN  /\ phase = "idle"
        /\ Len(injected) < MAX_PENDING_RELAY_FRAMES
        /\ routes[r] \in {None, x}
        /\ routes' = [routes EXCEPT ![r] = x]
        /\ external_route_ids' = external_route_ids \cup {x}
        /\ injected' = Append(injected, [from |-> x, route |-> r, frame |-> f])
        /\ shown' = NothingShown
        /\ stopped' = stopped \ {x}
        /\ UNCHANGED <<cacheVars, conns, orphaned, phase, at, commands, evictions_queued, batch>>

\* release_injected_route, from the host or for a route idle too long.
InjectionReleased(x) ==
    LET Others(q) == q.from # x
    IN  /\ x \in external_route_ids
        /\ external_route_ids' = external_route_ids \ {x}
        /\ routes' = Freed(routes, x, Route)
        /\ injected' = SelectSeq(injected, Others)
        /\ Becomes(Untrack(Storage, x, ExternalRoute[x]))

ReleaseInjectedRoute(x) ==
    /\ phase = "idle"
    /\ InjectionReleased(x)
    /\ shown' = NothingShown
    /\ UNCHANGED conns
    /\ HostKeeps

\* release_all_injected_routes with the clears of stop.
DropQueuedMedia == injected' = <<>> /\ orphaned' = <<>>

\* stop: connections, routes, queued media and the cache go.
Stop ==
    /\ phase = "idle"
    /\ \E c \in Conn : Present(c)
    /\ conns' = [c \in Conn |-> IF Present(c) THEN [NewConn EXCEPT !.status = "gone"] ELSE conns[c]]
    /\ routes' = [r \in Route |-> None]
    /\ external_route_ids' = {}
    /\ DropQueuedMedia
    /\ stream_cache' = [r \in Route |-> None]
    /\ publisher_cache_keys' = [p \in Publisher |-> <<>>]
    /\ shown' = NothingShown
    /\ stopped' = External \cup {c \in Conn : conns[c].status # "new"}
    /\ UNCHANGED <<phase, at, commands, evictions_queued, batch>>

\* A new connection goes to the end of the list.
Accept(i) ==
    /\ phase = "idle"
    /\ conns[ConnOrder[i]].status = "new"
    /\ \A j \in 1 .. i - 1 : conns[ConnOrder[j]].status # "new"
    /\ conns' = [conns EXCEPT ![ConnOrder[i]].status = "open"]
    /\ shown' = NothingShown
    /\ UNCHANGED <<cacheVars, routes, external_route_ids, injected>>
    /\ HostKeeps

(***************************************************************************)
(* A tick (process_connections_impl).                                      *)
(***************************************************************************)
\* drain_pending_cache_evictions: on the storage, and on the connections.
\* Markers of abandoned routes are kept, and drained again every time.
Pending(conn) == conn.evictions \cup conn.abandoned

DrainedStorage(st, cs) ==
    LET drops(p) == IF p \in Conn THEN Pending(cs[p]) ELSE {}
        keys == [p \in Publisher |-> SelectSeq(st.keys[p], LAMBDA r : r \notin drops(p))]
        left == [st EXCEPT !.keys = keys]
        orphans == {r \in Route : /\ \E c \in Conn : r \in drops(c) \cap Tracks(st, c)
                                  /\ \A p \in Publisher : r \notin Tracks(left, p)}
    IN  [left EXCEPT !.cache = [r \in Route |-> IF r \in orphans THEN None ELSE @[r]]]

DrainedConns(cs) ==
    [c \in Conn |-> [cs[c] EXCEPT !.abandoned = Pending(cs[c]), !.evictions = {}]]

BeginTick ==
    /\ phase = "idle"
    /\ phase' = "recv" /\ at' = 1 /\ commands' = 0 /\ evictions_queued' = FALSE
    /\ conns' = DrainedConns(conns)
    /\ shown' = NothingShown
    /\ Becomes(DrainedStorage(Storage, conns))
    /\ UNCHANGED <<routes, external_route_ids, injected, orphaned, batch, stopped>>

\* reap_stale_inject_routes: how long a route must be idle is left open.
ReapStaleInjectRoute(x) ==
    /\ phase = "recv" /\ at = 1 /\ commands = 0
    /\ \A i \in 1 .. Len(injected) : injected[i].from # x
    /\ InjectionReleased(x)
    /\ shown' = NothingShown
    /\ UNCHANGED <<conns, orphaned, phase, at, commands, evictions_queued, batch, stopped>>

Receiving(c) ==
    /\ phase = "recv" /\ at <= LastConn
    /\ c = ConnOrder[at]
    /\ conns[c].status = "open"
    /\ commands < MaxCommands
    /\ commands' = commands + 1
    /\ shown' = NothingShown
    /\ UNCHANGED <<cacheVars, external_route_ids, injected, orphaned, phase, at, evictions_queued, batch, stopped>>

PublishCommand(c, r) ==
    /\ Receiving(c)
    /\ conns[c].request = NoRequest
    /\ StartPublish(c, r)

PlayCommand(c, r) ==
    /\ Receiving(c)
    /\ conns[c].request = NoRequest
    /\ r \in Playable
    /\ StartPlay(c, r)

\* publish or play, put off by the host.
DeferredCommand(c, role, r) ==
    /\ Receiving(c)
    /\ <<role, r>> \in Deferrable
    /\ conns[c].request = NoRequest
    /\ conns' = [conns EXCEPT ![c].request = [role |-> role, route |-> r]]
    /\ UNCHANGED routes

UnpublishCommand(c) ==
    /\ Receiving(c)
    /\ {conns[c].publishes, conns[c].plays} # {None}
    /\ routes' = Freed(routes, c, {conns[c].claimed})
    /\ conns' = [conns EXCEPT ![c] = Unpublished(@)]

\* releaseStream takes the route from whoever owns it.
ReleaseStreamCommand(c, r) ==
    /\ Receiving(c)
    /\ routes[r] \in Releasable
    /\ routes' = [routes EXCEPT ![r] = None]
    /\ UNCHANGED conns

\* A frame of the publishing stream; queueing it lifts the route's marker.
MediaFrame(c, f) ==
    LET r == conns[c].publishes
    IN  /\ Receiving(c)
        /\ r # None /\ conns[c].relay_enabled /\ conns[c].request.role # "publish"
        /\ Len(conns[c].relay) < MAX_PENDING_RELAY_FRAMES
        /\ conns' = [conns EXCEPT ![c].abandoned = @ \ {r},
                                  ![c].relay = Append(@, [from |-> c, route |-> r, frame |-> f])]
        /\ UNCHANGED routes

ServeAnyway(conn, queued) == CanReplay(conn)

ServeNow(conn, queued) == ~queued /\ CanReplay(conn)

\* The end of a connection's recv.  A new player is served at once unless a
\* connection before it gave up a route in this loop.
EndRecv(c) ==
    LET queued == evictions_queued \/ conns[c].evictions # {}
        serve == ServeNow(conns[c], queued)
    IN  /\ phase = "recv" /\ at <= LastConn
        /\ c = ConnOrder[at]
        /\ at' = at + 1 /\ commands' = 0
        /\ evictions_queued' = queued
        /\ UNCHANGED <<cacheVars, external_route_ids, injected, orphaned, phase, batch, stopped>>
        /\ \/ /\ conns' = [conns EXCEPT ![c] = IF serve THEN Replayed(@) ELSE @]
              /\ Show("recv", IF serve THEN {c} ELSE {})
              /\ UNCHANGED routes
           \/ \* It closes: its routes are free for the connections after it.
              /\ conns[c].status = "open"
              /\ conns' = [conns EXCEPT ![c].status = "closed"]
              /\ routes' = Freed(routes, c, Route)
              /\ shown' = NothingShown

Displaced(c) ==
    conns[c].status = "open" /\ conns[c].claimed # None /\ routes[conns[c].claimed] # c

\* detach_displaced_route_owners.
DetachedConns(cs) ==
    [c \in Conn |->
        IF Displaced(c)
        THEN [cs[c] EXCEPT !.claimed = None, !.relay_enabled = FALSE,
                           !.evictions = @ \cup Left(cs[c]),
                           !.relay = SelectSeq(@, LAMBDA q : q.route \notin Left(cs[c]))]
        ELSE cs[c]]

\* After the recv loop: evictions, displaced owners, evictions again, the
\* batch, and the replay to the players that still wait for one.
AfterRecv ==
    LET detached == DetachedConns(DrainedConns(conns))
        drained == DrainedConns(detached)
        players == {c \in Conn : CanReplay(drained[c])}
    IN  /\ phase = "recv" /\ at = LastConn + 1
        /\ phase' = "send"
        /\ Becomes(DrainedStorage(DrainedStorage(Storage, conns), detached))
        /\ batch' = [q \in Source |->
                       CASE q = None -> orphaned
                         [] q \in Conn -> drained[q].relay
                         [] OTHER -> SelectSeq(injected, LAMBDA e : e.from = q)]
        /\ conns' = [c \in Conn |-> [Replayed(drained[c]) EXCEPT !.relay = <<>>]]
        /\ injected' = <<>>
        /\ orphaned' = <<>>
        /\ Show("tick", players)
        /\ UNCHANGED <<routes, external_route_ids, at, commands, evictions_queued, stopped>>

\* cache_relay_frame_unless_orphaned.
MayAlwaysCache(q) == TRUE

MayCache(q) ==
    q.from \in Conn => Present(q.from) /\ q.route \notin conns[q.from].abandoned

\* The next frame of the batch is cached; orphans go first, and the turns of
\* the publishers are left open here.
SendFrame(source) ==
    LET q == Head(batch[source])
    IN  /\ phase = "send"
        /\ batch[source] # <<>>
        /\ batch[None] # <<>> => source = None
        /\ batch' = [batch EXCEPT ![source] = Tail(@)]
        /\ IF MayCache(q) THEN Cache(q.from, q.route, q.frame) ELSE UNCHANGED cacheVars
        /\ shown' = NothingShown
        /\ UNCHANGED <<routes, conns, external_route_ids, injected, orphaned, phase, at, commands,
                       evictions_queued, stopped>>

Concat(seqs, order) == FlattenSeq([i \in 1 .. Len(order) |-> seqs[order[i]]])

\* The end of the tick.  What the send budget left over is queued again
\* (requeue_relay_frame); connections that closed are removed, and their
\* frames kept as orphans (remove_closed_connections).
EndTick ==
    LET gone == {c \in Conn : conns[c].status = "closed"}
    IN  /\ phase = "send"
        /\ phase' = "idle"
        /\ batch' = NoBatch
        /\ injected' = Concat(batch, SetToSeq(External))
        /\ orphaned' = batch[None] \o Concat([c \in Conn |-> IF c \in gone THEN batch[c] ELSE <<>>], ConnOrder)
        /\ conns' = [c \in Conn |->
                       IF c \in gone THEN [NewConn EXCEPT !.status = "gone"]
                       ELSE [conns[c] EXCEPT !.relay = batch[c]]]
        /\ routes' = [r \in Route |-> IF routes[r] \in gone THEN None ELSE routes[r]]
        /\ publisher_cache_keys' = [p \in Publisher |->
                                      IF p \in gone THEN <<>> ELSE publisher_cache_keys[p]]
        /\ stream_cache' = [r \in Route |->
                              IF /\ \E c \in gone : r \in Tracks(Storage, c)
                                 /\ \A p \in Publisher \ gone : r \notin Tracks(Storage, p)
                              THEN None ELSE stream_cache[r]]
        /\ shown' = NothingShown
        /\ UNCHANGED <<external_route_ids, at, commands, evictions_queued, stopped>>

TickNext ==
    \/ \E i \in 1 .. LastConn : Accept(i)
    \/ \E c \in Conn, allow \in BOOLEAN : CompletePublish(c, allow) \/ CompletePlay(c, allow)
    \/ \E x \in External :
          \/ \E f \in Bodies[x] : InjectRelayFrame(x, f)
          \/ ReleaseInjectedRoute(x)
          \/ ReapStaleInjectRoute(x)
    \/ Stop
    \/ BeginTick
    \/ \E c \in Conn :
          \/ \E r \in Route : PublishCommand(c, r) \/ PlayCommand(c, r) \/ ReleaseStreamCommand(c, r)
          \/ \E role \in {"publish", "play"}, r \in Route : DeferredCommand(c, role, r)
          \/ UnpublishCommand(c)
          \/ \E f \in Bodies[c] : MediaFrame(c, f)
          \/ EndRecv(c)
    \/ AfterRecv
    \/ \E source \in Source : SendFrame(source)
    \/ EndTick

TickSpec == TickInit /\ [][TickNext]_tickVars

(***************************************************************************)
(* Properties.                                                             *)
(***************************************************************************)
Abandoned(c, r) == r \in Pending(conns[c])

\* What a poll replays to a player never comes from a connection that gave the
\* route up, whichever connection of the loop gave it up and in whatever state
\* its frames were (evictions_queued, the drains of process_connections_impl,
\* cache_relay_frame_unless_orphaned).
ReplayNotAbandoned ==
    shown.during \in {"recv", "tick"} =>
        \A r \in DOMAIN shown.content : \A c \in shown.content[r] \cap Conn : ~Abandoned(c, r)

\* Between polls only the owner of a route tracks its cache entry, or a
\* connection whose eviction is pending: frames that waited in a queue while
\* their publisher left, closed or was displaced do not bring an entry back
\* (cache_relay_frame_unless_orphaned, remove_closed_connections).
TrackedWhileOwned ==
    phase = "idle" =>
        \A p \in Publisher : \A r \in Tracks(Storage, p) :
            IF p \in Conn THEN routes[r] = p \/ Abandoned(p, r) ELSE p \in external_route_ids

\* The publishers of which a frame, a cache entry or a route is left.
InUse ==
    {q.from : q \in ToSet(injected) \cup ToSet(orphaned)
                    \cup UNION {ToSet(conns[c].relay) : c \in Conn}
                    \cup UNION {ToSet(batch[b]) : b \in Source}}
    \cup UNION {Sources(stream_cache[r]) : r \in Cached(Storage)}
    \cup {p \in Publisher : Tracks(Storage, p) # {}}
    \cup {routes[r] : r \in Route}

\* No frame, cached payload, cache key or route of a publisher that a stop
\* ended is there afterwards, whatever the next connections do (Server::stop).
NothingSurvivesStop == InUse \cap stopped = {}

\* What the server keeps belongs to someone: cache entries to the owner of their
\* route, nothing at all to a publisher of before a stop.
TrackedByOwner == TrackedWhileOwned /\ NothingSurvivesStop
=============================================================================
