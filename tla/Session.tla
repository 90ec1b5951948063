------------------------------ MODULE Session ------------------------------
(***************************************************************************)
(* The server's side of RTMP sessions (session/conn.rs): the commands a    *)
(* peer sends on a connection, the publish and play authorizations the     *)
(* host answers at once or later, the publish-route registry all           *)
(* connections share (session/publish_route.rs), and the work a connection *)
(* leaves for the server's poll loop: relay frames, cache evictions and    *)
(* markers of abandoned routes.                                            *)
(*                                                                         *)
(* A route is a pair of an app and a name.  The name is the published      *)
(* stream name, or the relay key a host pinned to the connection.  Message *)
(* contents, timers and the pause and receive flags are left out; a        *)
(* connection may end at any time.                                         *)
(***************************************************************************)
EXTENDS Integers, Sequences, FiniteSets, Lists

CONSTANTS
    Conn,                         \* connection ids
    App, Name,                    \* app names; stream names and relay keys
    None,                         \* Rust's None, and the empty string
    RequestId,                    \* the host's ids for pending authorizations
    PinnedKeys,                   \* relay keys the host may set
    defer_media_relay,            \* relaying waits for the host
    MAX_PENDING_CACHE_EVICTIONS,
    MAX_PENDING_RELAY_FRAMES,
    RESOLVED_AUTH_ID_MEMORY,
    HostReusesIds,                \* the host may give out a request id again
    MaxStreamId,                  \* bound on next_stream_id
    MaxQuestions                  \* bound on the questions put to the host

ASSUME SessionAssumption ==
    /\ None \notin Conn \cup App \cup Name
    /\ PinnedKeys \subseteq Name \cup {None}
    /\ {defer_media_relay, HostReusesIds} \subseteq BOOLEAN
    /\ MAX_PENDING_CACHE_EVICTIONS \in Nat \ {0}
    /\ MAX_PENDING_RELAY_FRAMES \in Nat
    /\ RESOLVED_AUTH_ID_MEMORY \in Nat \ {0}
    /\ {MaxStreamId, MaxQuestions} \subseteq Nat

VARIABLES
    state,                 \* ConnState from the end of the handshake on
    app, relay_key,
    current_stream,        \* id 0 stands for None
    next_stream_id,
    claimed_publish_route,
    relay_enabled,
    pending_auth,          \* pending_publish_auth and pending_play_auth
    resolved_ids,          \* resolved_publish_auth_ids and resolved_play_auth_ids
    auth_sealed,           \* publish_auth_sealed and play_auth_sealed
    backlog,               \* evictions, abandoned routes, relay frames
    routes,                \* PublishRouteRegistry: owner of every route
    asked,                 \* questions put to the host (it may answer any, often)
    grant,                 \* the question whose answer gave the current role
    approved               \* publish for which the host switched the relay on

streamVars == <<current_stream, next_stream_id>>
authVars == <<pending_auth, resolved_ids, auth_sealed, asked>>
routeVars == <<claimed_publish_route, backlog, routes>>
sessionVars == <<state, app, relay_key, streamVars, relay_enabled, authVars, routeVars,
                 grant, approved>>

Role == {"publish", "play"}
Key == App \X Name
Frame == [key : Key, from : Conn]

Stream == [id : 0 .. MaxStreamId, is_publishing : BOOLEAN, is_playing : BOOLEAN,
           name : Name \cup {None}]
NewStream(id) == [id |-> id, is_publishing |-> FALSE, is_playing |-> FALSE, name |-> None]

Request == [name : Name, id : RequestId]
NoRequest == [name |-> None, id |-> None]

Question == [conn : Conn, role : Role, id : RequestId \cup {None}, name : Name,
             stream_id : 1 .. MaxStreamId]
NoGrant == [role |-> None]

SessionInit ==
    /\ state = [c \in Conn |-> "Connected"]
    /\ app = [c \in Conn |-> None]
    /\ relay_key = [c \in Conn |-> None]
    /\ current_stream = [c \in Conn |-> NewStream(0)]
    /\ next_stream_id = [c \in Conn |-> 0]
    /\ claimed_publish_route = [c \in Conn |-> None]
    /\ relay_enabled = [c \in Conn |-> FALSE]
    /\ pending_auth = [c \in Conn |-> [r \in Role |-> NoRequest]]
    /\ resolved_ids = [c \in Conn |-> [r \in Role |-> <<>>]]
    /\ auth_sealed = [c \in Conn |-> [r \in Role |-> FALSE]]
    /\ backlog = [c \in Conn |-> [evictions |-> <<>>, abandoned |-> <<>>, relay |-> <<>>]]
    /\ routes = [k \in Key |-> None]
    /\ asked = {}
    /\ grant = [c \in Conn |-> NoGrant]
    /\ approved = [c \in Conn |-> NewStream(0)]

-----------------------------------------------------------------------------
(* Helpers.                                                                *)

Open(c) == state[c] # "Closed"

(* A connection that reads commands and that the host can reach: one whose *)
(* request timed out has lost its transport, and is removed within the     *)
(* same poll.                                                              *)
Live(c) == Open(c) /\ \A r \in Role : ~auth_sealed[c][r]

HasStream(c) == current_stream[c].id # 0
Pending(c, role) == pending_auth[c][role] # NoRequest

(* conn_transition: forward, or between the two roles.  *)
Rank == [Connected |-> 2, AppConnected |-> 4, StreamCreated |-> 5, Publishing |-> 6, Playing |-> 7]

Transition(from, to) ==
    IF Rank[to] >= Rank[from] \/ <<from, to>> = <<"Playing", "Publishing">> THEN to ELSE from

(* relay_route_key().  *)
RelayRouteKey(c) == IF relay_key[c] # None THEN relay_key[c] ELSE current_stream[c].name

(* PublishRouteRegistry::claim and release, on the table r.  *)
Claimable(r, c, key) == r[key] \in {None, c}
Claim(r, c, key) == IF Claimable(r, c, key) THEN [r EXCEPT ![key] = c] ELSE r
Release(r, c, key) == IF r[key] = c THEN [r EXCEPT ![key] = None] ELSE r

WithoutFramesOf(frames, key) == Without(frames, {f \in Elements(frames) : f.key = key})

NoteAbandonedKeepsFrames(b, key) ==
    LET kept == Without(b.abandoned, {key})
    IN  [b EXCEPT !.abandoned =
            Append(IF Len(kept) >= MAX_PENDING_CACHE_EVICTIONS THEN Tail(kept) ELSE kept, key)]

(* note_abandoned_relay_route: the newest marker is always recorded; the   *)
(* oldest one goes, and takes its queued frames along.                     *)
NoteAbandoned(b, key) ==
    LET kept == Without(b.abandoned, {key})
    IN  IF Len(kept) >= MAX_PENDING_CACHE_EVICTIONS
          THEN [b EXCEPT !.abandoned = Append(Tail(kept), key),
                         !.relay = WithoutFramesOf(@, Head(kept))]
          ELSE [b EXCEPT !.abandoned = Append(kept, key)]

EvictionQueueFull(b) == Len(b.evictions) >= MAX_PENDING_CACHE_EVICTIONS

(* try_push_pending_cache_eviction: a full queue gives up its oldest key,  *)
(* which becomes a marker.                                                 *)
TryPushEviction(b, key) ==
    IF EvictionQueueFull(b)
      THEN [NoteAbandoned(b, Head(b.evictions)) EXCEPT !.evictions = Append(Tail(@), key)]
      ELSE [b EXCEPT !.evictions = Append(@, key)]

(* remember_resolved_auth_id.  *)
Remember(ids, id) ==
    CASE \E i \in 1 .. Len(ids) : ids[i] = id -> ids
      [] id = None -> ids
      [] OTHER -> Append(IF Len(ids) >= RESOLVED_AUTH_ID_MEMORY THEN Tail(ids) ELSE ids, id)

WithdrawForgetsIds(c, roles) ==
    /\ pending_auth' = [pending_auth EXCEPT ![c] =
          [r \in Role |-> IF r \in roles THEN NoRequest ELSE @[r]]]
    /\ UNCHANGED resolved_ids

(* The answered and the withdrawn requests of both roles: their slots are  *)
(* freed and their ids kept.                                               *)
Withdraw(c, roles) ==
    /\ pending_auth' = [pending_auth EXCEPT ![c] =
          [r \in Role |-> IF r \in roles THEN NoRequest ELSE @[r]]]
    /\ resolved_ids' = [resolved_ids EXCEPT ![c] =
          [r \in Role |-> IF r \in roles THEN Remember(@[r], pending_auth[c][r].id) ELSE @[r]]]

-----------------------------------------------------------------------------
(* Giving up and taking publish routes.                                    *)

(* The keys evict_active_publish_route queues: the claimed one and, for a  *)
(* publisher, the one its frames are queued under.                         *)
EvictedNames(c) ==
    {claimed_publish_route[c],
     IF current_stream[c].is_publishing THEN RelayRouteKey(c) ELSE None} \ {None}

(* evict_active_publish_route, claimed route first.  *)
EvictActivePublishRoute(c) ==
    LET claimed == claimed_publish_route[c]
        others == EvictedNames(c) \ {claimed}
        b == IF claimed = None THEN backlog[c] ELSE TryPushEviction(backlog[c], <<app[c], claimed>>)
    IN  /\ routes' = IF claimed = None THEN routes ELSE Release(routes, c, <<app[c], claimed>>)
        /\ claimed_publish_route' = [claimed_publish_route EXCEPT ![c] = None]
        /\ backlog' = [backlog EXCEPT ![c] =
              IF others = {} THEN b ELSE TryPushEviction(b, <<app[c], CHOOSE n \in others : TRUE>>)]

(* claim_publish_route(name): the table, the claim and the backlog it      *)
(* leaves.  A switch releases the previous route and queues its eviction;  *)
(* when that queue is full the switch is undone.                           *)
ClaimPublishRoute(c, name) ==
    LET key == <<app[c], name>>
        prev == claimed_publish_route[c]
        prevKey == <<app[c], prev>>
        taken == Claim(routes, c, key)
        switched == Release(taken, c, prevKey)
    IN  CASE ~Claimable(routes, c, key) ->
               [outcome |-> "Contended", routes |-> routes, claimed |-> prev,
                backlog |-> backlog[c]]
          [] Claimable(routes, c, key) /\ prev \in {None, name} ->
               [outcome |-> "Claimed", routes |-> taken, claimed |-> name,
                backlog |-> backlog[c]]
          [] Claimable(routes, c, key) /\ prev \notin {None, name} /\ EvictionQueueFull(backlog[c]) ->
               [outcome |-> "EvictionQueueFull",
                routes |-> Claim(Release(switched, c, key), c, prevKey), claimed |-> prev,
                backlog |-> backlog[c]]
          [] OTHER ->
               [outcome |-> "Claimed", routes |-> switched, claimed |-> name,
                backlog |-> [backlog[c] EXCEPT !.evictions = Append(@, prevKey)]]

Claims(c, claim, b) ==
    /\ routes' = claim.routes
    /\ claimed_publish_route' = [claimed_publish_route EXCEPT ![c] = claim.claimed]
    /\ backlog' = [backlog EXCEPT ![c] = b]

NextRouteKey(c, name) == IF relay_key[c] # None THEN relay_key[c] ELSE name

(* A rename whose old key the claim has not queued for eviction.  *)
RenameToQueue(c, name, claim) ==
    LET live == RelayRouteKey(c)
    IN  /\ current_stream[c].is_publishing
        /\ live \notin {None, NextRouteKey(c, name)}
        /\ \A i \in Len(backlog[c].evictions) + 1 .. Len(claim.backlog.evictions) :
              claim.backlog.evictions[i][2] # live

PublishClaimKeepsNext(c, name) ==
    LET claim == ClaimPublishRoute(c, NextRouteKey(c, name))
        live == <<app[c], RelayRouteKey(c)>>
    IN  IF claim.outcome # "Claimed" \/ ~RenameToQueue(c, name, claim) THEN claim
        ELSE IF EvictionQueueFull(claim.backlog)
          THEN [outcome |-> "EvictionQueueFull", routes |-> Claim(claim.routes, c, live),
                claimed |-> RelayRouteKey(c), backlog |-> claim.backlog]
          ELSE [claim EXCEPT !.backlog.evictions = Append(@, live)]

(* The claim as complete_publish_authorized leaves it: with the rename's   *)
(* eviction queued, or rolled back to the live key for want of room.       *)
PublishClaim(c, name) ==
    LET claim == ClaimPublishRoute(c, NextRouteKey(c, name))
        live == <<app[c], RelayRouteKey(c)>>
        next == <<app[c], NextRouteKey(c, name)>>
    IN  IF claim.outcome # "Claimed" \/ ~RenameToQueue(c, name, claim) THEN claim
        ELSE IF EvictionQueueFull(claim.backlog)
          THEN [outcome |-> "EvictionQueueFull",
                routes |-> Claim(Release(claim.routes, c, next), c, live),
                claimed |-> RelayRouteKey(c), backlog |-> claim.backlog]
          ELSE [claim EXCEPT !.backlog.evictions = Append(@, live)]

-----------------------------------------------------------------------------
(* Granted roles.  q is the question the host said yes to; its name is not *)
(* looked at here, the connection goes by what it stored.                  *)

(* complete_publish_authorized, when the route cannot be taken: the peer   *)
(* gets BadName and everything else stays.                                 *)
PublishRefused(c, name) ==
    /\ PublishClaim(c, name).outcome # "Claimed"
    /\ Claims(c, PublishClaim(c, name), PublishClaim(c, name).backlog)
    /\ Withdraw(c, {"publish"})
    /\ UNCHANGED <<state, current_stream, relay_enabled, grant, approved>>

ApprovalLapsesOnSwitch(c, name) == defer_media_relay /\ current_stream[c].is_playing

(* With deferred relaying a new name, or coming from play, takes back the  *)
(* host's approval.                                                        *)
ApprovalLapses(c, name) ==
    /\ defer_media_relay
    /\ \/ current_stream[c].is_playing
       \/ current_stream[c].is_publishing /\ current_stream[c].name # name

(* Its success.  Publishing withdraws an in-flight play request.  *)
PublishGranted(c, name, q) ==
    LET claim == PublishClaim(c, name)
        reset == ApprovalLapses(c, name)
    IN  /\ claim.outcome = "Claimed"
        /\ Withdraw(c, Role)
        /\ Claims(c, claim, IF reset THEN [claim.backlog EXCEPT !.relay = <<>>] ELSE claim.backlog)
        /\ relay_enabled' = [relay_enabled EXCEPT ![c] =
              IF defer_media_relay THEN @ /\ ~reset ELSE TRUE]
        /\ current_stream' = [current_stream EXCEPT ![c] =
              [@ EXCEPT !.is_publishing = TRUE, !.is_playing = FALSE, !.name = name]]
        /\ state' = [state EXCEPT ![c] = Transition(@, "Publishing")]
        /\ grant' = [grant EXCEPT ![c] = q]
        /\ UNCHANGED approved

(* complete_play_authorized.  *)
PlayGranted(c, name, q) ==
    /\ Withdraw(c, Role)
    /\ EvictActivePublishRoute(c)
    /\ relay_enabled' = [relay_enabled EXCEPT ![c] = @ \/ ~defer_media_relay]
    /\ current_stream' = [current_stream EXCEPT ![c] =
          [@ EXCEPT !.is_publishing = FALSE, !.is_playing = TRUE, !.name = name]]
    /\ state' = [state EXCEPT ![c] = Transition(@, "Playing")]
    /\ grant' = [grant EXCEPT ![c] = q]
    /\ UNCHANGED approved

Authorized(c, role, name, q) ==
    IF role = "play" THEN PlayGranted(c, name, q)
    ELSE PublishRefused(c, name) \/ PublishGranted(c, name, q)

(* The same when telling the peer that the other role's request is off     *)
(* fails: the function returns there, for a publish with its route taken.  *)
AuthorizedSendFails(c, role, name) ==
    /\ \E r \in Role \ {role} : Pending(c, r)
    /\ Withdraw(c, Role)
    /\ IF role = "play" THEN UNCHANGED routeVars
       ELSE /\ PublishClaim(c, name).outcome = "Claimed"
            /\ Claims(c, PublishClaim(c, name), PublishClaim(c, name).backlog)
    /\ UNCHANGED <<state, current_stream, relay_enabled, grant, approved>>

(* What is remembered of the grant and the approval goes with the role.  *)
NoRole(c) ==
    /\ grant' = [grant EXCEPT ![c] = NoGrant]
    /\ approved' = [approved EXCEPT ![c] = NewStream(0)]

-----------------------------------------------------------------------------
(* Commands of the peer (handle_command).                                  *)

Connect(c, a) ==
    /\ Live(c)
    /\ state[c] = "Connected"
    /\ app' = [app EXCEPT ![c] = a]
    /\ state' = [state EXCEPT ![c] = Transition(@, "AppConnected")]
    /\ UNCHANGED <<relay_key, streamVars, relay_enabled, authVars, routeVars, grant, approved>>

(* A new stream replaces the current one, its role, the host's approval    *)
(* and the requests in flight.  Only the first one raises                  *)
(* active_stream_count, to 1, so MAX_STREAMS_PER_CONN is never exceeded.   *)
CreateStream(c) ==
    /\ Live(c)
    /\ state[c] # "Connected"
    /\ next_stream_id[c] < MaxStreamId
    /\ EvictActivePublishRoute(c)
    /\ relay_enabled' = [relay_enabled EXCEPT ![c] = FALSE]
    /\ Withdraw(c, Role)
    /\ next_stream_id' = [next_stream_id EXCEPT ![c] = @ + 1]
    /\ current_stream' = [current_stream EXCEPT ![c] = NewStream(next_stream_id[c] + 1)]
    /\ state' = [state EXCEPT ![c] = Transition(@, "StreamCreated")]
    /\ NoRole(c)
    /\ UNCHANGED <<app, relay_key, auth_sealed, asked>>

Ask(c, role, id, name) ==
    [conn |-> c, role |-> role, id |-> id, name |-> name, stream_id |-> current_stream[c].id]

CanRequest(c, role) == Live(c) /\ HasStream(c) /\ ~Pending(c, role)

(* publish or play, allowed by the host on the spot.  *)
RequestAllowed(c, role, name) ==
    /\ CanRequest(c, role)
    /\ Authorized(c, role, name, Ask(c, role, None, name))
    /\ UNCHANGED <<app, relay_key, next_stream_id, auth_sealed, asked>>

(* publish or play, put off by the host under an id of its choice.  An id  *)
(* the connection remembers having answered is refused.                    *)
RequestDeferred(c, role, name, id) ==
    /\ CanRequest(c, role)
    /\ Cardinality(asked) < MaxQuestions
    /\ HostReusesIds \/ \A q \in asked : <<q.conn, q.role, q.id>> # <<c, role, id>>
    /\ asked' = asked \cup {Ask(c, role, id, name)}
    /\ pending_auth' =
          IF \E i \in 1 .. Len(resolved_ids[c][role]) : resolved_ids[c][role][i] = id
            THEN pending_auth
            ELSE [pending_auth EXCEPT ![c][role] = [name |-> name, id |-> id]]
    /\ UNCHANGED <<state, app, relay_key, streamVars, relay_enabled, resolved_ids, auth_sealed,
                   routeVars, grant, approved>>

(* The end of a stream's role.  The stream itself stays, and so does the   *)
(* connection state.                                                       *)
TearDown(c) ==
    /\ EvictActivePublishRoute(c)
    /\ current_stream' = [current_stream EXCEPT ![c] =
          [@ EXCEPT !.is_publishing = FALSE, !.is_playing = FALSE]]
    /\ relay_enabled' = [relay_enabled EXCEPT ![c] = FALSE]
    /\ Withdraw(c, Role)
    /\ NoRole(c)
    /\ UNCHANGED <<state, app, relay_key, next_stream_id, auth_sealed, asked>>

(* FCUnpublish and deleteStream, which name no stream; closeStream.  *)
DeleteStream(c) == Live(c) /\ TearDown(c)
CloseStream(c) == Live(c) /\ HasStream(c) /\ TearDown(c)

(* releaseStream, when the host allows it: the named route, and the pinned *)
(* one unless the connection plays, are taken from whoever owns them.      *)
ReleaseStream(c, name) ==
    LET pinned == IF current_stream[c].is_playing THEN {} ELSE {relay_key[c]} \ {None}
    IN  /\ Live(c)
        /\ routes' = [k \in Key |->
              IF k \in {<<app[c], n>> : n \in {name} \cup pinned} THEN None ELSE routes[k]]
        /\ UNCHANGED <<state, app, relay_key, streamVars, relay_enabled, authVars,
                       claimed_publish_route, backlog, grant, approved>>

RelayQueueFull(c) == Len(backlog[c].relay) >= MAX_PENDING_RELAY_FRAMES

(* queue_relay_frame, on the backlog b.  *)
QueueRelayFrame(c, b) ==
    LET key == <<app[c], RelayRouteKey(c)>>
    IN  [b EXCEPT !.abandoned = Without(@, {key}), !.relay = Append(@, [key |-> key, from |-> c])]

(* handle_media_frame for the publisher's own stream.  A full queue closes *)
(* the connection: that is Close.                                          *)
MediaFrame(c) ==
    /\ Live(c)
    /\ relay_enabled[c] /\ current_stream[c].is_publishing /\ ~Pending(c, "publish")
    /\ ~RelayQueueFull(c)
    /\ backlog' = [backlog EXCEPT ![c] = QueueRelayFrame(c, @)]
    /\ UNCHANGED <<state, app, relay_key, streamVars, relay_enabled, authVars,
                   claimed_publish_route, routes, grant, approved>>

-----------------------------------------------------------------------------
(* The host.                                                               *)

(* It answers any question it was asked, late or again.  Only an answer    *)
(* under the id of the waiting request counts.                             *)
Complete(q) ==
    /\ q \in asked
    /\ Live(q.conn)
    /\ Pending(q.conn, q.role) /\ pending_auth[q.conn][q.role].id = q.id
    /\ LET name == pending_auth[q.conn][q.role].name
       IN  \/ Authorized(q.conn, q.role, name, q)
           \/ AuthorizedSendFails(q.conn, q.role, name)
           \/ /\ Withdraw(q.conn, {q.role})
              /\ UNCHANGED <<state, current_stream, relay_enabled, routeVars, grant, approved>>
    /\ UNCHANGED <<app, relay_key, next_stream_id, auth_sealed, asked>>

(* The public fields relay_key and relay_enabled.  *)
SetRelayKey(c, key) ==
    /\ Live(c)
    /\ relay_key' = [relay_key EXCEPT ![c] = key]
    /\ UNCHANGED <<state, app, streamVars, relay_enabled, authVars, routeVars, grant, approved>>

EnableRelay(c) ==
    /\ Live(c)
    /\ defer_media_relay /\ current_stream[c].is_publishing
    /\ relay_enabled' = [relay_enabled EXCEPT ![c] = TRUE]
    /\ approved' = [approved EXCEPT ![c] = current_stream[c]]
    /\ UNCHANGED <<state, app, relay_key, streamVars, authVars, routeVars, grant>>

CanInject(c) ==
    /\ Live(c)
    /\ current_stream[c].is_playing => current_stream[c].is_publishing
    /\ app[c] # None /\ RelayRouteKey(c) # None

(* Conn::inject_relay_frame: the route is claimed first.  Without it the   *)
(* relay key goes back to the route still held.                            *)
InjectRefused(c) ==
    LET claim == ClaimPublishRoute(c, RelayRouteKey(c))
    IN  /\ CanInject(c)
        /\ claim.outcome # "Claimed"
        /\ Claims(c, claim, claim.backlog)
        /\ relay_key' = [relay_key EXCEPT ![c] = IF claim.claimed # None THEN claim.claimed ELSE @]
        /\ UNCHANGED <<state, app, streamVars, relay_enabled, authVars, grant, approved>>

InjectRelayFrame(c) ==
    LET claim == ClaimPublishRoute(c, RelayRouteKey(c))
    IN  /\ CanInject(c)
        /\ claim.outcome = "Claimed"
        /\ ~RelayQueueFull(c)
        /\ Claims(c, claim, QueueRelayFrame(c, claim.backlog))
        /\ UNCHANGED <<state, app, relay_key, streamVars, relay_enabled, authVars, grant, approved>>

(* With the frame queue full, a claim made for this frame is undone: the   *)
(* route held before is taken back, and pinned.                            *)
InjectRolledBack(c) ==
    LET name == RelayRouteKey(c)
        prev == claimed_publish_route[c]
        claim == ClaimPublishRoute(c, name)
        freed == Release(claim.routes, c, <<app[c], name>>)
    IN  /\ CanInject(c)
        /\ claim.outcome = "Claimed"
        /\ RelayQueueFull(c)
        /\ claimed_publish_route' = claimed_publish_route
        /\ backlog' = backlog
        /\ routes' = CASE prev = name -> claim.routes
                       [] prev = None -> freed
                       [] OTHER -> Claim(freed, c, <<app[c], prev>>)
        /\ relay_key' = [relay_key EXCEPT ![c] = IF prev = None THEN @ ELSE
                                                 IF prev = name THEN @ ELSE prev]
        /\ UNCHANGED <<state, app, streamVars, relay_enabled, authVars, grant, approved>>

-----------------------------------------------------------------------------
(* The poll loop's steps on its connections.                               *)

TimedOutPublish(c, roles) == roles = {"publish"} /\ Pending(c, "publish")

(* How long a request may wait is left open: any may have timed out.  *)
TimedOut(c, roles) == roles # {} /\ \A r \in roles : Pending(c, r)

(* reap_timed_out_pending_auth: requests that waited too long are denied   *)
(* and their roles sealed.                                                 *)
Reap(c, roles) ==
    /\ Live(c)
    /\ TimedOut(c, roles)
    /\ Withdraw(c, roles)
    /\ auth_sealed' = [auth_sealed EXCEPT ![c] = [r \in Role |-> r \in roles]]
    /\ UNCHANGED <<state, app, relay_key, streamVars, relay_enabled, asked, routeVars,
                   grant, approved>>

(* The connections' part of drain_pending_cache_evictions: every queued    *)
(* key, then every marker, is noted.                                       *)
Drained(b) ==
    LET keys == b.evictions \o b.abandoned
        noted[i \in 0 .. Len(keys)] ==
            IF i = 0 THEN [b EXCEPT !.evictions = <<>>] ELSE NoteAbandoned(noted[i - 1], keys[i])
    IN  noted[Len(keys)]

DrainEvictions ==
    /\ backlog' = [c \in Conn |-> Drained(backlog[c])]
    /\ UNCHANGED <<state, app, relay_key, streamVars, relay_enabled, authVars,
                   claimed_publish_route, routes, grant, approved>>

(* detach_displaced_route_owners: whoever no longer owns the route it      *)
(* claimed stops relaying, and drops what it queued for it.  It stays      *)
(* marked as publishing.                                                   *)
Displaced(c) ==
    /\ Live(c)
    /\ claimed_publish_route[c] # None
    /\ routes[<<app[c], claimed_publish_route[c]>>] # c

Detached(c) ==
    LET claimed == <<app[c], claimed_publish_route[c]>>
        live == <<app[c], RelayRouteKey(c)>>
        relay == WithoutFramesOf(WithoutFramesOf(backlog[c].relay, claimed), live)
        b == TryPushEviction([backlog[c] EXCEPT !.relay = relay], claimed)
    IN  IF live[2] \in {None, claimed[2]} THEN b ELSE TryPushEviction(b, live)

DetachKeepsRelay ==
    /\ \E c \in Conn : Displaced(c)
    /\ claimed_publish_route' = [c \in Conn |->
          IF Displaced(c) THEN None ELSE claimed_publish_route[c]]
    /\ backlog' = [c \in Conn |-> IF Displaced(c) THEN Detached(c) ELSE backlog[c]]
    /\ UNCHANGED <<state, app, relay_key, streamVars, relay_enabled, authVars, routes, grant,
                   approved>>

DetachDisplaced ==
    /\ \E c \in Conn : Displaced(c)
    /\ claimed_publish_route' = [c \in Conn |->
          IF Displaced(c) THEN None ELSE claimed_publish_route[c]]
    /\ relay_enabled' = [c \in Conn |-> relay_enabled[c] /\ ~Displaced(c)]
    /\ backlog' = [c \in Conn |-> IF Displaced(c) THEN Detached(c) ELSE backlog[c]]
    /\ UNCHANGED <<state, app, relay_key, streamVars, authVars, routes, grant, approved>>

(* build_relay_frame_batch takes every queued frame.  *)
TakeRelayFrames ==
    /\ backlog' = [c \in Conn |-> [backlog[c] EXCEPT !.relay = <<>>]]
    /\ UNCHANGED <<state, app, relay_key, streamVars, relay_enabled, authVars,
                   claimed_publish_route, routes, grant, approved>>

(* The end of a connection, for whatever reason: its routes are freed, and *)
(* what it held is gone.                                                   *)
Close(c) ==
    /\ Open(c)
    /\ state' = [state EXCEPT ![c] = "Closed"]
    /\ routes' = [k \in Key |-> IF routes[k] = c THEN None ELSE routes[k]]
    /\ app' = [app EXCEPT ![c] = None]
    /\ relay_key' = [relay_key EXCEPT ![c] = None]
    /\ current_stream' = [current_stream EXCEPT ![c] = NewStream(0)]
    /\ claimed_publish_route' = [claimed_publish_route EXCEPT ![c] = None]
    /\ relay_enabled' = [relay_enabled EXCEPT ![c] = FALSE]
    /\ pending_auth' = [pending_auth EXCEPT ![c] = [r \in Role |-> NoRequest]]
    /\ backlog' = [backlog EXCEPT ![c] = [evictions |-> <<>>, abandoned |-> <<>>, relay |-> <<>>]]
    /\ next_stream_id' = [next_stream_id EXCEPT ![c] = 0]
    /\ resolved_ids' = [resolved_ids EXCEPT ![c] = [r \in Role |-> <<>>]]
    /\ auth_sealed' = [auth_sealed EXCEPT ![c] = [r \in Role |-> FALSE]]
    /\ asked' = {q \in asked : q.conn # c}
    /\ NoRole(c)

-----------------------------------------------------------------------------
PeerStep(c) ==
    \/ \E a \in App : Connect(c, a)
    \/ CreateStream(c)
    \/ \E r \in Role, n \in Name :
          \/ RequestAllowed(c, r, n)
          \/ \E id \in RequestId : RequestDeferred(c, r, n, id)
    \/ DeleteStream(c)
    \/ CloseStream(c)
    \/ \E n \in Name : ReleaseStream(c, n)
    \/ MediaFrame(c)

HostStep(c) ==
    \/ \E q \in asked : q.conn = c /\ Complete(q)
    \/ \E k \in PinnedKeys : SetRelayKey(c, k)
    \/ EnableRelay(c)
    \/ InjectRefused(c)
    \/ InjectRelayFrame(c)
    \/ InjectRolledBack(c)

SessionNext ==
    \/ \E c \in Conn :
          \/ PeerStep(c)
          \/ HostStep(c)
          \/ \E roles \in SUBSET Role : Reap(c, roles)
          \/ Close(c)
    \/ DrainEvictions
    \/ DetachDisplaced
    \/ TakeRelayFrames

SessionSpec == SessionInit /\ [][SessionNext]_sessionVars

(* Every poll reaps what has timed out, and removes within the same poll   *)
(* the connections it sealed.                                              *)
SessionFairness ==
    \A c \in Conn :
        /\ WF_sessionVars(\E roles \in SUBSET Role : Reap(c, roles))
        /\ WF_sessionVars(~Live(c) /\ Close(c))

FairSessionSpec == SessionSpec /\ SessionFairness

-----------------------------------------------------------------------------
(* Properties.                                                             *)

(* A route is never held by a connection that does not know it: whatever   *)
(* claims, renames, rollbacks, force-releases and ends of connections came *)
(* before, an owned route is the one its owner claims, so the owner's next *)
(* teardown frees it.                                                      *)
NoLeakedRoute ==
    \A k \in Key, c \in Conn :
        routes[k] = c => Open(c) /\ k = <<app[c], claimed_publish_route[c]>>

(* A role is only ever exercised under the name, and on the stream, that   *)
(* the host said yes to, however late, repeated or out of order its        *)
(* answers are.                                                            *)
RoleWasGranted ==
    \A c \in Conn :
        LET s == current_stream[c]
            GrantedAs(role) == /\ grant[c].role = role
                               /\ grant[c].name = s.name
                               /\ grant[c].stream_id = s.id
        IN  /\ s.is_publishing => GrantedAs("publish")
            /\ s.is_playing => GrantedAs("play")

(* The connection state names the role of the current stream, through any  *)
(* number of switches between publishing and playing.                      *)
StateMatchesRole ==
    \A c \in Conn :
        /\ current_stream[c].is_publishing => state[c] = "Publishing"
        /\ current_stream[c].is_playing => state[c] = "Playing"

(* With deferred relaying a publisher's media is relayed only under the    *)
(* stream and the name for which the host switched relaying on.            *)
RelayApproved ==
    \A c \in Conn :
        defer_media_relay /\ relay_enabled[c] /\ current_stream[c].is_publishing =>
            /\ approved[c].id = current_stream[c].id
            /\ approved[c].name = current_stream[c].name

(* A publisher that relays does so under the route it claimed, as long as  *)
(* the host neither moves the relay key nor answers later.                 *)
RelaysOwnClaim ==
    \A c \in Conn :
        relay_enabled[c] /\ current_stream[c].is_publishing =>
            claimed_publish_route[c] = RelayRouteKey(c)

(* A frame still queued under a route its connection has left is known as  *)
(* such: the route is queued for eviction or marked as abandoned, so the   *)
(* frame cannot bring the route's init cache back.                         *)
LeftFramesMarked ==
    \A c \in Conn : \A i \in 1 .. Len(backlog[c].relay) :
        LET key == backlog[c].relay[i].key
        IN  \/ key[2] \in {claimed_publish_route[c], RelayRouteKey(c)}
            \/ \E j \in 1 .. Len(backlog[c].evictions) : backlog[c].evictions[j] = key
            \/ \E j \in 1 .. Len(backlog[c].abandoned) : backlog[c].abandoned[j] = key

(* No request waits for ever: the host's answer, the end of its stream,    *)
(* the other role's grant or the timeout frees the slot.                   *)
RequestsEnd ==
    \A c \in Conn, r \in Role : Pending(c, r) ~> ~Pending(c, r)
=============================================================================
