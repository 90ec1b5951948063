-------------------------------- MODULE Setup --------------------------------
(***************************************************************************)
(* The timers that decide how long a connection may hold its slot and its  *)
(* publish route without being of use: session setup, the media a          *)
(* publisher owes, pending authorizations, and the grace that a teardown   *)
(* or a pause earns.  (session/conn.rs: session_setup_timed_out,           *)
(* teardown_refreshes_setup_timer, the command arms that move the timer,   *)
(* reap_timed_out_pending_auth; server/mod.rs: recv_and_reap_connections.) *)
(*                                                                         *)
(* Byte counters are compared with snapshots of themselves only, so each   *)
(* comparison is kept as a flag.  The route key is the stream name: pinned *)
(* keys are in Session.  The host polls at least once per step of time.    *)
(***************************************************************************)
EXTENDS Integers

CONSTANTS
    Route,
    RTMP_SESSION_SETUP_TIMEOUT,
    PUBLISH_MEDIA_REQUIRED_TIMEOUT,
    pending_auth_timeout,
    None

ASSUME SetupAssumption ==
    /\ RTMP_SESSION_SETUP_TIMEOUT \in Nat \ {0}
    /\ PUBLISH_MEDIA_REQUIRED_TIMEOUT \in 1 .. RTMP_SESSION_SETUP_TIMEOUT
    /\ pending_auth_timeout \in Nat \ {0}
    /\ None \notin Route

VARIABLES
    status,                    \* "open", or the timer that closed it
    state,                     \* "handshake", "connected", "app": ConnState so far
    stream,                    \* whether there is a current_stream
    role, name, paused,        \* of the current stream
    claimed_publish_route,
    publish_media_deadline_route,
    pending_publish_auth, pending_play_auth,   \* None or [route, age]
    elapsed,                   \* age of session_setup_started
    received_in_epoch,         \* media_bytes_received > media_bytes_at_epoch_start
    injected_in_epoch,         \* injected_media_bytes_total > injected_bytes_at_epoch_start
    injected,                  \* injected_media_bytes > 0
    received_since_grace,      \* media since the last teardown grace, received
    injected_since_grace,      \* and injected
    sent_since_grace,          \* media_bytes_sent > pause_grace_media_bytes_sent
    sent,                      \* media_bytes_sent > 0
    polled,                    \* whether this step's poll has been
    \* What the properties refer to.
    useless,                   \* time since the connection last was of use
    granted, silent,           \* the last route granted, and its time without media
    carried,                   \* media received or injected since that window opened
    fresh,                     \* media of any kind since the last grace or role
    promised                   \* time left of a window the connection was promised

streamVars == <<stream, role, name, paused>>
authVars == <<pending_publish_auth, pending_play_auth>>
epochVars == <<publish_media_deadline_route, received_in_epoch, injected_in_epoch>>
graceVars == <<received_since_grace, injected_since_grace, sent_since_grace>>
historyVars == <<useless, granted, silent, carried, fresh, promised>>
vars == <<status, state, streamVars, claimed_publish_route, authVars, elapsed, epochVars, injected,
          graceVars, sent, polled, historyVars>>

Init ==
    /\ status = "open" /\ state = "handshake"
    /\ stream = FALSE /\ role = "none" /\ name = None /\ paused = FALSE
    /\ claimed_publish_route = None /\ publish_media_deadline_route = None
    /\ pending_publish_auth = None /\ pending_play_auth = None
    /\ elapsed = 0
    /\ received_in_epoch = FALSE /\ injected_in_epoch = FALSE /\ injected = FALSE
    /\ received_since_grace = FALSE /\ injected_since_grace = FALSE
    /\ sent_since_grace = FALSE /\ sent = FALSE
    /\ polled = FALSE
    /\ useless = 0 /\ granted = None /\ silent = 0 /\ carried = FALSE /\ fresh = FALSE /\ promised = 0

has_pending_authorization == pending_publish_auth # None \/ pending_play_auth # None

\* Commands are read in the poll, after the reaping.
Reads == status = "open" /\ polled

(***************************************************************************)
(* The handshake and connect.                                              *)
(***************************************************************************)
FinishHandshake ==
    /\ Reads /\ state = "handshake"
    /\ state' = "connected"
    /\ UNCHANGED <<status, streamVars, claimed_publish_route, authVars, elapsed, epochVars, injected,
                   graceVars, sent, polled, historyVars>>

RecvConnect ==
    /\ Reads /\ state = "connected"
    /\ state' = "app"
    /\ UNCHANGED <<status, streamVars, claimed_publish_route, authVars, elapsed, epochVars, injected,
                   graceVars, sent, polled, historyVars>>

(***************************************************************************)
(* Roles.                                                                  *)
(***************************************************************************)
Active == role # "none"

\* Mutants: every teardown earns a grace; only received media does.
GraceWithoutMedia == TRUE
GraceForReceivedOnly == received_since_grace

\* teardown_refreshes_setup_timer: a grace for media no earlier grace consumed.
EarnsGrace == received_since_grace \/ injected_since_grace \/ sent_since_grace

\* The end of a role: evict_active_publish_route and the timer.
Teardown ==
    /\ claimed_publish_route' = None
    /\ injected' = FALSE
    /\ role' = "none" /\ paused' = FALSE
    /\ pending_publish_auth' = None /\ pending_play_auth' = None
    /\ IF Active /\ EarnsGrace
       THEN /\ elapsed' = 0
            /\ received_since_grace' = FALSE /\ injected_since_grace' = FALSE /\ sent_since_grace' = FALSE
       ELSE UNCHANGED <<elapsed, graceVars>>
    /\ promised' = IF Active /\ fresh THEN RTMP_SESSION_SETUP_TIMEOUT ELSE promised
    /\ fresh' = FALSE
    /\ UNCHANGED <<status, state, epochVars, sent, polled, useless, granted, silent, carried>>

CreateStream ==
    /\ Reads /\ state = "app"
    /\ Teardown
    /\ stream' = TRUE /\ name' = None

\* FCUnpublish, deleteStream and closeStream of the current stream.
Unpublish ==
    /\ Reads /\ stream
    /\ Teardown
    /\ UNCHANGED <<stream, name>>

MediaFlowed == received_in_epoch \/ injected_in_epoch

\* complete_publish_authorized opens a new window for the media that is due.
NewWindow(r, deadline) ==
    \/ deadline # r
    \/ role = "playing"
    \/ role # "publishing" /\ MediaFlowed

\* A grant of another route, after playing, of the host's own (it cleared the deadline), or
\* after media, is a new publish: it owes its first media within a window of its own.
PromiseMediaWindow(r, deadline) ==
    LET again == role = "publishing" /\ granted = r /\ deadline = r
        new == ~again /\ (granted # r \/ role = "playing" \/ deadline = None \/ carried)
    IN  /\ granted' = r
        /\ fresh' = (again /\ fresh)
        /\ promised' = IF new THEN PUBLISH_MEDIA_REQUIRED_TIMEOUT ELSE IF again THEN promised ELSE 0
        /\ IF new THEN silent' = 0 /\ useless' = 0 /\ carried' = FALSE
           ELSE UNCHANGED <<silent, useless, carried>>

\* complete_publish_authorized, with the deadline's route as the caller left it.
Published(r, deadline) ==
    /\ claimed_publish_route' = r
    /\ pending_play_auth' = None
    /\ role' = "publishing" /\ name' = r
    /\ IF NewWindow(r, deadline)
       THEN /\ elapsed' = 0 /\ injected' = FALSE
            /\ received_in_epoch' = FALSE /\ injected_in_epoch' = FALSE
            /\ publish_media_deadline_route' = r
       ELSE /\ publish_media_deadline_route' = deadline
            /\ UNCHANGED <<elapsed, injected, received_in_epoch, injected_in_epoch>>
    /\ PromiseMediaWindow(r, deadline)
    /\ UNCHANGED <<status, state, stream, paused, graceVars, sent, polled>>

Refused == UNCHANGED <<status, state, streamVars, claimed_publish_route, elapsed, injected, graceVars,
                       sent, polled, historyVars>>

\* read_stream_name refuses a request without a stream.
HasStream == stream

\* publish, by what the host decides and whether the route is free.
RecvPublish(r, decision) ==
    /\ Reads /\ HasStream
    /\ pending_publish_auth = None
    /\ CASE decision = "allow" -> Published(r, publish_media_deadline_route) /\ UNCHANGED pending_publish_auth
         [] decision = "pending" ->
              /\ pending_publish_auth' = [route |-> r, age |-> 0]
              /\ Refused /\ UNCHANGED <<pending_play_auth, epochVars>>

\* complete_publish_authorization.
CompletePublish(decision) ==
    /\ status = "open" /\ pending_publish_auth # None
    /\ pending_publish_auth' = None
    /\ LET r == pending_publish_auth.route
           deadline == IF role = "publishing" /\ publish_media_deadline_route = r
                       THEN publish_media_deadline_route ELSE None
       IN  CASE decision = "allow" -> Published(r, deadline)
             [] decision = "contended" ->
                  /\ publish_media_deadline_route' = deadline
                  /\ Refused /\ UNCHANGED <<pending_play_auth, received_in_epoch, injected_in_epoch>>
             [] decision = "deny" -> Refused /\ UNCHANGED <<pending_play_auth, epochVars>>

\* complete_play_authorized.
Played(r) ==
    /\ pending_publish_auth' = None
    /\ claimed_publish_route' = None /\ injected' = FALSE
    /\ role' = "playing" /\ paused' = FALSE /\ name' = r
    /\ sent_since_grace' = IF role = "playing" /\ name = r THEN sent_since_grace ELSE FALSE
    /\ fresh' = (fresh /\ role = "playing" /\ name = r)
    /\ promised' = 0 /\ silent' = 0
    /\ UNCHANGED <<status, state, stream, elapsed, epochVars, received_since_grace,
                   injected_since_grace, sent, polled, useless, granted, carried>>

RecvPlay(r, decision) ==
    /\ Reads /\ HasStream
    /\ pending_play_auth = None
    /\ CASE decision = "allow" -> Played(r) /\ UNCHANGED pending_play_auth
         [] decision = "pending" ->
              /\ pending_play_auth' = [route |-> r, age |-> 0]
              /\ Refused /\ UNCHANGED <<pending_publish_auth, epochVars>>

CompletePlay(decision) ==
    /\ status = "open" /\ pending_play_auth # None
    /\ pending_play_auth' = None
    /\ CASE decision = "allow" -> Played(pending_play_auth.route)
         [] decision = "deny" -> Refused /\ UNCHANGED <<pending_publish_auth, epochVars>>

\* Mutant: every pause of a player earns a grace.
PauseAlwaysEarns == TRUE

\* Only what was relayed since the last grace does.
PauseEarns == sent_since_grace

RecvPause(flag) ==
    /\ Reads /\ stream
    /\ IF flag /\ role = "playing" /\ ~paused /\ PauseEarns
       THEN /\ elapsed' = 0 /\ sent_since_grace' = FALSE
       ELSE UNCHANGED <<elapsed, sent_since_grace>>
    /\ IF flag /\ role = "playing" /\ ~paused /\ fresh
       THEN promised' = RTMP_SESSION_SETUP_TIMEOUT /\ fresh' = FALSE
       ELSE UNCHANGED <<promised, fresh>>
    /\ paused' = flag
    /\ UNCHANGED <<status, state, stream, role, name, claimed_publish_route, authVars, epochVars, injected,
                   received_since_grace, injected_since_grace, sent, polled, useless, granted, silent, carried>>

(***************************************************************************)
(* Media.                                                                  *)
(***************************************************************************)
\* handle_media_frame, for the publishing stream, deferred or not.
RecvMedia ==
    /\ Reads
    /\ role = "publishing" /\ pending_publish_auth = None
    /\ received_in_epoch' = TRUE /\ received_since_grace' = TRUE
    /\ silent' = 0 /\ useless' = 0 /\ carried' = TRUE /\ fresh' = TRUE
    /\ UNCHANGED <<status, state, streamVars, claimed_publish_route, authVars, elapsed,
                   publish_media_deadline_route, injected_in_epoch, injected, injected_since_grace,
                   sent_since_grace, sent, polled, granted, promised>>

\* Conn::inject_relay_frame: media of the host's own, claiming the route.
Inject ==
    /\ status = "open"
    /\ role # "playing"
    /\ name # None
    /\ claimed_publish_route' = name
    /\ injected' = TRUE /\ injected_in_epoch' = TRUE /\ injected_since_grace' = TRUE
    /\ silent' = 0 /\ useless' = 0 /\ carried' = TRUE /\ fresh' = TRUE
    /\ UNCHANGED <<status, state, streamVars, authVars, elapsed, publish_media_deadline_route,
                   received_in_epoch, received_since_grace, sent_since_grace, sent, polled, granted, promised>>

\* detach_lost_publish_route, after another connection's releaseStream.
DetachLostRoute ==
    /\ Reads /\ claimed_publish_route # None
    /\ claimed_publish_route' = None
    /\ UNCHANGED <<status, state, streamVars, authVars, elapsed, epochVars, injected, graceVars, sent,
                   polled, historyVars>>

\* Media relayed to the player.
Relay ==
    /\ status = "open" /\ polled
    /\ role = "playing" /\ ~paused /\ pending_play_auth = None
    /\ sent' = TRUE /\ sent_since_grace' = TRUE
    /\ useless' = 0 /\ fresh' = TRUE
    /\ UNCHANGED <<status, state, streamVars, claimed_publish_route, authVars, elapsed, epochVars,
                   injected, received_since_grace, injected_since_grace, polled, granted, silent, carried, promised>>

(***************************************************************************)
(* Reaping.                                                                *)
(***************************************************************************)
publish_media_squat_expired ==
    ~received_in_epoch /\ ~injected /\ elapsed >= PUBLISH_MEDIA_REQUIRED_TIMEOUT

Protected == role = "playing" /\ ~paused /\ sent

session_setup_timed_out ==
    /\ ~has_pending_authorization
    /\ IF role = "publishing" \/ claimed_publish_route # None
       THEN publish_media_squat_expired
       ELSE elapsed >= RTMP_SESSION_SETUP_TIMEOUT /\ ~Protected

Overdue(pending) == pending # None /\ pending.age >= pending_auth_timeout

\* reap_timed_out_pending_auth, then recv_and_reap_connections.
Poll ==
    /\ status = "open" /\ ~polled
    /\ polled' = TRUE
    /\ LET auth == Overdue(pending_publish_auth) \/ Overdue(pending_play_auth)
       IN  status' = CASE auth -> "auth"
                       [] ~auth /\ session_setup_timed_out -> "setup"
                       [] OTHER -> "open"
    /\ UNCHANGED <<state, streamVars, claimed_publish_route, authVars, elapsed, epochVars, injected,
                   graceVars, sent, historyVars>>

UpTo(bound, n) == IF n < bound THEN n + 1 ELSE n

Aged(pending) == IF pending = None THEN None
                 ELSE [pending EXCEPT !.age = UpTo(pending_auth_timeout, @)]

Holding == role = "publishing" \/ claimed_publish_route # None

Useful == has_pending_authorization \/ (Holding /\ carried) \/ Protected

Clock ==
    /\ status = "open" /\ polled
    /\ polled' = FALSE
    /\ elapsed' = UpTo(RTMP_SESSION_SETUP_TIMEOUT, elapsed)
    /\ pending_publish_auth' = Aged(pending_publish_auth)
    /\ pending_play_auth' = Aged(pending_play_auth)
    /\ useless' = IF Useful THEN 0 ELSE UpTo(2 * RTMP_SESSION_SETUP_TIMEOUT + 1, useless)
    /\ silent' = IF Holding /\ ~has_pending_authorization /\ ~carried
                 THEN UpTo(2 * PUBLISH_MEDIA_REQUIRED_TIMEOUT, silent) ELSE silent
    /\ promised' = IF promised > 0 THEN promised - 1 ELSE 0
    /\ UNCHANGED <<status, state, streamVars, claimed_publish_route, epochVars, injected, graceVars, sent,
                   granted, carried, fresh>>

Next ==
    \/ FinishHandshake \/ RecvConnect \/ CreateStream \/ Unpublish
    \/ \E r \in Route, decision \in {"allow", "pending"} : RecvPublish(r, decision) \/ RecvPlay(r, decision)
    \/ \E decision \in {"allow", "contended", "deny"} : CompletePublish(decision)
    \/ \E decision \in {"allow", "deny"} : CompletePlay(decision)
    \/ \E flag \in BOOLEAN : RecvPause(flag)
    \/ RecvMedia \/ Inject \/ DetachLostRoute \/ Relay
    \/ Poll \/ Clock

Spec == Init /\ [][Next]_vars

-----------------------------------------------------------------------------

\* A connection that is of no use is dropped: however it cycles createStream, publish, play,
\* pause and teardowns, once it neither moves media, nor waits for the host, nor opens a new
\* publish, it keeps its slot for at most two setup windows: the one it is in and the one
\* its last media earns.
UselessDropped == status = "open" => useless <= 2 * RTMP_SESSION_SETUP_TIMEOUT

\* A publisher that sends nothing is dropped: a route is held without media for the media
\* window, through every unpublish and publish of the same route in between, and for less
\* than a second one when media of an earlier role earns a teardown grace on the way.
SilentPublisherDropped == status = "open" => silent < 2 * PUBLISH_MEDIA_REQUIRED_TIMEOUT

\* A publisher whose publish has carried media is not dropped by the setup timers, whatever
\* else it asks for meanwhile.
LivePublisherKept == status = "setup" => ~(role = "publishing" /\ carried)

\* A window that media earned is granted in full: after a teardown or a pause the setup
\* window, after a new publish the media window.
PromiseKept == status = "setup" => promised = 0

\* The setup timers drop no connection that is of use or was promised time.
DroppedForCause == LivePublisherKept /\ PromiseKept
=============================================================================
