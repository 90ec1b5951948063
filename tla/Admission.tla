------------------------------ MODULE Admission ------------------------------
(***************************************************************************)
(* How sockets become connections: the listeners, the accept sweep of a    *)
(* poll, TLS handshakes that wait between polls, the caps on connections   *)
(* and handshakes, connection ids, and stop.  (server/mod.rs: listen to    *)
(* accept_new_connections; transport.rs: accept_nonblocking, progress.)    *)
(*                                                                         *)
(* A socket is off, waiting in the backlog of a listener, held as a        *)
(* pending TLS handshake, or a connection.  Peers connect at any moment,   *)
(* also in the middle of a sweep; how far a handshake gets when it is      *)
(* driven is the environment's choice.                                     *)
(***************************************************************************)
EXTENDS Integers, FiniteSets

CONSTANTS
    Sock,                          \* sockets peers connect with
    Addr, peer_ip,                 \* canonical addresses, and whose a socket is
    Port,                          \* listeners are 0 .. Port - 1
    Tls,                           \* the listeners with a TLS context
    max_connections,               \* 0: no cap
    max_connections_per_addr,
    max_pending_tls_per_addr,
    MAX_PENDING_TLS_HANDSHAKES,
    TLS_HANDSHAKE_TIMEOUT,         \* in steps of time
    MAX_ACCEPTS_PER_POLL,
    EXTERNAL_PUBLISHER_ID_BIT      \* the first id that is not a connection's

ASSUME AdmissionAssumption ==
    /\ IsFiniteSet(Sock)
    /\ peer_ip \in [Sock -> Addr]
    /\ Port \in Nat \ {0} /\ Tls \subseteq 0 .. Port - 1
    /\ max_connections \in Nat
    /\ max_connections_per_addr \in Nat \ {0} /\ max_pending_tls_per_addr \in Nat \ {0}
    /\ MAX_PENDING_TLS_HANDSHAKES \in Nat \ {0}
    /\ TLS_HANDSHAKE_TIMEOUT \in Nat /\ MAX_ACCEPTS_PER_POLL \in Nat
    /\ EXTERNAL_PUBLISHER_ID_BIT \in Nat \ {0}

VARIABLES
    running,
    listeners,                     \* how many listeners are bound, in order of binding
    waiting,                       \* the backlog of each listener
    pending_tls, deadline,         \* handshakes in progress, and the time each has left
    taken,                         \* handshakes progress_pending_tls has still to drive
    connections, conn_id,          \* sockets that are connections, and their ids
    next_conn_id, conn_ids_issued,
    next_listener_accept,
    step,                          \* where the poll is
    start, offset, accepted_any, accepts_serviced,  \* the sweep
    next_conn_id_before_accept,
    \* What the properties refer to.
    fresh,                         \* connections of this poll
    passed                         \* accepts elsewhere while a listener had a peer waiting

socketVars == <<waiting, pending_tls, deadline, taken, connections, conn_id>>
idVars == <<next_conn_id, conn_ids_issued, fresh>>
sweepVars == <<start, offset, accepted_any, accepts_serviced>>
vars == <<running, listeners, socketVars, idVars, next_listener_accept, step, sweepVars,
          next_conn_id_before_accept, passed>>

Listeners == 0 .. Port - 1
NoPass == [l \in Listeners |-> 0]

Init ==
    /\ running = FALSE /\ listeners = 0
    /\ waiting = [l \in Listeners |-> {}]
    /\ pending_tls = {} /\ deadline = [s \in Sock |-> 0] /\ taken = {}
    /\ connections = {} /\ conn_id = [s \in Sock |-> 0]
    /\ next_conn_id = 1 /\ conn_ids_issued = FALSE
    /\ next_listener_accept = 0
    /\ step = "idle"
    /\ start = 0 /\ offset = 0 /\ accepted_any = FALSE /\ accepts_serviced = 0
    /\ next_conn_id_before_accept = 1
    /\ fresh = {} /\ passed = NoPass

(***************************************************************************)
(* The host between polls.                                                 *)
(***************************************************************************)
\* listen and listen_tls.
Listen ==
    /\ step = "idle"
    /\ listeners < Port
    /\ running' = TRUE
    /\ listeners' = listeners + 1
    /\ UNCHANGED <<socketVars, idVars, next_listener_accept, step, sweepVars,
                   next_conn_id_before_accept, passed>>

\* set_conn_id_base, whose assertions are its guard.
SetConnIdBase(base) ==
    /\ step = "idle"
    /\ base # 0 /\ base < EXTERNAL_PUBLISHER_ID_BIT
    /\ ~conn_ids_issued /\ connections = {} /\ pending_tls = {}
    /\ next_conn_id' = base
    /\ UNCHANGED <<running, listeners, socketVars, conn_ids_issued, fresh, next_listener_accept,
                   step, sweepVars, next_conn_id_before_accept, passed>>

Stop ==
    /\ step = "idle"
    /\ running' = FALSE
    /\ listeners' = 0
    /\ next_listener_accept' = 0
    /\ waiting' = [l \in Listeners |-> {}]
    /\ pending_tls' = {}
    /\ connections' = {}
    /\ passed' = NoPass
    /\ UNCHANGED <<deadline, taken, conn_id, idVars, step, sweepVars, next_conn_id_before_accept>>

(***************************************************************************)
(* The network.                                                            *)
(***************************************************************************)
Off(s) == s \notin connections \cup pending_tls \cup taken \cup UNION {waiting[l] : l \in Listeners}

Connect(s, l) ==
    /\ Off(s)
    /\ l < listeners
    /\ waiting' = [waiting EXCEPT ![l] = @ \cup {s}]
    /\ UNCHANGED <<running, listeners, pending_tls, deadline, taken, connections, conn_id, idVars,
                   next_listener_accept, step, sweepVars, next_conn_id_before_accept, passed>>

Clock ==
    /\ step = "idle"
    /\ \E s \in pending_tls : deadline[s] > 0
    /\ deadline' = [s \in Sock |-> IF s \in pending_tls /\ deadline[s] > 0 THEN deadline[s] - 1 ELSE deadline[s]]
    /\ UNCHANGED <<running, listeners, waiting, pending_tls, taken, connections, conn_id, idVars,
                   next_listener_accept, step, sweepVars, next_conn_id_before_accept, passed>>

(***************************************************************************)
(* Caps.                                                                   *)
(***************************************************************************)
Of(addr, socks) == {s \in socks : peer_ip[s] = addr}

ConnectionsOnly == Cardinality(connections)

total_connection_slots_in_use == Cardinality(connections) + Cardinality(pending_tls)

max_connections_reached ==
    max_connections > 0 /\ total_connection_slots_in_use >= max_connections

pending_tls_limit_reached ==
    IF max_connections > 0 THEN max_connections_reached
    ELSE Cardinality(pending_tls) >= MAX_PENDING_TLS_HANDSHAKES

active_connections_for_ip(addr) == Cardinality(Of(addr, connections))

\* allocate_conn_id refuses an id in the range of injected publishers.
IdsLeft == next_conn_id # 0 /\ next_conn_id < EXTERNAL_PUBLISHER_ID_BIT

Admits(s) ==
    /\ ~max_connections_reached
    /\ active_connections_for_ip(peer_ip[s]) < max_connections_per_addr
    /\ IdsLeft

AddsWithSameId(s) ==
    IF Admits(s)
    THEN /\ connections' = connections \cup {s}
         /\ conn_id' = [conn_id EXCEPT ![s] = next_conn_id]
         /\ conn_ids_issued' = TRUE
         /\ fresh' = fresh \cup {s}
         /\ UNCHANGED next_conn_id
    ELSE UNCHANGED <<connections, conn_id, idVars>>

\* add_connection: a socket it refuses is closed.
add_connection(s) ==
    IF Admits(s)
    THEN /\ connections' = connections \cup {s}
         /\ conn_id' = [conn_id EXCEPT ![s] = next_conn_id]
         /\ next_conn_id' = next_conn_id + 1
         /\ conn_ids_issued' = TRUE
         /\ fresh' = fresh \cup {s}
    ELSE UNCHANGED <<connections, conn_id, idVars>>

MayQueue(s) ==
    /\ Cardinality(Of(peer_ip[s], pending_tls)) < max_pending_tls_per_addr
    /\ ~pending_tls_limit_reached

queue_pending_tls(s) ==
    IF MayQueue(s)
    THEN /\ pending_tls' = pending_tls \cup {s}
         /\ deadline' = [deadline EXCEPT ![s] = TLS_HANDSHAKE_TIMEOUT]
    ELSE UNCHANGED <<pending_tls, deadline>>

(***************************************************************************)
(* A poll.  Its first pass removes connections that ended; every pending   *)
(* handshake is then taken out of the list and driven.                     *)
(***************************************************************************)
BeginPoll(closed) ==
    /\ step = "idle" /\ running
    /\ step' = "tls"
    /\ closed \subseteq connections
    /\ connections' = connections \ closed
    /\ next_conn_id_before_accept' = next_conn_id
    /\ fresh' = {}
    /\ taken' = pending_tls
    /\ pending_tls' = {}
    /\ UNCHANGED <<running, listeners, waiting, deadline, conn_id, next_conn_id, conn_ids_issued,
                   next_listener_accept, sweepVars, passed>>

\* One round of progress_pending_tls.
ProgressPendingTls(s, outcome) ==
    /\ step = "tls" /\ s \in taken
    /\ taken' = taken \ {s}
    /\ CASE deadline[s] = 0 -> UNCHANGED <<pending_tls, connections, conn_id, idVars>>
         [] deadline[s] > 0 /\ max_connections_reached ->
              pending_tls' = pending_tls \cup {s} /\ UNCHANGED <<connections, conn_id, idVars>>
         [] OTHER ->
              CASE outcome = "complete" -> add_connection(s) /\ UNCHANGED pending_tls
                [] outcome = "would block" ->
                     pending_tls' = pending_tls \cup {s} /\ UNCHANGED <<connections, conn_id, idVars>>
                [] outcome = "failed" -> UNCHANGED <<pending_tls, connections, conn_id, idVars>>
    /\ UNCHANGED <<running, listeners, waiting, deadline, next_listener_accept, step, sweepVars,
                   next_conn_id_before_accept, passed>>

BeginAccept ==
    /\ step = "tls" /\ taken = {}
    /\ step' = IF listeners = 0 THEN "idle" ELSE "accept"
    /\ next_listener_accept' = IF listeners = 0 THEN 0 ELSE next_listener_accept % listeners
    /\ start' = next_listener_accept'
    /\ offset' = 0 /\ accepted_any' = FALSE /\ accepts_serviced' = 0
    /\ UNCHANGED <<running, listeners, socketVars, idVars, next_conn_id_before_accept, passed>>

SweepOver == max_connections_reached \/ accepts_serviced >= MAX_ACCEPTS_PER_POLL

FromMovingOrigin == (next_listener_accept + offset) % listeners

\* The listener the sweep is at: its origin is fixed for the whole sweep.
At == (start + offset) % listeners

NextOrigin == (At + 1) % listeners

InSweep == step = "accept" /\ offset < listeners /\ ~SweepOver

\* accept() hands over a socket of the backlog.
Accept(s, outcome) ==
    /\ InSweep
    /\ s \in waiting[At]
    /\ waiting' = [waiting EXCEPT ![At] = @ \ {s}]
    /\ offset' = offset + 1 /\ accepted_any' = TRUE /\ accepts_serviced' = accepts_serviced + 1
    /\ next_listener_accept' = NextOrigin
    /\ passed' = [l \in Listeners |->
                    IF l = At \/ waiting[l] = {} THEN 0 ELSE passed[l] + 1]
    /\ IF At \in Tls
       THEN CASE outcome = "complete" -> add_connection(s) /\ UNCHANGED <<pending_tls, deadline>>
              [] outcome = "would block" ->
                   queue_pending_tls(s) /\ UNCHANGED <<connections, conn_id, idVars>>
              [] outcome = "failed" ->
                   UNCHANGED <<pending_tls, deadline, connections, conn_id, idVars>>
       ELSE outcome = "complete" /\ add_connection(s) /\ UNCHANGED <<pending_tls, deadline>>
    /\ UNCHANGED <<running, listeners, taken, step, start, next_conn_id_before_accept>>

NothingToAccept ==
    /\ InSweep
    /\ waiting[At] = {}
    /\ offset' = offset + 1
    /\ UNCHANGED <<running, listeners, socketVars, idVars, next_listener_accept, step, start,
                   accepted_any, accepts_serviced, next_conn_id_before_accept, passed>>

\* A sweep that accepted something is followed by another.
NextSweep ==
    /\ step = "accept" /\ offset = listeners /\ accepted_any
    /\ start' = next_listener_accept
    /\ offset' = 0 /\ accepted_any' = FALSE
    /\ UNCHANGED <<running, listeners, socketVars, idVars, next_listener_accept, step,
                   accepts_serviced, next_conn_id_before_accept, passed>>

EndPoll ==
    /\ step = "accept"
    /\ IF offset < listeners THEN SweepOver ELSE ~accepted_any
    /\ step' = "idle"
    /\ UNCHANGED <<running, listeners, socketVars, idVars, next_listener_accept, sweepVars,
                   next_conn_id_before_accept, passed>>

Outcomes == {"complete", "would block", "failed"}

Next ==
    \/ Listen
    \/ \E base \in 1 .. EXTERNAL_PUBLISHER_ID_BIT - 1 : SetConnIdBase(base)
    \/ Stop
    \/ \E s \in Sock, l \in Listeners : Connect(s, l)
    \/ Clock
    \/ \E closed \in SUBSET connections : BeginPoll(closed)
    \/ \E s \in Sock, outcome \in Outcomes : ProgressPendingTls(s, outcome) \/ Accept(s, outcome)
    \/ BeginAccept
    \/ NothingToAccept
    \/ NextSweep
    \/ EndPoll

Spec == Init /\ [][Next]_vars

\* SlotsBounded: connections and pending handshakes together never exceed
\* max_connections, also while handshakes are out of the list being driven and
\* the count in use is too low (total_connection_slots_in_use).
SlotsBounded ==
    max_connections > 0 => Cardinality(connections \cup pending_tls \cup taken) <= max_connections

\* No address holds more connections, or more handshakes in progress, than its
\* share, though either may turn into the other at any poll.
AddrsBounded ==
    \A addr \in Addr :
        /\ Cardinality(Of(addr, connections)) <= max_connections_per_addr
        /\ Cardinality(Of(addr, pending_tls \cup taken)) <= max_pending_tls_per_addr

\* Connections have different ids, below those of injected publishers, and a
\* poll's second pass, which takes the ids at or above the one that was next
\* before accepting, serves exactly the connections of this poll.
NewConnsServed ==
    /\ \A s, t \in connections : conn_id[s] = conn_id[t] => s = t
    /\ \A s \in connections :
         /\ conn_id[s] < EXTERNAL_PUBLISHER_ID_BIT
         /\ step # "idle" => (s \in fresh <=> conn_id[s] >= next_conn_id_before_accept)

\* No listener starves: while a peer waits at one, each other
\* gets at most one accept (accept_new_connections, with its rotating origin),
\* whatever the caps cut short.
ListenersTakeTurns == \A l \in Listeners : passed[l] <= Port - 1

\* The caps hold, for the server and for each address, at every step of a poll.
CapsHold == SlotsBounded /\ AddrsBounded
=============================================================================
