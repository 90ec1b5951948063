---------------------------- MODULE LimitsProofs ----------------------------
(***************************************************************************)
(* Limited resources that peers and callers share.  The caps on            *)
(* connections and handshakes, the ids and the turns of the listeners, for *)
(* any number of sockets, addresses and listeners and any value of the     *)
(* limits.  And the resolver's queue, for any number of clients and any    *)
(* depth: its notifications, one per freed slot and one per job, strand    *)
(* nobody.                                                                 *)
(***************************************************************************)
EXTENDS Admission, DnsQueue, FiniteSetTheorems, TLAPS

-----------------------------------------------------------------------------
(* Accepting connections.                                                  *)

Steps == {"idle", "tls", "accept"}

\* Handshakes are out of the list only while progress_pending_tls drives them,
\* and nobody waits at a listener that is not bound.
Ranges ==
    /\ listeners \in 0 .. Port
    /\ waiting \in [Listeners -> SUBSET Sock]
    /\ pending_tls \subseteq Sock /\ taken \subseteq Sock /\ connections \subseteq Sock
    /\ deadline \in [Sock -> 0 .. TLS_HANDSHAKE_TIMEOUT]
    /\ conn_id \in [Sock -> Nat] /\ next_conn_id \in Nat
    /\ listeners > 0 => next_listener_accept \in 0 .. listeners - 1
    /\ step \in Steps
    /\ step # "tls" => taken = {}
    /\ next_listener_accept \in Nat
    /\ listeners = 0 => next_listener_accept = 0
    /\ start \in Nat /\ offset \in Nat
    /\ step = "accept" => listeners > 0 /\ start < listeners /\ offset <= listeners
    /\ next_conn_id_before_accept \in Nat
    /\ \A l \in Listeners : l >= listeners => waiting[l] = {}

\* What a step may do to the connections.
Kept == UNCHANGED <<connections, conn_id, idVars>>

Added(s) ==
    /\ Admits(s)
    /\ connections' = connections \cup {s}
    /\ conn_id' = [conn_id EXCEPT ![s] = next_conn_id]
    /\ next_conn_id' = next_conn_id + 1
    /\ conn_ids_issued' = TRUE
    /\ fresh' = fresh \cup {s}

LEMMA AddCases == ASSUME NEW s, add_connection(s) PROVE Kept \/ Added(s)
BY DEF add_connection, Kept, Added

LEMMA ProgressCases ==
    ASSUME NEW s \in Sock, NEW outcome \in Outcomes, ProgressPendingTls(s, outcome)
    PROVE  \/ Kept /\ (pending_tls' = pending_tls \/ pending_tls' = pending_tls \cup {s})
           \/ Added(s) /\ pending_tls' = pending_tls
<1>1. CASE deadline[s] = 0
  BY <1>1, Zenon DEF ProgressPendingTls, Kept
<1>2. CASE deadline[s] # 0 /\ deadline[s] > 0 /\ max_connections_reached
  BY <1>2, Zenon DEF ProgressPendingTls, Kept
<1>3. CASE deadline[s] # 0 /\ ~(deadline[s] > 0 /\ max_connections_reached)
  <2>1. CASE outcome = "complete"
    <3>1. add_connection(s) /\ UNCHANGED pending_tls  BY <1>3, <2>1 DEF ProgressPendingTls
    <3>q. QED  BY <3>1, AddCases
  <2>2. CASE outcome = "would block"
    BY <1>3, <2>2 DEF ProgressPendingTls, Kept
  <2>3. CASE outcome = "failed"
    BY <1>3, <2>3 DEF ProgressPendingTls, Kept
  <2>q. QED  BY <2>1, <2>2, <2>3 DEF Outcomes
<1>q. QED  BY <1>1, <1>2, <1>3

LEMMA AcceptCases ==
    ASSUME NEW s \in Sock, NEW outcome \in Outcomes, Accept(s, outcome)
    PROVE  \/ UNCHANGED <<pending_tls, deadline>> /\ (Kept \/ Added(s))
           \/ /\ Kept /\ MayQueue(s)
              /\ pending_tls' = pending_tls \cup {s}
              /\ deadline' = [deadline EXCEPT ![s] = TLS_HANDSHAKE_TIMEOUT]
<1>1. CASE At \in Tls
  <2>1. CASE outcome = "complete"
    <3>1. add_connection(s) /\ UNCHANGED <<pending_tls, deadline>>  BY <1>1, <2>1 DEF Accept
    <3>q. QED  BY <3>1, AddCases
  <2>2. CASE outcome = "would block"
    BY <1>1, <2>2 DEF Accept, queue_pending_tls, Kept
  <2>3. CASE outcome = "failed"
    BY <1>1, <2>3 DEF Accept, Kept
  <2>q. QED  BY <2>1, <2>2, <2>3 DEF Outcomes
<1>2. CASE At \notin Tls
  <2>1. add_connection(s) /\ UNCHANGED <<pending_tls, deadline>>  BY <1>2 DEF Accept
  <2>q. QED  BY <2>1, AddCases
<1>q. QED  BY <1>1, <1>2

-----------------------------------------------------------------------------
(* The sweep's arithmetic: the index of a listener wraps around once.      *)
Wrap(x, n) == IF x < n THEN x ELSE x - n

LEMMA ModWraps ==
    ASSUME NEW n \in Nat \ {0}, NEW x \in 0 .. n + n - 1
    PROVE  x % n = Wrap(x, n) /\ Wrap(x, n) \in 0 .. n - 1
<1>1. CASE x \in 0 .. n - 1
  <2>1. x % n = x  BY <1>1, Z3
  <2>q. QED  BY <2>1, <1>1 DEF Wrap
<1>2. CASE x \in n .. n + n - 1
  <2>1. x % n = x - n  BY <1>2, Z3
  <2>q. QED  BY <2>1, <1>2 DEF Wrap
<1>q. QED  BY <1>1, <1>2

LEMMA AtWraps ==
    ASSUME Ranges, InSweep
    PROVE  /\ At = Wrap(start + offset, listeners) /\ At \in 0 .. listeners - 1
           /\ NextOrigin = Wrap(At + 1, listeners) /\ NextOrigin \in 0 .. listeners - 1
           /\ listeners \in Nat \ {0}
           /\ At \in Listeners
<1> USE DEF Ranges
<1>1. /\ listeners \in Nat \ {0} /\ listeners <= Port
      /\ start + offset \in 0 .. listeners + listeners - 1
  BY AdmissionAssumption DEF InSweep
<1>2. At = Wrap(start + offset, listeners) /\ At \in 0 .. listeners - 1
  BY <1>1, ModWraps DEF At
<1>3. At + 1 \in 0 .. listeners + listeners - 1  BY <1>1, <1>2
<1>4. NextOrigin = Wrap(At + 1, listeners) /\ NextOrigin \in 0 .. listeners - 1
  BY <1>1, <1>3, ModWraps DEF NextOrigin
<1>q. QED  BY <1>1, <1>2, <1>4, AdmissionAssumption DEF Listeners

-----------------------------------------------------------------------------
LEMMA RangesInit == Init => Ranges
BY AdmissionAssumption
   DEF Init, Ranges, Steps, Listeners

LEMMA RangesStep == Ranges /\ [Next]_vars => Ranges'
<1> SUFFICES ASSUME Ranges, [Next]_vars PROVE Ranges'  OBVIOUS
<1> USE AdmissionAssumption DEF Ranges, Steps, socketVars, idVars, sweepVars
<1>1. CASE Listen
  <2>1. /\ step = "idle" /\ listeners < Port /\ listeners' = listeners + 1
        /\ UNCHANGED <<socketVars, idVars, next_listener_accept, step, sweepVars,
                       next_conn_id_before_accept>>
    BY <1>1 DEF Listen
  <2>2. next_listener_accept \in 0 .. listeners  OBVIOUS
  <2>3. listeners' \in 0 .. Port /\ next_listener_accept' \in 0 .. listeners' - 1  BY <2>1, <2>2
  <2>4. \A l \in Listeners : l >= listeners' => waiting'[l] = {}
    <3>1. waiting' = waiting  BY <2>1
    <3>q. QED  BY <2>1, <3>1 DEF Listeners
  <2>5. taken' = {} /\ step' = "idle"  BY <2>1
  <2>q. QED  BY <2>1, <2>3, <2>4, <2>5
<1>2. ASSUME NEW base \in 1 .. EXTERNAL_PUBLISHER_ID_BIT - 1, SetConnIdBase(base) PROVE Ranges'
  BY <1>2 DEF SetConnIdBase
<1>3. CASE Stop
  BY <1>3 DEF Stop
<1>4. ASSUME NEW s \in Sock, NEW l \in Listeners, Connect(s, l) PROVE Ranges'
  BY <1>4 DEF Connect, Listeners
<1>5. CASE Clock
  <2>1. deadline' \in [Sock -> 0 .. TLS_HANDSHAKE_TIMEOUT]  BY <1>5 DEF Clock
  <2>q. QED  BY <1>5, <2>1 DEF Clock
<1>6. ASSUME NEW closed \in SUBSET connections, BeginPoll(closed) PROVE Ranges'
  BY <1>6 DEF BeginPoll
<1>7. ASSUME NEW s \in Sock, NEW outcome \in Outcomes, ProgressPendingTls(s, outcome) PROVE Ranges'
  <2>0. \/ Kept /\ (pending_tls' = pending_tls \/ pending_tls' = pending_tls \cup {s})
        \/ Added(s) /\ pending_tls' = pending_tls
    BY <1>7, ProgressCases
  <2>1. /\ pending_tls' \subseteq Sock /\ connections' \subseteq Sock
        /\ conn_id' \in [Sock -> Nat] /\ next_conn_id' \in Nat
    BY <2>0 DEF Kept, Added
  <2>2. /\ UNCHANGED <<running, listeners, waiting, deadline, next_listener_accept, step, sweepVars,
                       next_conn_id_before_accept, passed>>
        /\ taken' = taken \ {s} /\ step = "tls"
    BY <1>7 DEF ProgressPendingTls
  <2>q. QED  BY <2>1, <2>2
<1>8. ASSUME NEW s \in Sock, NEW outcome \in Outcomes, Accept(s, outcome) PROVE Ranges'
  <2>0. \/ UNCHANGED <<pending_tls, deadline>> /\ (Kept \/ Added(s))
        \/ /\ Kept /\ MayQueue(s)
           /\ pending_tls' = pending_tls \cup {s}
           /\ deadline' = [deadline EXCEPT ![s] = TLS_HANDSHAKE_TIMEOUT]
    BY <1>8, AcceptCases
  <2>1. /\ pending_tls' \subseteq Sock /\ connections' \subseteq Sock
        /\ deadline' \in [Sock -> 0 .. TLS_HANDSHAKE_TIMEOUT]
        /\ conn_id' \in [Sock -> Nat] /\ next_conn_id' \in Nat
    BY <2>0 DEF Kept, Added
  <2>2. /\ UNCHANGED <<running, listeners, taken, step, start, next_conn_id_before_accept>>
        /\ waiting' = [waiting EXCEPT ![At] = @ \ {s}]
        /\ offset' = offset + 1 /\ next_listener_accept' = NextOrigin
        /\ step = "accept" /\ offset < listeners /\ InSweep
    BY <1>8 DEF Accept, InSweep
  <2>3. /\ NextOrigin \in 0 .. listeners - 1 /\ At \in 0 .. listeners - 1 /\ At \in Listeners
        /\ listeners \in Nat \ {0}
    BY <2>2, AtWraps
  <2>4. waiting' \in [Listeners -> SUBSET Sock] /\ \A l \in Listeners : l >= listeners => waiting'[l] = {}
    BY <2>2, <2>3
  <2>q. QED  BY <2>1, <2>2, <2>3, <2>4
<1>9. CASE BeginAccept
  <2>1. CASE listeners = 0
    BY <1>9, <2>1 DEF BeginAccept
  <2>2. CASE listeners # 0
    <3>1. next_listener_accept % listeners = next_listener_accept
      <4>1. listeners \in Nat \ {0} /\ next_listener_accept \in 0 .. listeners - 1
        BY <2>2
      <4>2. next_listener_accept \in 0 .. listeners + listeners - 1  BY <4>1
      <4>3. next_listener_accept % listeners = Wrap(next_listener_accept, listeners)
        BY <4>1, <4>2, ModWraps
      <4>q. QED  BY <4>1, <4>3 DEF Wrap
    <3>q. QED  BY <1>9, <2>2, <3>1 DEF BeginAccept
  <2>q. QED  BY <2>1, <2>2
<1>10. CASE NothingToAccept
  BY <1>10 DEF NothingToAccept, InSweep
<1>11. CASE NextSweep
  BY <1>11 DEF NextSweep
<1>12. CASE EndPoll
  BY <1>12 DEF EndPoll
<1>13. CASE UNCHANGED vars
  BY <1>13 DEF vars
<1>q. QED
  BY <1>1, <1>2, <1>3, <1>4, <1>5, <1>6, <1>7, <1>8, <1>9, <1>10, <1>11, <1>12, <1>13 DEF Next

-----------------------------------------------------------------------------
(* The caps.  While handshakes are taken out of the list the count in use  *)
(* is too low; a handshake that ends then turns into a connection, so the  *)
(* union the caps are about does not grow.                                 *)
Held == connections \cup pending_tls \cup taken

LEMMA Finite == ASSUME Ranges, NEW S, S \subseteq Sock PROVE IsFiniteSet(S) /\ Cardinality(S) \in Nat
<1>1. IsFiniteSet(S)  BY AdmissionAssumption, FS_Subset
<1>q. QED  BY <1>1, FS_CardinalityType

LEMMA Shrinks ==
    ASSUME Ranges, NEW S, NEW T, S \subseteq T, T \subseteq Sock
    PROVE  Cardinality(S) <= Cardinality(T) /\ Cardinality(S) \in Nat /\ Cardinality(T) \in Nat
<1>1. IsFiniteSet(T)  BY Finite
<1>2. Cardinality(S) <= Cardinality(T)  BY <1>1, FS_Subset
<1>q. QED  BY <1>2, Finite

LEMMA GrowsByOne ==
    ASSUME Ranges, NEW S, S \subseteq Sock, NEW x, NEW T, T = S \cup {x}
    PROVE  Cardinality(T) <= Cardinality(S) + 1
<1>1. IsFiniteSet(S) /\ Cardinality(S) \in Nat  BY Finite
<1>2. CASE x \in S
  <2>1. T = S  BY <1>2
  <2>2. Cardinality(T) = Cardinality(S)  BY <2>1, Zenon
  <2>q. QED  BY <1>1, <2>2
<1>3. CASE x \notin S
  <2>1. Cardinality(T) = Cardinality(S) + 1  BY <1>1, <1>3, FS_AddElement, Zenon
  <2>q. QED  BY <1>1, <2>1
<1>q. QED  BY <1>2, <1>3

\* Every step outside the sweep keeps Held, or makes it smaller; the sweep adds
\* at most one socket, behind a cap.
LEMMA HeldStep ==
    ASSUME Ranges, [Next]_vars
    PROVE  \/ Held' \subseteq Held
           \/ \E s \in Sock :
                /\ Held' \subseteq Held \cup {s} /\ taken = {}
                /\ max_connections > 0 => ~max_connections_reached
<1> USE DEF socketVars, idVars
<1>1. ASSUME NEW s \in Sock, NEW outcome \in Outcomes, ProgressPendingTls(s, outcome)
      PROVE  Held' \subseteq Held
  <2>1. taken' = taken \ {s} /\ s \in taken  BY <1>1 DEF ProgressPendingTls
  <2>2. \/ Kept /\ (pending_tls' = pending_tls \/ pending_tls' = pending_tls \cup {s})
        \/ Added(s) /\ pending_tls' = pending_tls
    BY <1>1, ProgressCases
  <2>q. QED  BY <2>1, <2>2 DEF Held, Kept, Added
<1>2. ASSUME NEW s \in Sock, NEW outcome \in Outcomes, Accept(s, outcome)
      PROVE  /\ Held' \subseteq Held \cup {s} /\ taken = {}
             /\ max_connections > 0 => ~max_connections_reached
  <2>1. taken' = taken /\ taken = {} /\ ~max_connections_reached
    BY <1>2 DEF Accept, InSweep, SweepOver, Ranges
  <2>2. \/ UNCHANGED <<pending_tls, deadline>> /\ (Kept \/ Added(s))
        \/ /\ Kept /\ MayQueue(s)
           /\ pending_tls' = pending_tls \cup {s}
           /\ deadline' = [deadline EXCEPT ![s] = TLS_HANDSHAKE_TIMEOUT]
    BY <1>2, AcceptCases
  <2>q. QED  BY <2>1, <2>2 DEF Held, Kept, Added
<1>3. ASSUME NEW closed \in SUBSET connections, BeginPoll(closed) PROVE Held' \subseteq Held
  BY <1>3 DEF BeginPoll, Held
<1>4. CASE Stop
  BY <1>4 DEF Stop, Held
<1>5. CASE \/ Listen \/ Clock \/ BeginAccept \/ NothingToAccept \/ NextSweep \/ EndPoll
           \/ \E base \in 1 .. EXTERNAL_PUBLISHER_ID_BIT - 1 : SetConnIdBase(base)
           \/ \E s \in Sock, l \in Listeners : Connect(s, l)
           \/ UNCHANGED vars
  <2>1. UNCHANGED <<connections, pending_tls, taken>>
    BY <1>5 DEF Listen, Clock, BeginAccept, NothingToAccept, NextSweep, EndPoll, SetConnIdBase,
                Connect, vars
  <2>q. QED  BY <2>1 DEF Held
<1>q. QED  BY <1>1, <1>2, <1>3, <1>4, <1>5 DEF Next

LEMMA SlotsStep == Ranges /\ SlotsBounded /\ [Next]_vars => SlotsBounded'
<1> SUFFICES ASSUME Ranges, SlotsBounded, [Next]_vars, max_connections > 0
             PROVE  Cardinality(Held') <= max_connections
  BY DEF SlotsBounded, Held
<1>1. Held \subseteq Sock /\ Held' \subseteq Sock
  BY RangesStep DEF Ranges, Held
<1>2. Cardinality(Held) <= max_connections  BY DEF SlotsBounded, Held
<1>3. CASE Held' \subseteq Held
  BY <1>1, <1>2, <1>3, Shrinks, AdmissionAssumption
<1>4. ASSUME NEW s \in Sock, Held' \subseteq Held \cup {s}, taken = {}, ~max_connections_reached
      PROVE  Cardinality(Held') <= max_connections
  <2>1. connections \subseteq Sock /\ pending_tls \subseteq Sock  BY DEF Ranges
  <2>2. Cardinality(connections) + Cardinality(pending_tls) < max_connections
    <3>1. Cardinality(connections) \in Nat /\ Cardinality(pending_tls) \in Nat  BY <2>1, Finite
    <3>q. QED  BY <1>4, <3>1, AdmissionAssumption
            DEF max_connections_reached, total_connection_slots_in_use
  <2>3. Cardinality(Held) <= Cardinality(connections) + Cardinality(pending_tls)
    <3>1. Held = connections \cup pending_tls  BY <1>4 DEF Held
    <3>2. IsFiniteSet(connections) /\ IsFiniteSet(pending_tls) /\ IsFiniteSet(connections \cap pending_tls)
      BY <2>1, Finite
    <3>3. Cardinality(connections \cup pending_tls) =
            Cardinality(connections) + Cardinality(pending_tls) - Cardinality(connections \cap pending_tls)
      BY <3>2, FS_Union
    <3>4. /\ Cardinality(connections) \in Nat /\ Cardinality(pending_tls) \in Nat
          /\ Cardinality(connections \cap pending_tls) \in Nat
      BY <3>2, FS_CardinalityType
    <3>q. QED  BY <3>1, <3>3, <3>4
  <2>4. Cardinality(Held') <= Cardinality(Held \cup {s})  BY <1>1, <1>4, Shrinks
  <2>5. Cardinality(Held \cup {s}) <= Cardinality(Held) + 1  BY <1>1, GrowsByOne
  <2>6. /\ Cardinality(Held) \in Nat /\ Cardinality(Held \cup {s}) \in Nat /\ Cardinality(Held') \in Nat
        /\ Cardinality(connections) \in Nat /\ Cardinality(pending_tls) \in Nat
    <3>1. Held \cup {s} \subseteq Sock  BY <1>1
    <3>q. QED  BY <3>1, <1>1, <2>1, Finite
  <2>q. QED  BY <2>2, <2>3, <2>4, <2>5, <2>6, AdmissionAssumption
<1>q. QED  BY <1>3, <1>4, HeldStep

-----------------------------------------------------------------------------
(* The shares of an address.                                               *)
Handshakes == pending_tls \cup taken

LEMMA OfGrows ==
    ASSUME Ranges, NEW S, NEW T, NEW s \in Sock, NEW addr \in Addr, NEW cap \in Nat,
           S \subseteq Sock, T \subseteq S \cup {s},
           Cardinality(Of(addr, S)) <= cap,
           addr = peer_ip[s] /\ ~(T \subseteq S) => Cardinality(Of(addr, S)) < cap
    PROVE  Cardinality(Of(addr, T)) <= cap
<1>0. Of(addr, S) \subseteq Sock /\ Cardinality(Of(addr, S)) \in Nat
  <2>1. Of(addr, S) \subseteq Sock  BY DEF Of
  <2>q. QED  BY <2>1, Finite
<1>1. CASE Of(addr, T) \subseteq Of(addr, S)
  <2>1. Cardinality(Of(addr, T)) <= Cardinality(Of(addr, S)) /\ Cardinality(Of(addr, T)) \in Nat
    BY <1>0, <1>1, Shrinks
  <2>q. QED  BY <1>0, <2>1
<1>2. CASE ~(Of(addr, T) \subseteq Of(addr, S))
  <2>1. addr = peer_ip[s] /\ ~(T \subseteq S)  BY <1>2 DEF Of
  <2>2. Of(addr, T) \subseteq Of(addr, S) \cup {s}  BY DEF Of
  <2>3. DEFINE U == Of(addr, S) \cup {s}
  <2>4. U \subseteq Sock /\ Cardinality(U) <= Cardinality(Of(addr, S)) + 1
    BY <1>0, GrowsByOne
  <2>5. Cardinality(Of(addr, T)) <= Cardinality(U) /\ Cardinality(U) \in Nat
        /\ Cardinality(Of(addr, T)) \in Nat
    BY <2>2, <2>4, Shrinks
  <2>6. Cardinality(Of(addr, S)) < cap  BY <2>1
  <2> HIDE DEF U
  <2>q. QED  BY <1>0, <2>4, <2>5, <2>6
<1>q. QED  BY <1>1, <1>2

LEMMA AddrsStep == Ranges /\ AddrsBounded /\ [Next]_vars => AddrsBounded'
<1> SUFFICES ASSUME Ranges, AddrsBounded, [Next]_vars, NEW addr \in Addr
             PROVE  /\ Cardinality(Of(addr, connections')) <= max_connections_per_addr
                    /\ Cardinality(Of(addr, Handshakes')) <= max_pending_tls_per_addr
  BY DEF AddrsBounded, Handshakes, Of
<1> DEFINE Goal == /\ Cardinality(Of(addr, connections')) <= max_connections_per_addr
                   /\ Cardinality(Of(addr, Handshakes')) <= max_pending_tls_per_addr
<1>b. /\ Cardinality(Of(addr, connections)) <= max_connections_per_addr
      /\ Cardinality(Of(addr, Handshakes)) <= max_pending_tls_per_addr
  BY DEF AddrsBounded, Handshakes
<1>s. connections \subseteq Sock /\ Handshakes \subseteq Sock  BY DEF Ranges, Handshakes
<1>c. max_connections_per_addr \in Nat /\ max_pending_tls_per_addr \in Nat
  BY AdmissionAssumption
\* Nothing is added.
<1>k. ASSUME connections' \subseteq connections, Handshakes' \subseteq Handshakes PROVE Goal
  <2>1. CASE Sock = {}
    <3>1. Of(addr, connections') \subseteq {} /\ Of(addr, Handshakes') \subseteq {}
      BY <1>k, <1>s, <2>1 DEF Of
    <3>2. Of(addr, connections') = {} /\ Of(addr, Handshakes') = {}  BY <3>1
    <3>q. QED  BY <3>2, <1>c, FS_EmptySet
  <2>2. CASE Sock # {}
    <3>1. PICK s \in Sock : TRUE  BY <2>2
    <3>2. /\ connections' \subseteq connections \cup {s} /\ Handshakes' \subseteq Handshakes \cup {s}
      BY <1>k
    <3>q. QED  BY <3>2, <1>k, <1>b, <1>s, <1>c, OfGrows
  <2>q. QED  BY <2>1, <2>2
\* A connection is added under its address's cap.
<1>a. ASSUME NEW s \in Sock, Added(s), Handshakes' \subseteq Handshakes PROVE Goal
  <2>1. addr = peer_ip[s] => Cardinality(Of(addr, connections)) < max_connections_per_addr
    BY <1>a DEF Added, Admits, active_connections_for_ip
  <2>2. connections' \subseteq connections \cup {s} /\ Handshakes' \subseteq Handshakes \cup {s}
    BY <1>a DEF Added
  <2>3. Cardinality(Of(addr, connections')) <= max_connections_per_addr
    BY <2>1, <2>2, <1>b, <1>s, <1>c, OfGrows
  <2>4. Cardinality(Of(addr, Handshakes')) <= max_pending_tls_per_addr
    BY <2>2, <1>a, <1>b, <1>s, <1>c, OfGrows
  <2>q. QED  BY <2>3, <2>4
<1>1. ASSUME NEW s \in Sock, NEW outcome \in Outcomes, ProgressPendingTls(s, outcome) PROVE Goal
  <2>1. taken' = taken \ {s} /\ s \in taken  BY <1>1 DEF ProgressPendingTls
  <2>2. \/ Kept /\ (pending_tls' = pending_tls \/ pending_tls' = pending_tls \cup {s})
        \/ Added(s) /\ pending_tls' = pending_tls
    BY <1>1, ProgressCases
  <2>3. Handshakes' \subseteq Handshakes  BY <2>1, <2>2 DEF Handshakes
  <2>4. CASE Kept
    <3>1. connections' \subseteq connections  BY <2>4 DEF Kept
    <3>q. QED  BY <3>1, <2>3, <1>k
  <2>5. CASE Added(s)  BY <2>5, <2>3, <1>a
  <2>q. QED  BY <2>2, <2>4, <2>5
<1>2. ASSUME NEW s \in Sock, NEW outcome \in Outcomes, Accept(s, outcome) PROVE Goal
  <2>1. taken' = taken /\ taken = {}  BY <1>2 DEF Accept, InSweep, Ranges
  <2>2. \/ UNCHANGED <<pending_tls, deadline>> /\ (Kept \/ Added(s))
        \/ /\ Kept /\ MayQueue(s)
           /\ pending_tls' = pending_tls \cup {s}
           /\ deadline' = [deadline EXCEPT ![s] = TLS_HANDSHAKE_TIMEOUT]
    BY <1>2, AcceptCases
  <2>3. CASE UNCHANGED pending_tls /\ Kept
    <3>1. connections' \subseteq connections /\ Handshakes' \subseteq Handshakes
      BY <2>1, <2>3 DEF Kept, Handshakes
    <3>q. QED  BY <3>1, <1>k
  <2>4. CASE UNCHANGED pending_tls /\ Added(s)
    <3>1. Handshakes' \subseteq Handshakes  BY <2>1, <2>4 DEF Handshakes
    <3>q. QED  BY <3>1, <2>4, <1>a
  <2>5. CASE Kept /\ MayQueue(s) /\ pending_tls' = pending_tls \cup {s}
    <3>1. Handshakes = pending_tls  BY <2>1 DEF Handshakes
    <3>2. addr = peer_ip[s] => Cardinality(Of(addr, Handshakes)) < max_pending_tls_per_addr
      BY <2>5, <3>1 DEF MayQueue
    <3>3. /\ connections' \subseteq connections /\ connections' \subseteq connections \cup {s}
          /\ Handshakes' \subseteq Handshakes \cup {s}
      BY <2>1, <2>5 DEF Kept, Handshakes
    <3>4. Cardinality(Of(addr, connections')) <= max_connections_per_addr
      BY <3>3, <1>b, <1>s, <1>c, OfGrows
    <3>5. Cardinality(Of(addr, Handshakes')) <= max_pending_tls_per_addr
      BY <3>2, <3>3, <1>b, <1>s, <1>c, OfGrows
    <3>q. QED  BY <3>4, <3>5
  <2>q. QED  BY <2>2, <2>3, <2>4, <2>5
<1>3. CASE \/ Listen \/ Clock \/ BeginAccept \/ NothingToAccept \/ NextSweep \/ EndPoll \/ Stop
           \/ \E closed \in SUBSET connections : BeginPoll(closed)
           \/ \E base \in 1 .. EXTERNAL_PUBLISHER_ID_BIT - 1 : SetConnIdBase(base)
           \/ \E s \in Sock, l \in Listeners : Connect(s, l)
           \/ UNCHANGED vars
  <2>1. connections' \subseteq connections /\ Handshakes' \subseteq Handshakes
    BY <1>3 DEF Listen, Clock, BeginAccept, NothingToAccept, NextSweep, EndPoll, Stop, BeginPoll,
                SetConnIdBase, Connect, vars, socketVars, Handshakes
  <2>q. QED  BY <2>1, <1>k
<1>q. QED  BY <1>1, <1>2, <1>3 DEF Next

-----------------------------------------------------------------------------
(* Ids: each is below the next one, and those a poll gave out are at or    *)
(* above the one that was next when it began.                              *)
IdsOrdered ==
    /\ NewConnsServed
    /\ \A s \in connections : conn_id[s] < next_conn_id
    /\ step # "idle" => next_conn_id_before_accept <= next_conn_id

LEMMA IdsStep == Ranges /\ IdsOrdered /\ [Next]_vars => IdsOrdered'
<1> SUFFICES ASSUME Ranges, IdsOrdered, [Next]_vars PROVE IdsOrdered'  OBVIOUS
<1> USE DEF IdsOrdered, NewConnsServed
<1>t. /\ connections \subseteq Sock /\ conn_id \in [Sock -> Nat] /\ next_conn_id \in Nat
      /\ next_conn_id_before_accept \in Nat /\ EXTERNAL_PUBLISHER_ID_BIT \in Nat
  BY AdmissionAssumption DEF Ranges
<1>a. ASSUME NEW s \in Sock, Added(s), UNCHANGED <<step, next_conn_id_before_accept>>, step # "idle"
      PROVE  IdsOrdered'
  <2>1. /\ next_conn_id < EXTERNAL_PUBLISHER_ID_BIT
        /\ connections' = connections \cup {s} /\ next_conn_id' = next_conn_id + 1
        /\ conn_id' = [conn_id EXCEPT ![s] = next_conn_id] /\ fresh' = fresh \cup {s}
    BY <1>a DEF Added, Admits, IdsLeft
  <2>2. conn_id'[s] = next_conn_id /\ \A t \in connections : t # s => conn_id'[t] = conn_id[t]
    BY <2>1, <1>t
  <2>3. \A t \in connections' : t = s \/ (t \in connections /\ t # s)  BY <2>1
  <2>4. \A t, u \in connections' : conn_id'[t] = conn_id'[u] => t = u  BY <2>2, <2>3, <1>t
  <2>5. \A t \in connections' :
           /\ conn_id'[t] < EXTERNAL_PUBLISHER_ID_BIT /\ conn_id'[t] < next_conn_id'
           /\ (t \in fresh' <=> conn_id'[t] >= next_conn_id_before_accept)
    BY <2>1, <2>2, <2>3, <1>a, <1>t
  <2>q. QED  BY <2>1, <2>4, <2>5, <1>a, <1>t
<1>k. ASSUME Kept, UNCHANGED <<step, next_conn_id_before_accept>> PROVE IdsOrdered'
  BY <1>k DEF Kept, idVars
<1>1. ASSUME NEW s \in Sock, NEW outcome \in Outcomes, ProgressPendingTls(s, outcome)
      PROVE  IdsOrdered'
  <2>1. UNCHANGED <<step, next_conn_id_before_accept>> /\ step # "idle"
    BY <1>1 DEF ProgressPendingTls
  <2>2. Kept \/ Added(s)  BY <1>1, ProgressCases
  <2>q. QED  BY <2>1, <2>2, <1>a, <1>k
<1>2. ASSUME NEW s \in Sock, NEW outcome \in Outcomes, Accept(s, outcome) PROVE IdsOrdered'
  <2>1. UNCHANGED <<step, next_conn_id_before_accept>> /\ step # "idle"
    BY <1>2 DEF Accept, InSweep
  <2>2. Kept \/ Added(s)  BY <1>2, AcceptCases
  <2>q. QED  BY <2>1, <2>2, <1>a, <1>k
<1>3. ASSUME NEW closed \in SUBSET connections, BeginPoll(closed) PROVE IdsOrdered'
  <2>1. /\ connections' = connections \ closed /\ fresh' = {} /\ step' = "tls"
        /\ next_conn_id_before_accept' = next_conn_id /\ UNCHANGED <<conn_id, next_conn_id>>
    BY <1>3 DEF BeginPoll
  <2>2. \A s \in connections' : s \in connections /\ ~(conn_id[s] >= next_conn_id)
    BY <2>1, <1>t
  <2>q. QED  BY <2>1, <2>2, <1>t
<1>4. ASSUME NEW base \in 1 .. EXTERNAL_PUBLISHER_ID_BIT - 1, SetConnIdBase(base) PROVE IdsOrdered'
  BY <1>4 DEF SetConnIdBase, socketVars
<1>5. CASE Stop
  BY <1>5 DEF Stop
<1>6. CASE BeginAccept
  BY <1>6 DEF BeginAccept, socketVars, idVars
<1>7. CASE EndPoll
  BY <1>7 DEF EndPoll, socketVars, idVars
<1>8. CASE \/ Listen \/ Clock \/ NothingToAccept \/ NextSweep
           \/ \E s \in Sock, l \in Listeners : Connect(s, l)
           \/ UNCHANGED vars
  <2>1. Kept /\ UNCHANGED <<step, next_conn_id_before_accept>>
    BY <1>8 DEF Listen, Clock, NothingToAccept, NextSweep, Connect, vars, Kept, socketVars, idVars
  <2>q. QED  BY <2>1, <1>k
<1>q. QED  BY <1>1, <1>2, <1>3, <1>4, <1>5, <1>6, <1>7, <1>8 DEF Next

-----------------------------------------------------------------------------
(* Turns.  A listener Dist places behind the rotating origin has been      *)
(* passed over at most by the ones in front of it in the round.  A sweep   *)
(* starts at the origin it finds and walks on while the origin moves, so   *)
(* the listeners between the two were empty when the sweep was there, and  *)
(* nobody has been accepted since.                                         *)
Dist(l, from, n) == IF l >= from THEN l - from ELSE (l - from) + n

Bound == 0 .. listeners - 1

Turns == \A l \in Bound : passed[l] + Dist(l, next_listener_accept, listeners) <= listeners - 1

WaitersOnly == \A l \in Listeners : passed[l] # 0 => waiting[l] # {}

Walked(reached) ==
    /\ reached \in 0 .. offset
    /\ next_listener_accept = Wrap(start + reached, listeners)
    /\ \A l \in Bound : reached <= Dist(l, start, listeners) /\ Dist(l, start, listeners) < offset => passed[l] = 0

Fair ==
    /\ passed \in [Listeners -> Nat]
    /\ WaitersOnly /\ Turns
    /\ step = "accept" => \E reached \in Nat : Walked(reached)

\* The arithmetic of an accept at listener `here', `o' places into the sweep:
\* another listener l comes one turn closer, or was skipped while empty.
LEMMA OneTurn ==
    ASSUME NEW n \in Nat \ {0}, NEW st \in 0 .. n - 1, NEW o \in 0 .. n - 1, NEW r \in 0 .. o,
           NEW l \in 0 .. n - 1, NEW p \in Nat, l # Wrap(st + o, n),
           p + Dist(l, Wrap(st + r, n), n) <= n - 1,
           r <= Dist(l, st, n) /\ Dist(l, st, n) < o => p = 0
    PROVE  (p + 1) + Dist(l, Wrap(Wrap(st + o, n) + 1, n), n) <= n - 1
<1> DEFINE here == Wrap(st + o, n)
           old == Wrap(st + r, n)
           new == Wrap(here + 1, n)
           d == Dist(l, st, n)
<1>1. here \in 0 .. n - 1 /\ old \in 0 .. n - 1 /\ new \in 0 .. n - 1  BY DEF Wrap
<1>2. d \in 0 .. n - 1 /\ d # o  BY DEF Wrap, Dist
<1>3. Dist(l, new, n) = (IF d > o THEN d - o - 1 ELSE (d - o - 1) + n)  BY <1>1, <1>2 DEF Wrap, Dist
<1>4. Dist(l, old, n) = (IF d >= r THEN d - r ELSE (d - r) + n)  BY <1>1, <1>2 DEF Wrap, Dist
<1>5. p + Dist(l, old, n) <= n - 1 /\ (r <= d /\ d < o => p = 0)  OBVIOUS
<1> HIDE DEF d, old, new
<1>6. (p + 1) + Dist(l, new, n) <= n - 1  BY <1>2, <1>3, <1>4, <1>5
<1>q. QED  BY <1>6 DEF new

LEMMA FairInit == Init => Fair
BY AdmissionAssumption
   DEF Init, Fair, WaitersOnly, Turns, Bound, NoPass, Listeners

LEMMA BoundListens == ASSUME Ranges PROVE Bound \subseteq Listeners /\ listeners \in Nat
BY AdmissionAssumption DEF Ranges, Bound, Listeners

LEMMA AcceptFair ==
    ASSUME Ranges, Fair, NEW s \in Sock, NEW outcome \in Outcomes, Accept(s, outcome)
    PROVE  Fair'
<1>1. /\ InSweep /\ step' = step /\ step = "accept" /\ UNCHANGED <<listeners, start>>
      /\ waiting' = [waiting EXCEPT ![At] = @ \ {s}]
      /\ offset' = offset + 1 /\ next_listener_accept' = NextOrigin
      /\ passed' = [l \in Listeners |-> IF l = At \/ waiting[l] = {} THEN 0 ELSE passed[l] + 1]
  BY DEF Accept, InSweep
<1>2. /\ At = Wrap(start + offset, listeners) /\ At \in 0 .. listeners - 1
      /\ NextOrigin = Wrap(At + 1, listeners) /\ NextOrigin \in 0 .. listeners - 1
      /\ listeners \in Nat \ {0} /\ At \in Listeners
  BY <1>1, AtWraps
<1>3. start \in 0 .. listeners - 1 /\ offset \in 0 .. listeners - 1
  BY <1>1 DEF Ranges, InSweep
<1>4. PICK reached \in Nat : Walked(reached)  BY <1>1 DEF Fair
<1>5. passed \in [Listeners -> Nat] /\ waiting \in [Listeners -> SUBSET Sock]
  BY DEF Fair, Ranges
<1>6. passed' \in [Listeners -> Nat]  BY <1>1, <1>5
<1>7. WaitersOnly'
  <2> SUFFICES ASSUME NEW l \in Listeners, passed'[l] # 0 PROVE waiting'[l] # {}
    BY DEF WaitersOnly
  <2>1. l # At /\ waiting[l] # {}  BY <1>1
  <2>q. QED  BY <2>1, <1>1, <1>2, <1>5
<1>8. Turns'
  <2> SUFFICES ASSUME NEW l \in Bound
               PROVE  passed'[l] + Dist(l, NextOrigin, listeners) <= listeners - 1
    BY <1>1 DEF Turns, Bound, Dist
  <2>1. l \in 0 .. listeners - 1 /\ l \in Listeners  BY BoundListens DEF Bound
  <2>2. Dist(l, NextOrigin, listeners) \in 0 .. listeners - 1  BY <2>1, <1>2 DEF Dist
  <2>3. CASE l = At \/ waiting[l] = {}
    <3>1. passed'[l] = 0  BY <2>1, <2>3, <1>1
    <3>q. QED  BY <3>1, <2>2, <1>2
  <2>4. CASE l # At /\ waiting[l] # {}
    <3>1. passed'[l] = passed[l] + 1 /\ passed[l] \in Nat  BY <2>1, <2>4, <1>1, <1>5
    <3>2. passed[l] + Dist(l, next_listener_accept, listeners) <= listeners - 1  BY DEF Fair, Turns
    <3>3. /\ reached \in 0 .. offset /\ next_listener_accept = Wrap(start + reached, listeners)
          /\ reached <= Dist(l, start, listeners) /\ Dist(l, start, listeners) < offset => passed[l] = 0
      BY <1>4 DEF Walked
    <3>4. (passed[l] + 1) + Dist(l, NextOrigin, listeners) <= listeners - 1
      <4>1. /\ l # Wrap(start + offset, listeners)
            /\ passed[l] + Dist(l, Wrap(start + reached, listeners), listeners) <= listeners - 1
        BY <3>2, <3>3, <2>4, <1>2
      <4>2. (passed[l] + 1) + Dist(l, Wrap(Wrap(start + offset, listeners) + 1, listeners), listeners)
              <= listeners - 1
        BY <4>1, <3>1, <3>3, <2>1, <1>2, <1>3, OneTurn
      <4>q. QED  BY <4>2, <1>2
    <3>q. QED  BY <3>1, <3>4
  <2>q. QED  BY <2>3, <2>4
<1>9. Walked(offset)'
  <2>1. NextOrigin = Wrap(start + (offset + 1), listeners)  BY <1>2, <1>3 DEF Wrap
  <2>2. \A l \in Bound : Dist(l, start, listeners) \in Nat  BY <1>2, <1>3 DEF Bound, Dist
  <2>3. \A l \in Bound : ~(offset + 1 <= Dist(l, start, listeners) /\ Dist(l, start, listeners) < offset + 1)
    BY <2>2, <1>3
  <2>q. QED  BY <2>1, <2>3, <1>1, <1>3 DEF Walked, Bound, Dist
<1>q. QED  BY <1>6, <1>7, <1>8, <1>9, <1>1, <1>3 DEF Fair

LEMMA FairStep == Ranges /\ Fair /\ [Next]_vars => Fair'
<1> SUFFICES ASSUME Ranges, Fair, [Next]_vars PROVE Fair'  OBVIOUS
<1>b. Bound \subseteq Listeners /\ listeners \in Nat  BY BoundListens
\* Steps that leave the sweep, the turns and the backlogs alone.
<1>k. ASSUME UNCHANGED <<listeners, next_listener_accept, passed, waiting, start, offset>>,
             step' = "accept" => step = "accept"
      PROVE  Fair'
  BY <1>k DEF Fair, WaitersOnly, Turns, Walked, Bound
<1>1. CASE Listen
  <2>1. /\ step' = "idle" /\ listeners' = listeners + 1
        /\ UNCHANGED <<waiting, next_listener_accept, passed>> /\ listeners < Port
    BY <1>1 DEF Listen, socketVars
  <2>2. passed[listeners] = 0
    <3>1. listeners \in Listeners  BY <2>1, <1>b, AdmissionAssumption DEF Listeners
    <3>2. waiting[listeners] = {}  BY <3>1, <1>b DEF Ranges
    <3>q. QED  BY <3>1, <3>2 DEF Fair, WaitersOnly
  <2>3. Turns'
    <3> SUFFICES ASSUME NEW l \in 0 .. listeners
                 PROVE  passed[l] + Dist(l, next_listener_accept, listeners + 1) <= listeners
      BY <2>1, <1>b DEF Turns, Bound
    <3>1. next_listener_accept \in 0 .. listeners  BY <1>b DEF Ranges
    <3>2. CASE l = listeners
      BY <3>1, <3>2, <2>2, <1>b DEF Dist
    <3>3. CASE l # listeners
      <4>1. l \in Bound /\ l \in Listeners  BY <3>3, <1>b DEF Bound
      <4>2. passed[l] + Dist(l, next_listener_accept, listeners) <= listeners - 1
        BY <4>1 DEF Fair, Turns
      <4>3. passed[l] \in Nat  BY <4>1 DEF Fair
      <4>q. QED  BY <4>2, <4>3, <3>1, <1>b DEF Dist
    <3>q. QED  BY <3>2, <3>3
  <2>q. QED  BY <2>1, <2>3 DEF Fair, WaitersOnly
<1>2. CASE Stop
  <2>1. step' # "accept" /\ listeners' = 0 /\ passed' = NoPass
    BY <1>2 DEF Stop
  <2>2. passed' \in [Listeners -> Nat] /\ \A l \in Listeners : passed'[l] = 0
    BY <2>1 DEF NoPass
  <2>3. Turns' /\ WaitersOnly'  BY <2>1, <2>2 DEF Turns, Bound, WaitersOnly
  <2>q. QED  BY <2>1, <2>2, <2>3 DEF Fair
<1>3. ASSUME NEW s \in Sock, NEW l \in Listeners, Connect(s, l) PROVE Fair'
  <2>1. /\ waiting' = [waiting EXCEPT ![l] = @ \cup {s}]
        /\ UNCHANGED <<listeners, next_listener_accept, step, start, offset, passed>>
    BY <1>3 DEF Connect, sweepVars
  <2>2. WaitersOnly'  BY <2>1 DEF Fair, WaitersOnly, Ranges
  <2>q. QED  BY <2>1, <2>2 DEF Fair, Turns, Walked, Bound
<1>4. ASSUME NEW s \in Sock, NEW outcome \in Outcomes, Accept(s, outcome) PROVE Fair'
  BY <1>4, AcceptFair
<1>5. CASE BeginAccept
  <2>1. CASE listeners = 0
    BY <1>5, <2>1 DEF BeginAccept, socketVars, Fair, WaitersOnly, Turns, Bound
  <2>2. CASE listeners # 0
    <3>1. listeners \in Nat \ {0} /\ next_listener_accept \in 0 .. listeners - 1
      BY <2>2, <1>b DEF Ranges
    <3>2. next_listener_accept \in 0 .. listeners + listeners - 1  BY <3>1
    <3>3. next_listener_accept % listeners = Wrap(next_listener_accept, listeners)
      BY <3>1, <3>2, ModWraps
    <3>4. /\ next_listener_accept' = next_listener_accept /\ start' = next_listener_accept
          /\ offset' = 0 /\ UNCHANGED <<listeners, waiting, passed>>
      BY <1>5, <2>2, <3>1, <3>3 DEF BeginAccept, socketVars, Wrap
    <3>5. Walked(0)'
      <4>1. \A l \in Bound : Dist(l, start', listeners) >= 0
        BY <3>1, <3>4 DEF Bound, Dist
      <4>2. \A l \in Bound : Dist(l, start', listeners) \in Int
        BY <3>1, <3>4 DEF Bound, Dist
      <4>q. QED  BY <3>1, <3>4, <4>1, <4>2 DEF Walked, Wrap, Bound
    <3>q. QED  BY <3>4, <3>5 DEF Fair, WaitersOnly, Turns, Bound
  <2>q. QED  BY <2>1, <2>2
<1>6. CASE NothingToAccept
  <2>1. /\ InSweep /\ step = "accept" /\ waiting[At] = {} /\ offset' = offset + 1
        /\ UNCHANGED <<listeners, waiting, passed, next_listener_accept, start, step>>
    BY <1>6 DEF NothingToAccept, socketVars, InSweep
  <2>2. At = Wrap(start + offset, listeners) /\ At \in Listeners /\ listeners \in Nat \ {0}
    BY <2>1, AtWraps
  <2>3. passed[At] = 0  BY <2>1, <2>2 DEF Fair, WaitersOnly
  <2>4. PICK reached \in Nat : Walked(reached)  BY <2>1 DEF Fair
  <2>5. start \in 0 .. listeners - 1 /\ offset \in 0 .. listeners - 1
    BY <2>1 DEF Ranges, InSweep
  <2>6. Walked(reached)'
    <3>1. \A l \in Bound : Dist(l, start, listeners) = offset => l = At
      BY <2>2, <2>5 DEF Bound, Dist, Wrap
    <3>2. \A l \in Bound : Dist(l, start, listeners) \in Nat
      BY <2>2, <2>5 DEF Bound, Dist
    <3>3. \A l \in Bound : Dist(l, start, listeners) < offset + 1 =>
                 Dist(l, start, listeners) < offset \/ l = At
      BY <3>1, <3>2, <2>5
    <3>q. QED  BY <2>1, <2>3, <2>4, <2>5, <3>3 DEF Walked, Bound
  <2>q. QED  BY <2>1, <2>6 DEF Fair, WaitersOnly, Turns, Bound
<1>7. CASE NextSweep
  <2>1. /\ step = "accept" /\ start' = next_listener_accept /\ offset' = 0
        /\ UNCHANGED <<listeners, waiting, passed, next_listener_accept>>
    BY <1>7 DEF NextSweep, socketVars
  <2>2. listeners \in Nat \ {0} /\ next_listener_accept \in 0 .. listeners - 1
    BY <2>1, <1>b DEF Ranges
  <2>3. Walked(0)'
    <3>1. \A l \in Bound : Dist(l, start', listeners) \in Nat
      BY <2>1, <2>2 DEF Bound, Dist
    <3>q. QED  BY <2>1, <2>2, <3>1 DEF Walked, Wrap, Bound
  <2>q. QED  BY <2>1, <2>3 DEF Fair, WaitersOnly, Turns, Bound
<1>8. CASE \/ Clock \/ EndPoll
           \/ \E base \in 1 .. EXTERNAL_PUBLISHER_ID_BIT - 1 : SetConnIdBase(base)
           \/ \E closed \in SUBSET connections : BeginPoll(closed)
           \/ \E s \in Sock, outcome \in Outcomes : ProgressPendingTls(s, outcome)
           \/ UNCHANGED vars
  <2>1. /\ UNCHANGED <<listeners, next_listener_accept, passed, waiting, start, offset>>
        /\ step' = "accept" => step = "accept"
    <3>1. CASE \E s \in Sock, outcome \in Outcomes : ProgressPendingTls(s, outcome)
      BY <3>1 DEF ProgressPendingTls, sweepVars
    <3>2. CASE ~\E s \in Sock, outcome \in Outcomes : ProgressPendingTls(s, outcome)
      BY <1>8, <3>2 DEF Clock, EndPoll, SetConnIdBase, BeginPoll, vars, socketVars, sweepVars
    <3>q. QED  BY <3>1, <3>2
  <2>q. QED  BY <2>1, <1>k
<1>q. QED  BY <1>1, <1>2, <1>3, <1>4, <1>5, <1>6, <1>7, <1>8 DEF Next

-----------------------------------------------------------------------------
LEMMA EmptyAtFirst == Init => SlotsBounded /\ AddrsBounded /\ IdsOrdered
<1> SUFFICES ASSUME Init PROVE SlotsBounded /\ AddrsBounded /\ IdsOrdered  OBVIOUS
<1>1. /\ connections \cup pending_tls \cup taken = {}
      /\ \A addr \in Addr : Of(addr, connections) = {} /\ Of(addr, pending_tls \cup taken) = {}
  BY DEF Init, Of
<1>2. Cardinality({}) = 0  BY FS_EmptySet
<1>3. SlotsBounded
  <2>1. Cardinality(connections \cup pending_tls \cup taken) = 0  BY <1>1, <1>2, Zenon
  <2>q. QED  BY <2>1, AdmissionAssumption DEF SlotsBounded
<1>4. AddrsBounded  BY <1>1, <1>2, AdmissionAssumption DEF AddrsBounded
<1>5. IdsOrdered  BY DEF Init, IdsOrdered, NewConnsServed
<1>q. QED  BY <1>3, <1>4, <1>5

LEMMA AlwaysInRange == Spec => []Ranges
BY RangesInit, RangesStep, PTL DEF Spec

(* Connections, waiting handshakes and handshakes being driven together    *)
(* never take more than max_connections slots, though the count that       *)
(* max_connections_reached looks at leaves the last ones out.              *)
THEOREM SlotsWithinCap == Spec => []SlotsBounded
BY EmptyAtFirst, SlotsStep, AlwaysInRange, PTL DEF Spec

(* No address gets more connections (add_connection) or more handshakes    *)
(* (queue_pending_tls) than its share.                                     *)
THEOREM AddressesWithinShare == Spec => []AddrsBounded
BY EmptyAtFirst, AddrsStep, AlwaysInRange, PTL DEF Spec

(* Both kinds of cap hold at every step of a poll, however handshakes and  *)
(* connections turn into each other (accept_new_connections).              *)
THEOREM CapsAlwaysHold == Spec => []CapsHold
<1>1. SlotsBounded /\ AddrsBounded => CapsHold  BY DEF CapsHold
<1>q. QED  BY <1>1, SlotsWithinCap, AddressesWithinShare, PTL

(* Connection ids are never shared, stay out of the injected publishers'   *)
(* range, and tell a poll's second pass which connections are new.         *)
THEOREM IdsTellNewConnections == Spec => []NewConnsServed
<1>1. IdsOrdered => NewConnsServed  BY DEF IdsOrdered
<1>q. QED  BY <1>1, EmptyAtFirst, IdsStep, AlwaysInRange, PTL DEF Spec

(* With any number of listeners and any caps cutting sweeps short, a       *)
(* listener with a peer waiting is passed over at most once by each of the *)
(* others (accept_new_connections).                                        *)
THEOREM NoListenerStarves == Spec => []ListenersTakeTurns
<1>1. Ranges /\ Fair => ListenersTakeTurns
  <2> SUFFICES ASSUME Ranges, Fair, NEW l \in Listeners PROVE passed[l] <= Port - 1
    BY DEF ListenersTakeTurns
  <2>t. /\ passed[l] \in Nat /\ listeners \in 0 .. Port /\ Port \in Nat \ {0} /\ l \in 0 .. Port - 1
    BY AdmissionAssumption DEF Fair, Ranges, Listeners
  <2>1. CASE l < listeners
    <3>1. l \in Bound  BY <2>1, <2>t DEF Bound
    <3>2. passed[l] + Dist(l, next_listener_accept, listeners) <= listeners - 1
      BY <3>1 DEF Fair, Turns
    <3>3. next_listener_accept \in 0 .. listeners - 1  BY <2>1, <2>t DEF Ranges
    <3>4. Dist(l, next_listener_accept, listeners) \in Nat  BY <3>3, <2>1, <2>t DEF Dist
    <3>q. QED  BY <3>2, <3>4, <2>t
  <2>2. CASE l >= listeners
    <3>1. passed[l] = 0  BY <2>2 DEF Ranges, Fair, WaitersOnly
    <3>q. QED  BY <3>1, <2>t
  <2>q. QED  BY <2>1, <2>2, <2>t
<1>q. QED  BY <1>1, FairInit, FairStep, AlwaysInRange, PTL DEF Spec

-----------------------------------------------------------------------------
(* The resolver's queue.                                                   *)

Places == {"idle", "enqueue", "notify", "reply", "done"}
WorkerPlaces == {"none", "pop", "asleep", "popped", "resolving"}

DnsTypeOK ==
  /\ jobs \in Seq(Caller) /\ Len(jobs) <= MAX_DNS_QUEUE_DEPTH
  /\ at \in [Caller -> Places]
  /\ notFull \subseteq Caller
  /\ worker \in WorkerPlaces

\* Only a caller still inside enqueue waits for a slot.
WaitersEnqueue == \A t \in notFull : at[t] = "enqueue"

Free == MAX_DNS_QUEUE_DEPTH - Len(jobs)
Popped == IF worker = "popped" THEN 1 ELSE 0

\* NoLostWakeup with its parts named.
Covered == notFull # {} => Free <= Cardinality(Awake) + Popped

DnsInv == DnsTypeOK /\ WaitersEnqueue /\ WorkerWakes /\ Covered

-----------------------------------------------------------------------------
(* Counting.                                                               *)

LEMMA AwakeFinite == IsFiniteSet(Awake) /\ Cardinality(Awake) \in Nat
<1>1. Awake \subseteq Caller  BY DEF Awake
<1>2. IsFiniteSet(Awake)  BY <1>1, DnsAssumption, FS_Subset
<1>q. QED  BY <1>2, FS_CardinalityType

(* A waiter that wakes is one caller more on its way to a slot.            *)
LEMMA OneMore ==
  ASSUME NEW S, IsFiniteSet(S), NEW T, NEW x, x \notin S, T = S \cup {x}
  PROVE  Cardinality(T) = Cardinality(S) + 1
BY FS_AddElement

LEMMA OneLess ==
  ASSUME NEW S, IsFiniteSet(S), NEW T, NEW x, x \in S, T = S \ {x}
  PROVE  Cardinality(T) = Cardinality(S) - 1
BY FS_RemoveElement

-----------------------------------------------------------------------------
LEMMA InitDns == DnsInit => DnsInv
<1> SUFFICES ASSUME DnsInit PROVE DnsInv  OBVIOUS
<1>1. DnsTypeOK
  BY DnsAssumption DEF DnsInit, DnsTypeOK, Places, WorkerPlaces
<1>q. QED  BY <1>1 DEF DnsInit, DnsInv, WaitersEnqueue, WorkerWakes, Covered

LEMMA TypeStep == DnsInv /\ [DnsNext]_dnsVars => DnsTypeOK' /\ WaitersEnqueue'
<1> SUFFICES ASSUME DnsInv, [DnsNext]_dnsVars PROVE DnsTypeOK' /\ WaitersEnqueue'
  OBVIOUS
<1> USE DnsAssumption DEF DnsInv, DnsTypeOK, WaitersEnqueue, Places, WorkerPlaces
<1>1. ASSUME NEW t \in Caller, Resolve(t) PROVE DnsTypeOK' /\ WaitersEnqueue'
  BY <1>1 DEF Resolve, Goes
<1>2. ASSUME NEW t \in Caller, Deadline(t) PROVE DnsTypeOK' /\ WaitersEnqueue'
  BY <1>2 DEF Deadline
<1>3. ASSUME NEW t \in Caller, Spurious(t) PROVE DnsTypeOK' /\ WaitersEnqueue'
  BY <1>3 DEF Spurious
<1>4. ASSUME NEW t \in Caller, GivesUp(t) PROVE DnsTypeOK' /\ WaitersEnqueue'
  BY <1>4 DEF GivesUp, NotifyOne, InLoop, Goes
<1>5. ASSUME NEW t \in Caller, Push(t) PROVE DnsTypeOK' /\ WaitersEnqueue'
  BY <1>5 DEF Push, InLoop, Goes, Full
<1>6. ASSUME NEW t \in Caller, WaitNotFull(t) PROVE DnsTypeOK' /\ WaitersEnqueue'
  BY <1>6 DEF WaitNotFull, InLoop
<1>7. ASSUME NEW t \in Caller, NotifyNotEmpty(t) PROVE DnsTypeOK' /\ WaitersEnqueue'
  BY <1>7 DEF NotifyNotEmpty, Goes
<1>8. ASSUME NEW t \in Caller, Answer(t) PROVE DnsTypeOK' /\ WaitersEnqueue'
  BY <1>8 DEF Answer, Goes
<1>9. CASE PopOrWait
  BY <1>9 DEF PopOrWait
<1>10. CASE NotifyNotFull
  BY <1>10 DEF NotifyNotFull, NotifyOne
<1>11. CASE Reply
  BY <1>11 DEF Reply
<1>12. CASE UNCHANGED dnsVars
  BY <1>12 DEF dnsVars
<1>q. QED
  BY <1>1, <1>2, <1>3, <1>4, <1>5, <1>6, <1>7, <1>8, <1>9, <1>10, <1>11, <1>12 DEF DnsNext

(* A job is pushed by a caller that has its notification still to make,    *)
(* and the worker goes to sleep only on an empty queue.                    *)
LEMMA WakesStep == DnsInv /\ [DnsNext]_dnsVars => WorkerWakes'
<1> SUFFICES ASSUME DnsInv, [DnsNext]_dnsVars, worker' = "asleep", jobs' # <<>>
             PROVE  \E t \in Caller : at'[t] = "notify"
  BY DEF WorkerWakes
<1> USE DEF DnsInv, DnsTypeOK, WorkerWakes, Places
<1>1. ASSUME NEW t \in Caller, Resolve(t) PROVE \E u \in Caller : at'[u] = "notify"
  BY <1>1 DEF Resolve, Goes
<1>2. ASSUME NEW t \in Caller, Deadline(t) \/ Spurious(t) \/ WaitNotFull(t)
      PROVE  \E u \in Caller : at'[u] = "notify"
  BY <1>2 DEF Deadline, Spurious, WaitNotFull
<1>3. ASSUME NEW t \in Caller, GivesUp(t) \/ Answer(t) PROVE \E u \in Caller : at'[u] = "notify"
  BY <1>3 DEF GivesUp, Answer, InLoop, Goes
<1>4. ASSUME NEW t \in Caller, Push(t) PROVE \E u \in Caller : at'[u] = "notify"
  BY <1>4 DEF Push, Goes
<1>5. ASSUME NEW t \in Caller, NotifyNotEmpty(t) PROVE FALSE
  BY <1>5 DEF NotifyNotEmpty, Goes
<1>6. CASE PopOrWait \/ NotifyNotFull \/ Reply
  BY <1>6 DEF PopOrWait, NotifyNotFull, Reply
<1>7. CASE UNCHANGED dnsVars
  BY <1>7 DEF dnsVars
<1>q. QED  BY <1>1, <1>2, <1>3, <1>4, <1>5, <1>6, <1>7 DEF DnsNext

(* The count: a slot is freed by the worker, which is then on its way to   *)
(* notify; the notification turns a waiter into a caller on its way; and a *)
(* caller that leaves without taking the slot wakes another one.           *)
LEMMA CoveredStep == DnsInv /\ [DnsNext]_dnsVars => Covered'
<1> SUFFICES ASSUME DnsInv, [DnsNext]_dnsVars, notFull' # {}
             PROVE  Free' <= Cardinality(Awake)' + Popped'
  BY DEF Covered
<1>t. DnsTypeOK' /\ WaitersEnqueue'  BY TypeStep
<1>n. /\ IsFiniteSet(Awake) /\ Cardinality(Awake) \in Nat
      /\ IsFiniteSet(Awake)' /\ Cardinality(Awake)' \in Nat
  <2>1. IsFiniteSet(Awake') /\ Cardinality(Awake') \in Nat
    <3>1. Awake' \subseteq Caller  BY DEF Awake
    <3>2. IsFiniteSet(Awake')  BY <3>1, DnsAssumption, FS_Subset
    <3>q. QED  BY <3>2, FS_CardinalityType
  <2>q. QED  BY <2>1, AwakeFinite
<1>f. Free \in Int /\ Free' \in Int /\ Popped \in 0..1 /\ Popped' \in 0..1
  BY <1>t, DnsAssumption DEF DnsInv, DnsTypeOK, Free, Popped
<1>c. notFull # {} => Free <= Cardinality(Awake) + Popped
  BY DEF DnsInv, Covered
\* One waiter w leaves not_full and nothing else changes at.
<1>w. ASSUME NEW w \in notFull, notFull' = notFull \ {w}, at' = at
      PROVE  Cardinality(Awake)' = Cardinality(Awake) + 1
  <2>1. at[w] = "enqueue" /\ w \in Caller  BY <1>w DEF DnsInv, DnsTypeOK, WaitersEnqueue
  <2>2. w \notin Awake  BY <1>w DEF Awake, InLoop
  <2>3. Awake' = Awake \cup {w}  BY <1>w, <2>1 DEF Awake, InLoop
  <2>q. QED  BY <2>2, <2>3, <1>n, OneMore
\* Nobody's place and nobody's waiting changes.
<1>s. ASSUME notFull' = notFull, \A u \in Caller : (at'[u] = "enqueue") <=> (at[u] = "enqueue")
      PROVE  Awake' = Awake
  BY <1>s DEF Awake, InLoop
<1>1. ASSUME NEW t \in Caller, Resolve(t) PROVE Free' <= Cardinality(Awake)' + Popped'
  <2>1. Free' = Free /\ notFull' = notFull /\ Popped' = Popped
    BY <1>1 DEF Resolve, Free, Popped
  <2>2. CASE Goes(t, "enqueue")
    <3>1. t \notin Awake /\ Awake' = Awake \cup {t}
      BY <1>1, <2>1, <2>2 DEF Resolve, Goes, Awake, InLoop, DnsInv, DnsTypeOK, WaitersEnqueue
    <3>2. Cardinality(Awake)' = Cardinality(Awake) + 1  BY <3>1, <1>n, OneMore
    <3>q. QED  BY <3>2, <2>1, <1>c, <1>n, <1>f
  <2>3. CASE Goes(t, "done")
    <3>1. Awake' = Awake  BY <1>1, <2>1, <2>3, <1>s DEF Resolve, Goes, DnsInv, DnsTypeOK
    <3>q. QED  BY <3>1, <2>1, <1>c, <1>n, <1>f
  <2>q. QED  BY <1>1, <2>2, <2>3 DEF Resolve
<1>2. ASSUME NEW t \in Caller, Deadline(t) \/ Spurious(t)
      PROVE  Free' <= Cardinality(Awake)' + Popped'
  <2>1. Free' = Free /\ Popped' = Popped /\ at' = at /\ notFull' = notFull \ {t}
    BY <1>2 DEF Deadline, Spurious, Free, Popped
  <2>2. CASE t \in notFull
    BY <2>1, <2>2, <1>w, <1>c, <1>n, <1>f
  <2>3. CASE t \notin notFull
    <3>1. notFull' = notFull  BY <2>1, <2>3
    <3>2. Awake' = Awake  BY <3>1, <2>1, <1>s
    <3>q. QED  BY <3>1, <3>2, <2>1, <1>c, <1>n, <1>f
  <2>q. QED  BY <2>2, <2>3
<1>3. ASSUME NEW t \in Caller, GivesUp(t) PROVE Free' <= Cardinality(Awake)' + Popped'
  <2>1. Free' = Free /\ Popped' = Popped /\ t \in Awake /\ t \notin notFull
        /\ at' = [at EXCEPT ![t] = "done"]
    BY <1>3 DEF GivesUp, Goes, Free, Popped, Awake, InLoop
  <2>2. CASE Full
    <3>1. Free <= 0  BY <2>2, DnsAssumption DEF Full, Free, DnsInv, DnsTypeOK
    <3>q. QED  BY <3>1, <2>1, <1>n, <1>f
  <2>3. CASE ~Full
    <3>1. PICK w \in notFull : notFull' = notFull \ {w}
      BY <1>3, <2>3 DEF GivesUp, NotifyOne
    <3>2. at[w] = "enqueue" /\ w \in Caller /\ w # t
      BY <3>1, <2>1 DEF DnsInv, DnsTypeOK, WaitersEnqueue
    <3>3. w \notin Awake  BY <3>1 DEF Awake, InLoop
    <3>4. Awake' = (Awake \cup {w}) \ {t}
      BY <3>1, <3>2, <2>1 DEF Awake, InLoop, DnsInv, DnsTypeOK
    <3>5. IsFiniteSet(Awake \cup {w}) /\ Cardinality(Awake \cup {w}) = Cardinality(Awake) + 1
      BY <3>3, <1>n, FS_AddElement
    <3>6. Cardinality(Awake)' = Cardinality(Awake)
      BY <3>4, <3>5, <2>1, <1>n, OneLess
    <3>q. QED  BY <3>1, <3>6, <2>1, <1>c, <1>n, <1>f
  <2>q. QED  BY <2>2, <2>3
<1>4. ASSUME NEW t \in Caller, Push(t) PROVE Free' <= Cardinality(Awake)' + Popped'
  <2>1. Popped' = Popped /\ t \in Awake /\ notFull' = notFull /\ jobs' = Append(jobs, t)
        /\ at' = [at EXCEPT ![t] = "notify"]
    BY <1>4 DEF Push, Goes, Popped, Awake, InLoop
  <2>2. Free' = Free - 1  BY <2>1, DnsAssumption DEF Free, DnsInv, DnsTypeOK
  <2>3. Awake' = Awake \ {t}  BY <2>1 DEF Awake, InLoop, DnsInv, DnsTypeOK
  <2>4. Cardinality(Awake)' = Cardinality(Awake) - 1  BY <2>1, <2>3, <1>n, OneLess
  <2>q. QED  BY <2>1, <2>2, <2>4, <1>c, <1>n, <1>f
<1>5. ASSUME NEW t \in Caller, WaitNotFull(t) PROVE Free' <= Cardinality(Awake)' + Popped'
  <2>1. Free' = Free  BY <1>5 DEF WaitNotFull, Free
  <2>2. Free <= 0  BY <1>5, DnsAssumption DEF WaitNotFull, Full, Free, DnsInv, DnsTypeOK
  <2>q. QED  BY <2>1, <2>2, <1>n, <1>f
<1>6. ASSUME NEW t \in Caller, NotifyNotEmpty(t) \/ Answer(t)
      PROVE  Free' <= Cardinality(Awake)' + Popped'
  <2>1. Free' = Free /\ notFull' = notFull /\ Popped' = Popped
    BY <1>6 DEF NotifyNotEmpty, Answer, Free, Popped
  <2>2. Awake' = Awake
    BY <1>6, <2>1, <1>s DEF NotifyNotEmpty, Answer, Goes, DnsInv, DnsTypeOK
  <2>q. QED  BY <2>1, <2>2, <1>c, <1>n, <1>f
<1>7. CASE PopOrWait
  <2>1. notFull' = notFull /\ at' = at  BY <1>7 DEF PopOrWait
  <2>2. Awake' = Awake  BY <2>1, <1>s
  <2>3. Popped = 0  BY <1>7 DEF PopOrWait, Popped
  <2>4. CASE jobs = <<>>
    <3>1. Free' = Free /\ Popped' = 0  BY <1>7, <2>4 DEF PopOrWait, Free, Popped
    <3>q. QED  BY <3>1, <2>1, <2>2, <2>3, <1>c, <1>n, <1>f
  <2>5. CASE jobs # <<>>
    <3>1. Free' = Free + 1
      BY <1>7, <2>5, DnsAssumption DEF PopOrWait, Free, DnsInv, DnsTypeOK
    <3>2. Popped' = 1  BY <1>7, <2>5 DEF PopOrWait, Popped
    <3>q. QED  BY <3>1, <3>2, <2>1, <2>2, <2>3, <1>c, <1>n, <1>f
  <2>q. QED  BY <2>4, <2>5
<1>8. CASE NotifyNotFull
  <2>1. Free' = Free /\ Popped = 1 /\ Popped' = 0 /\ at' = at
    BY <1>8 DEF NotifyNotFull, Free, Popped
  <2>2. PICK w \in notFull : notFull' = notFull \ {w}
    BY <1>8 DEF NotifyNotFull, NotifyOne
  <2>q. QED  BY <2>1, <2>2, <1>w, <1>c, <1>n, <1>f
<1>9. CASE Reply
  <2>1. Free' = Free /\ notFull' = notFull /\ Popped' = 0 /\ Popped = 0 /\ at' = at
    BY <1>9 DEF Reply, Free, Popped
  <2>2. Awake' = Awake  BY <2>1, <1>s
  <2>q. QED  BY <2>1, <2>2, <1>c, <1>n, <1>f
<1>10. CASE UNCHANGED dnsVars
  BY <1>10, <1>c DEF dnsVars, Free, Popped, Awake, InLoop
<1>q. QED
  BY <1>1, <1>2, <1>3, <1>4, <1>5, <1>6, <1>7, <1>8, <1>9, <1>10 DEF DnsNext

-----------------------------------------------------------------------------
LEMMA DnsInvariant == DnsSpec => []DnsInv
<1>1. DnsInv /\ [DnsNext]_dnsVars => DnsInv'
  BY TypeStep, WakesStep, CoveredStep DEF DnsInv
<1>q. QED  BY InitDns, <1>1, PTL DEF DnsSpec

(* No notification of not_full is lost, however deadlines, spurious        *)
(* wake-ups and the worker interleave: while callers wait, every free slot *)
(* of DnsQueue has a caller or the worker on its way to it.                *)
THEOREM WakeupsNotLost == DnsSpec => []NoLostWakeup
<1>1. DnsInv => NoLostWakeup
  BY DEF DnsInv, Covered, Free, Popped, NoLostWakeup
<1>q. QED  BY <1>1, DnsInvariant, PTL

(* The worker never sleeps on a job: DnsQueue::run goes to sleep only on   *)
(* an empty queue, and each push is followed by its notification.          *)
THEOREM WorkerNotStranded == DnsSpec => []WorkerWakes
<1>1. DnsInv => WorkerWakes  BY DEF DnsInv
<1>q. QED  BY <1>1, DnsInvariant, PTL

(* Nobody sleeps beside the work: the two together.                        *)
THEOREM ResolverNotStuck == DnsSpec => []WakeupsKept
<1>1. NoLostWakeup /\ WorkerWakes => WakeupsKept  BY DEF WakeupsKept
<1>q. QED  BY <1>1, WakeupsNotLost, WorkerNotStranded, PTL
=============================================================================
