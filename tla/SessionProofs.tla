--------------------------- MODULE SessionProofs ---------------------------
(***************************************************************************)
(* Theorems about Session, for any set of connections, apps and names, any *)
(* pinning of relay keys and any limits.                                   *)
(***************************************************************************)
EXTENDS Session, ListProofs

-----------------------------------------------------------------------------
(* The routes.  The invariant ties a route to its owner's app and claim;   *)
(* a connection without an app can neither claim nor ask.                  *)

RouteTypes ==
    /\ state \in [Conn -> DOMAIN Rank \cup {"Closed"}]
    /\ app \in [Conn -> App \cup {None}]
    /\ relay_key \in [Conn -> Name \cup {None}]
    /\ current_stream \in [Conn -> Stream]
    /\ next_stream_id \in [Conn -> 0 .. MaxStreamId]
    /\ claimed_publish_route \in [Conn -> Name \cup {None}]
    /\ pending_auth \in [Conn -> [Role -> Request \cup {NoRequest}]]
    /\ routes \in [Key -> Conn \cup {None}]

WithoutApp(c) ==
    /\ state[c] \in {"Connected", "Closed"}
    /\ ~HasStream(c)
    /\ claimed_publish_route[c] = None
    /\ \A r \in Role : ~Pending(c, r)

AppKnown ==
    \A c \in Conn :
        /\ app[c] = None => WithoutApp(c)
        /\ state[c] \in {"Connected", "Closed"} => app[c] = None

Owned == \A k \in Key, c \in Conn : routes[k] = c => k = <<app[c], claimed_publish_route[c]>>

RouteInv == RouteTypes /\ AppKnown /\ Owned

(* A table r that an operation of c leaves: c owns at most the routes in   *)
(* keys, and nobody else gained one.                                       *)
Holds(c, r, keys) ==
    /\ r \in [Key -> Conn \cup {None}]
    /\ \A k \in Key : r[k] = c => k \in keys
    /\ \A k \in Key, d \in Conn \ {c} : r[k] = d => routes[k] = d

(* The table r goes with the claim cl of c.  *)
Fits(c, r, cl) ==
    /\ cl \in Name \cup {None}
    /\ Holds(c, r, {<<app[c], cl>>})

(* An owned route has an app, so its owner is open: the inductive          *)
(* invariant is enough.                                                    *)
LEMMA RouteInvSuffices == RouteInv => NoLeakedRoute
  <1> SUFFICES ASSUME RouteInv, NEW k \in Key, NEW c \in Conn, routes[k] = c
               PROVE  Open(c) /\ k = <<app[c], claimed_publish_route[c]>>
    BY DEF NoLeakedRoute
  <1>1. k = <<app[c], claimed_publish_route[c]>>
    BY DEF RouteInv, Owned
  <1>2. app[c] # None
    BY <1>1, SessionAssumption DEF Key
  <1>3. state[c] # "Closed"
    BY <1>2 DEF RouteInv, AppKnown
  <1> QED
    BY <1>1, <1>3 DEF Open

(* Claim and release, the two steps every change of the table is made of.  *)
LEMMA ReleaseHolds ==
    ASSUME NEW c \in Conn, NEW key \in Key, NEW r, NEW keys, Holds(c, r, keys)
    PROVE  Holds(c, Release(r, c, key), keys \ {key})
  BY SessionAssumption DEF Release, Holds

LEMMA ClaimHolds ==
    ASSUME NEW c \in Conn, NEW key \in Key, NEW r, NEW keys, Holds(c, r, keys)
    PROVE  Holds(c, Claim(r, c, key), keys \cup {key})
  BY SessionAssumption DEF Claim, Claimable, Holds

LEMMA HoldsFewer ==
    ASSUME NEW c \in Conn, NEW r, NEW keys, NEW more, Holds(c, r, keys), keys \cap Key \subseteq more
    PROVE  Holds(c, r, more)
  BY DEF Holds

LEMMA HoldsInitially ==
    ASSUME RouteTypes, Owned, NEW c \in Conn
    PROVE  Holds(c, routes, {<<app[c], claimed_publish_route[c]>>})
  BY DEF Holds, RouteTypes, Owned

(* claim_publish_route, whatever its outcome.                              *)
LEMMA ClaimFits ==
    ASSUME RouteTypes, Owned, NEW c \in Conn, app[c] \in App, NEW name \in Name
    PROVE  LET claim == ClaimPublishRoute(c, name)
           IN  /\ Fits(c, claim.routes, claim.claimed)
               /\ claim.outcome = "Claimed" => claim.claimed = name
  <1> DEFINE key == <<app[c], name>>
             prev == claimed_publish_route[c]
             prevKey == <<app[c], prev>>
             taken == Claim(routes, c, key)
             switched == Release(taken, c, prevKey)
             freed == Release(switched, c, key)
             undone == Claim(freed, c, prevKey)
             claim == ClaimPublishRoute(c, name)
  <1> SUFFICES /\ Fits(c, claim.routes, claim.claimed)
               /\ claim.outcome = "Claimed" => claim.claimed = name
    OBVIOUS
  <1>k. key \in Key /\ prev \in Name \cup {None}
    BY DEF Key, RouteTypes
  <1>o. Holds(c, routes, {prevKey})
    BY HoldsInitially
  <1>t. Holds(c, taken, {prevKey} \cup {key})
    BY <1>k, <1>o, ClaimHolds
  <1>1. CASE ~Claimable(routes, c, key)
    <2>1. claim.outcome = "Contended" /\ claim.routes = routes /\ claim.claimed = prev
      BY <1>1 DEF ClaimPublishRoute
    <2> QED
      BY <2>1, <1>k, <1>o DEF Fits
  <1>2. CASE Claimable(routes, c, key) /\ prev \in {None, name}
    <2>1. claim.outcome = "Claimed" /\ claim.routes = taken /\ claim.claimed = name
      BY <1>2 DEF ClaimPublishRoute
    <2>2. ({prevKey} \cup {key}) \cap Key \subseteq {key}
      BY <1>2, SessionAssumption DEF Key
    <2>3. Holds(c, taken, {key})
      BY <1>t, <2>2, HoldsFewer
    <2> HIDE DEF claim, taken
    <2> QED
      BY <2>1, <2>3 DEF Fits
  <1>3. CASE Claimable(routes, c, key) /\ prev \notin {None, name}
    <2>p. prevKey \in Key
      BY <1>3, <1>k DEF Key
    <2>s. Holds(c, switched, ({prevKey} \cup {key}) \ {prevKey})
      BY <1>t, <2>p, ReleaseHolds
    <2>f. Holds(c, freed, (({prevKey} \cup {key}) \ {prevKey}) \ {key})
      BY <2>s, <1>k, ReleaseHolds
    <2>u. Holds(c, undone, ((({prevKey} \cup {key}) \ {prevKey}) \ {key}) \cup {prevKey})
      BY <2>f, <2>p, ClaimHolds
    <2>1. CASE EvictionQueueFull(backlog[c])
      <3>1. claim.outcome = "EvictionQueueFull" /\ claim.routes = undone /\ claim.claimed = prev
        BY <1>3, <2>1 DEF ClaimPublishRoute
      <3>2. Holds(c, undone, {prevKey})
        BY <2>u, HoldsFewer
      <3> HIDE DEF claim, undone
      <3> QED
        BY <3>1, <3>2, <1>k DEF Fits
    <2>2. CASE ~EvictionQueueFull(backlog[c])
      <3>1. claim.outcome = "Claimed" /\ claim.routes = switched /\ claim.claimed = name
        BY <1>3, <2>2 DEF ClaimPublishRoute
      <3>2. Holds(c, switched, {key})
        BY <2>s, HoldsFewer
      <3> HIDE DEF claim, switched
      <3> QED
        BY <3>1, <3>2 DEF Fits
    <2> QED
      BY <2>1, <2>2
  <1> QED
    BY <1>1, <1>2, <1>3

(* A relay key, or the name that stands in for it, is a name.              *)
LEMMA RelayRouteKeyType ==
    ASSUME RouteTypes, NEW c \in Conn, NEW name \in Name
    PROVE  RelayRouteKey(c) \in Name \cup {None} /\ NextRouteKey(c, name) \in Name
  BY SessionAssumption DEF RouteTypes, RelayRouteKey, NextRouteKey, Stream

(* The claim of a publish, with the rename's eviction or its rollback.     *)
LEMMA PublishClaimFits ==
    ASSUME RouteTypes, Owned, NEW c \in Conn, app[c] \in App, NEW name \in Name
    PROVE  Fits(c, PublishClaim(c, name).routes, PublishClaim(c, name).claimed)
  <1> DEFINE claim == ClaimPublishRoute(c, NextRouteKey(c, name))
             live == <<app[c], RelayRouteKey(c)>>
             next == <<app[c], NextRouteKey(c, name)>>
             freed == Release(claim.routes, c, next)
             back == Claim(freed, c, live)
             publish == PublishClaim(c, name)
  <1>k. RelayRouteKey(c) \in Name \cup {None} /\ NextRouteKey(c, name) \in Name
    BY RelayRouteKeyType
  <1>c. /\ Fits(c, claim.routes, claim.claimed)
        /\ claim.outcome = "Claimed" => claim.claimed = NextRouteKey(c, name)
    BY <1>k, ClaimFits
  <1>1. CASE claim.outcome # "Claimed" \/ ~RenameToQueue(c, name, claim)
    <2>1. publish = claim
      BY <1>1 DEF PublishClaim
    <2> HIDE DEF claim, publish
    <2>2. Fits(c, publish.routes, publish.claimed)
      BY <2>1, <1>c
    <2> QED
      BY <2>2 DEF publish
  <1>2. CASE claim.outcome = "Claimed" /\ RenameToQueue(c, name, claim)
    <2>k. live \in Key /\ next \in Key
      <3>1. RelayRouteKey(c) # None
        BY <1>2 DEF RenameToQueue
      <3> QED
        BY <3>1, <1>k DEF Key
    <2>1. CASE EvictionQueueFull(claim.backlog)
      <3>1. publish.routes = back /\ publish.claimed = RelayRouteKey(c)
        BY <1>2, <2>1 DEF PublishClaim
      <3>2. Holds(c, claim.routes, {next})
        BY <1>c, <1>2 DEF Fits
      <3>3. Holds(c, freed, {next} \ {next})
        BY <3>2, <2>k, ReleaseHolds
      <3>4. Holds(c, back, ({next} \ {next}) \cup {live})
        BY <3>3, <2>k, ClaimHolds
      <3>5. Holds(c, back, {live})
        BY <3>4, HoldsFewer
      <3> HIDE DEF back, freed, publish
      <3>6. Fits(c, publish.routes, publish.claimed)
        BY <3>1, <3>5, <1>k DEF Fits
      <3> QED
        BY <3>6 DEF publish
    <2>2. CASE ~EvictionQueueFull(claim.backlog)
      <3>1. publish = [claim EXCEPT !.backlog.evictions = Append(@, live)]
        BY <1>2, <2>2, SMTT(30) DEF PublishClaim
      <3>2. publish.routes = claim.routes /\ publish.claimed = claim.claimed
        BY <3>1, <1>2, Zenon DEF ClaimPublishRoute
      <3> HIDE DEF publish, claim
      <3>3. Fits(c, publish.routes, publish.claimed)
        BY <3>2, <1>c
      <3> QED
        BY <3>3 DEF publish
    <2> QED
      BY <2>1, <2>2
  <1> QED
    BY <1>1, <1>2

(* evict_active_publish_route leaves the connection without a route.       *)
LEMMA EvictFits ==
    ASSUME RouteInv, NEW c \in Conn, EvictActivePublishRoute(c)
    PROVE  /\ Fits(c, routes', None)
           /\ claimed_publish_route' = [claimed_publish_route EXCEPT ![c] = None]
  <1> DEFINE claimed == claimed_publish_route[c]
             key == <<app[c], claimed>>
  <1>o. Holds(c, routes, {key})
    BY HoldsInitially DEF RouteInv
  <1>1. claimed_publish_route' = [claimed_publish_route EXCEPT ![c] = None]
    BY DEF EvictActivePublishRoute
  <1>2. Holds(c, routes', {})
    <2>1. CASE claimed = None
      <3>1. routes' = routes
        BY <2>1 DEF EvictActivePublishRoute
      <3>2. {key} \cap Key \subseteq {}
        BY <2>1, SessionAssumption DEF Key
      <3> QED
        BY <1>o, <3>1, <3>2, HoldsFewer
    <2>2. CASE claimed # None
      <3>1. routes' = Release(routes, c, key)
        BY <2>2 DEF EvictActivePublishRoute
      <3>2. key \in Key
        BY <2>2 DEF Key, RouteInv, RouteTypes, AppKnown, WithoutApp
      <3>3. Holds(c, Release(routes, c, key), {key} \ {key})
        BY <1>o, <3>2, ReleaseHolds
      <3>4. Holds(c, Release(routes, c, key), {})
        BY <3>3, HoldsFewer
      <3> QED
        BY <3>1, <3>4
    <2> QED
      BY <2>1, <2>2
  <1>3. Holds(c, routes', {<<app[c], None>>})
    BY <1>2, HoldsFewer
  <1> QED
    BY <1>1, <1>3 DEF Fits

-----------------------------------------------------------------------------
(* Steps.                                                                  *)

(* What a step of c leaves alone.  *)
OnlyAt(c) ==
    /\ app' = app
    /\ \A d \in Conn \ {c} :
          /\ state'[d] = state[d]
          /\ current_stream'[d] = current_stream[d]
          /\ claimed_publish_route'[d] = claimed_publish_route[d]
          /\ pending_auth'[d] = pending_auth[d]

(* A step of one connection with an app keeps the invariant when its table *)
(* fits its claim.                                                         *)
LEMMA ClaimStep ==
    ASSUME RouteInv, RouteTypes', NEW c \in Conn, app[c] # None, OnlyAt(c),
           Fits(c, routes', claimed_publish_route'[c]),
           state'[c] \notin {"Connected", "Closed"}
    PROVE  RouteInv'
  <1>1. AppKnown'
    BY DEF RouteInv, AppKnown, WithoutApp, OnlyAt, Pending, HasStream
  <1>2. Owned'
    <2> SUFFICES ASSUME NEW k \in Key, NEW d \in Conn, routes'[k] = d
                 PROVE  k = <<app[d], claimed_publish_route'[d]>>
      BY DEF Owned, OnlyAt
    <2>1. CASE d = c
      BY <2>1 DEF Fits, Holds
    <2>2. CASE d # c
      <3>1. routes[k] = d
        BY <2>2 DEF Fits, Holds
      <3> QED
        BY <3>1, <2>2 DEF RouteInv, Owned, OnlyAt
    <2> QED
      BY <2>1, <2>2
  <1> QED
    BY <1>1, <1>2 DEF RouteInv

(* A step that leaves the routes, the claims and the connections' progress *)
(* alone.                                                                  *)
LEMMA QuietStep ==
    ASSUME RouteInv, UNCHANGED <<state, app, current_stream, next_stream_id, claimed_publish_route, routes>>,
           relay_key' \in [Conn -> Name \cup {None}],
           pending_auth' \in [Conn -> [Role -> Request \cup {NoRequest}]],
           \A c \in Conn, r \in Role : app[c] = None => pending_auth'[c][r] = pending_auth[c][r]
    PROVE  RouteInv'
  BY DEF RouteInv, RouteTypes, AppKnown, WithoutApp, Owned, Pending, HasStream

LEMMA TransitionState ==
    ASSUME NEW from \in (DOMAIN Rank \cup {"Closed"}) \ {"Connected", "Closed"},
           NEW to \in {"AppConnected", "StreamCreated", "Publishing", "Playing"}
    PROVE  Transition(from, to) \in DOMAIN Rank \ {"Connected", "Closed"}
  BY DEF Transition, Rank

LEMMA WithdrawTypes ==
    ASSUME RouteTypes, NEW c \in Conn, NEW roles \in SUBSET Role, Withdraw(c, roles)
    PROVE  /\ pending_auth' \in [Conn -> [Role -> Request \cup {NoRequest}]]
           /\ \A d \in Conn \ {c} : pending_auth'[d] = pending_auth[d]
           /\ \A d \in Conn, r \in Role : pending_auth'[d][r] \in {pending_auth[d][r], NoRequest}
  BY DEF RouteTypes, Withdraw

(* A request waits only on a connection with an app, and under a name.     *)
LEMMA PendingName ==
    ASSUME RouteInv, NEW c \in Conn, NEW role \in Role, Pending(c, role)
    PROVE  app[c] # None /\ pending_auth[c][role].name \in Name
  <1>1. app[c] # None
    BY DEF RouteInv, AppKnown, WithoutApp
  <1>2. pending_auth[c][role] \in Request
    BY DEF RouteInv, RouteTypes, Pending
  <1> QED
    BY <1>1, <1>2 DEF Request

(* A granted or refused role.                                              *)
LEMMA AuthorizedStep ==
    ASSUME RouteInv, NEW c \in Conn, app[c] # None, NEW role \in Role, NEW name \in Name, NEW q,
           Authorized(c, role, name, q), UNCHANGED <<app, relay_key, next_stream_id>>
    PROVE  RouteInv'
  <1> USE DEF RouteInv
  <1>a. app[c] \in App /\ state[c] \in (DOMAIN Rank \cup {"Closed"}) \ {"Connected", "Closed"}
    BY DEF RouteTypes, AppKnown
  <1>1. CASE PlayGranted(c, name, q)
    <2>1. Fits(c, routes', None) /\ claimed_publish_route' = [claimed_publish_route EXCEPT ![c] = None]
      BY <1>1, EvictFits DEF PlayGranted
    <2>2. state' = [state EXCEPT ![c] = Transition(state[c], "Playing")]
      BY <1>1 DEF PlayGranted
    <2>3. Transition(state[c], "Playing") \in DOMAIN Rank \ {"Connected", "Closed"}
      BY <1>a, TransitionState
    <2>4. /\ current_stream' \in [Conn -> Stream]
          /\ \A d \in Conn \ {c} : current_stream'[d] = current_stream[d]
      BY <1>1, ZenonT(30) DEF PlayGranted, RouteTypes, Stream
    <2>5. /\ pending_auth' \in [Conn -> [Role -> Request \cup {NoRequest}]]
          /\ \A d \in Conn \ {c} : pending_auth'[d] = pending_auth[d]
      BY <1>1, WithdrawTypes DEF PlayGranted
    <2>6. RouteTypes'
      BY <2>1, <2>2, <2>3, <2>4, <2>5, Zenon DEF RouteTypes, Fits, Holds
    <2>7. OnlyAt(c) /\ state'[c] \notin {"Connected", "Closed"} /\ claimed_publish_route'[c] = None
      BY <2>1, <2>2, <2>3, <2>4, <2>5 DEF RouteTypes, OnlyAt
    <2> QED
      BY <2>1, <2>6, <2>7, ClaimStep
  <1>2. CASE PublishRefused(c, name)
    <2>1. Fits(c, PublishClaim(c, name).routes, PublishClaim(c, name).claimed)
      BY <1>a, PublishClaimFits
    <2>2. /\ routes' = PublishClaim(c, name).routes
          /\ claimed_publish_route' = [claimed_publish_route EXCEPT ![c] = PublishClaim(c, name).claimed]
      BY <1>2 DEF PublishRefused, Claims
    <2>3. /\ pending_auth' \in [Conn -> [Role -> Request \cup {NoRequest}]]
          /\ \A d \in Conn \ {c} : pending_auth'[d] = pending_auth[d]
      BY <1>2, WithdrawTypes DEF PublishRefused, Role
    <2>4. UNCHANGED <<state, current_stream>>
      BY <1>2 DEF PublishRefused
    <2>5. claimed_publish_route'[c] = PublishClaim(c, name).claimed
      BY <2>2 DEF RouteTypes
    <2>6. RouteTypes'
      BY <2>1, <2>2, <2>3, <2>4, Zenon DEF RouteTypes, Fits, Holds
    <2>7. OnlyAt(c) /\ state'[c] \notin {"Connected", "Closed"}
      BY <1>a, <2>2, <2>3, <2>4 DEF RouteTypes, OnlyAt
    <2> QED
      BY <2>1, <2>2, <2>5, <2>6, <2>7, ClaimStep
  <1>3. CASE PublishGranted(c, name, q)
    <2>1. Fits(c, PublishClaim(c, name).routes, PublishClaim(c, name).claimed)
      BY <1>a, PublishClaimFits
    <2>2. /\ routes' = PublishClaim(c, name).routes
          /\ claimed_publish_route' = [claimed_publish_route EXCEPT ![c] = PublishClaim(c, name).claimed]
      BY <1>3 DEF PublishGranted, Claims
    <2>3. /\ pending_auth' \in [Conn -> [Role -> Request \cup {NoRequest}]]
          /\ \A d \in Conn \ {c} : pending_auth'[d] = pending_auth[d]
      BY <1>3, WithdrawTypes DEF PublishGranted
    <2>4. state' = [state EXCEPT ![c] = Transition(state[c], "Publishing")]
      BY <1>3 DEF PublishGranted
    <2>5. Transition(state[c], "Publishing") \in DOMAIN Rank \ {"Connected", "Closed"}
      BY <1>a, TransitionState
    <2>6. /\ current_stream' \in [Conn -> Stream]
          /\ \A d \in Conn \ {c} : current_stream'[d] = current_stream[d]
      BY <1>3, ZenonT(30) DEF PublishGranted, RouteTypes, Stream
    <2>7. claimed_publish_route'[c] = PublishClaim(c, name).claimed
      BY <2>2 DEF RouteTypes
    <2>8. RouteTypes'
      BY <2>1, <2>2, <2>3, <2>4, <2>5, <2>6, Zenon DEF RouteTypes, Fits, Holds
    <2>9. OnlyAt(c) /\ state'[c] \notin {"Connected", "Closed"}
      BY <2>2, <2>3, <2>4, <2>5, <2>6 DEF RouteTypes, OnlyAt
    <2> QED
      BY <2>1, <2>2, <2>7, <2>8, <2>9, ClaimStep
  <1> QED
    BY <1>1, <1>2, <1>3 DEF Authorized

(* The early return when a denial cannot be sent.                          *)
LEMMA SendFailsStep ==
    ASSUME RouteInv, NEW c \in Conn, app[c] # None, NEW role \in Role, NEW name \in Name,
           AuthorizedSendFails(c, role, name), UNCHANGED <<app, relay_key, next_stream_id>>
    PROVE  RouteInv'
  <1> USE DEF RouteInv
  <1>a. app[c] \in App /\ state[c] \notin {"Connected", "Closed"}
    BY DEF RouteTypes, AppKnown
  <1>b. UNCHANGED <<state, current_stream>>
    BY DEF AuthorizedSendFails
  <1>c. /\ pending_auth' \in [Conn -> [Role -> Request \cup {NoRequest}]]
        /\ \A d \in Conn \ {c} : pending_auth'[d] = pending_auth[d]
    BY WithdrawTypes DEF AuthorizedSendFails
  <1>1. CASE role = "play"
    <2>1. UNCHANGED <<claimed_publish_route, routes>>
      BY <1>1 DEF AuthorizedSendFails, routeVars
    <2>2. relay_key' \in [Conn -> Name \cup {None}]
      BY DEF RouteTypes
    <2>3. \A d \in Conn, r \in Role : app[d] = None => pending_auth'[d][r] = pending_auth[d][r]
      BY <1>c
    <2> QED
      BY <1>b, <1>c, <2>1, <2>2, <2>3, QuietStep
  <1>2. CASE role # "play"
    <2>1. Fits(c, PublishClaim(c, name).routes, PublishClaim(c, name).claimed)
      BY <1>a, PublishClaimFits
    <2>2. /\ routes' = PublishClaim(c, name).routes
          /\ claimed_publish_route' = [claimed_publish_route EXCEPT ![c] = PublishClaim(c, name).claimed]
      BY <1>2 DEF AuthorizedSendFails, Claims
    <2>3. claimed_publish_route'[c] = PublishClaim(c, name).claimed
      BY <2>2 DEF RouteTypes
    <2>4. RouteTypes'
      BY <1>b, <1>c, <2>1, <2>2 DEF RouteTypes, Fits, Holds
    <2>5. OnlyAt(c) /\ state'[c] \notin {"Connected", "Closed"}
      BY <1>a, <1>b, <1>c, <2>2 DEF RouteTypes, OnlyAt
    <2> QED
      BY <2>1, <2>2, <2>3, <2>4, <2>5, ClaimStep
  <1> QED
    BY <1>1, <1>2

(* createStream.                                                           *)
LEMMA CreateStreamStep ==
    ASSUME RouteInv, NEW c \in Conn, CreateStream(c)
    PROVE  RouteInv'
  <1> USE DEF RouteInv
  <1>1. /\ state[c] \in (DOMAIN Rank \cup {"Closed"}) \ {"Connected", "Closed"}
        /\ app[c] # None
    BY DEF CreateStream, Live, Open, RouteTypes, AppKnown, WithoutApp
  <1>2. Fits(c, routes', None) /\ claimed_publish_route' = [claimed_publish_route EXCEPT ![c] = None]
    BY EvictFits DEF CreateStream
  <1>3. state' = [state EXCEPT ![c] = Transition(state[c], "StreamCreated")]
    BY DEF CreateStream
  <1>4. Transition(state[c], "StreamCreated") \in DOMAIN Rank \ {"Connected", "Closed"}
    BY <1>1, TransitionState
  <1>5. current_stream' = [current_stream EXCEPT ![c] = NewStream(next_stream_id[c] + 1)]
    BY DEF CreateStream
  <1>6. NewStream(next_stream_id[c] + 1) \in Stream /\ next_stream_id' \in [Conn -> 0 .. MaxStreamId]
    <2>1. next_stream_id[c] \in 0 .. MaxStreamId /\ next_stream_id[c] < MaxStreamId
      BY DEF CreateStream, RouteTypes
    <2>2. next_stream_id[c] + 1 \in 0 .. MaxStreamId
      BY <2>1, SessionAssumption
    <2>3. next_stream_id' = [next_stream_id EXCEPT ![c] = next_stream_id[c] + 1]
      BY DEF CreateStream
    <2> QED
      BY <2>2, <2>3 DEF Stream, NewStream, RouteTypes
  <1>7. /\ pending_auth' \in [Conn -> [Role -> Request \cup {NoRequest}]]
        /\ \A d \in Conn \ {c} : pending_auth'[d] = pending_auth[d]
    BY WithdrawTypes DEF CreateStream
  <1>8. UNCHANGED <<app, relay_key>>
    BY DEF CreateStream
  <1>9. RouteTypes'
    BY <1>2, <1>3, <1>4, <1>5, <1>6, <1>7, <1>8, Zenon DEF RouteTypes, Fits, Holds
  <1>10. OnlyAt(c) /\ state'[c] \notin {"Connected", "Closed"} /\ claimed_publish_route'[c] = None
    BY <1>2, <1>3, <1>4, <1>5, <1>7, <1>8 DEF RouteTypes, OnlyAt
  <1> QED
    BY <1>1, <1>2, <1>9, <1>10, ClaimStep

(* The end of a role, which a connection without an app may ask for too:   *)
(* it has nothing to lose.                                                 *)
LEMMA TearDownStep ==
    ASSUME RouteInv, NEW c \in Conn, TearDown(c)
    PROVE  RouteInv'
  <1> USE DEF RouteInv
  <1>1. Fits(c, routes', None) /\ claimed_publish_route' = [claimed_publish_route EXCEPT ![c] = None]
    BY EvictFits DEF TearDown
  <1>2. UNCHANGED <<state, app, relay_key, next_stream_id>>
    BY DEF TearDown
  <1>3. current_stream' = [current_stream EXCEPT ![c] =
              [current_stream[c] EXCEPT !.is_publishing = FALSE, !.is_playing = FALSE]]
    BY DEF TearDown
  <1>4. /\ pending_auth' \in [Conn -> [Role -> Request \cup {NoRequest}]]
        /\ \A d \in Conn \ {c} : pending_auth'[d] = pending_auth[d]
        /\ \A d \in Conn, r \in Role : pending_auth'[d][r] \in {pending_auth[d][r], NoRequest}
    BY WithdrawTypes DEF TearDown
  <1>5. current_stream' \in [Conn -> Stream]
    BY <1>3, ZenonT(30) DEF RouteTypes, Stream
  <1>6. RouteTypes'
    BY <1>1, <1>2, <1>4, <1>5, Zenon DEF RouteTypes, Fits, Holds
  <1>7. CASE app[c] # None
    <2>1. OnlyAt(c) /\ state'[c] \notin {"Connected", "Closed"} /\ claimed_publish_route'[c] = None
      BY <1>1, <1>2, <1>3, <1>4, <1>7 DEF RouteTypes, OnlyAt, AppKnown
    <2> QED
      BY <1>1, <1>6, <1>7, <2>1, ClaimStep
  <1>8. CASE app[c] = None
    <2>1. claimed_publish_route[c] = None
      BY <1>8 DEF AppKnown, WithoutApp
    <2>2. \A d \in Conn : current_stream'[d].id = current_stream[d].id
      BY <1>3 DEF RouteTypes, Stream
    <2>3. \A d \in Conn : ~HasStream(d) => ~HasStream(d)'
      BY <2>2 DEF HasStream
    <2>4. \A d \in Conn : claimed_publish_route'[d] = claimed_publish_route[d]
      BY <1>1, <2>1 DEF RouteTypes
    <2>5. routes' = routes
      BY <2>1 DEF TearDown, EvictActivePublishRoute
    <2>6. AppKnown'
      <3>1. \A d \in Conn, r \in Role : ~Pending(d, r) => ~Pending(d, r)'
        BY <1>4 DEF Pending
      <3> QED
        BY <1>2, <2>3, <2>4, <3>1, Zenon DEF AppKnown, WithoutApp
    <2>7. Owned'
      BY <1>2, <2>4, <2>5 DEF Owned
    <2> QED
      BY <1>6, <2>6, <2>7
  <1> QED
    BY <1>7, <1>8

(* A connect finds nothing owned under the app it replaces.                *)
LEMMA ConnectStep ==
    ASSUME RouteInv, NEW c \in Conn, NEW a \in App, Connect(c, a)
    PROVE  RouteInv'
  <1> USE DEF RouteInv
  <1>1. /\ app' = [app EXCEPT ![c] = a]
        /\ state' = [state EXCEPT ![c] = "AppConnected"]
    BY DEF Connect, Transition, Rank
  <1>2. UNCHANGED <<relay_key, current_stream, next_stream_id, claimed_publish_route, pending_auth, routes>>
    BY DEF Connect, streamVars, authVars, routeVars
  <1>3. app[c] = None /\ claimed_publish_route[c] = None
    BY DEF Connect, AppKnown, WithoutApp
  <1>4. RouteTypes'
    <2>1. "AppConnected" \in DOMAIN Rank
      BY DEF Rank
    <2> QED
      BY <1>1, <1>2, <2>1 DEF RouteTypes
  <1>5. AppKnown'
    <2> SUFFICES ASSUME NEW d \in Conn
                 PROVE  /\ app'[d] = None => WithoutApp(d)'
                        /\ state'[d] \in {"Connected", "Closed"} => app'[d] = None
      BY DEF AppKnown
    <2>1. CASE d = c
      BY <1>1, <2>1, SessionAssumption, SMTT(30) DEF RouteTypes
    <2>2. CASE d # c
      <3>1. app'[d] = app[d] /\ state'[d] = state[d]
        BY <1>1, <2>2 DEF RouteTypes
      <3> QED
        BY <1>2, <3>1 DEF AppKnown, WithoutApp, HasStream, Pending
    <2> QED
      BY <2>1, <2>2
  <1>6. Owned'
    <2> SUFFICES ASSUME NEW k \in Key, NEW d \in Conn, routes[k] = d
                 PROVE  k = <<app'[d], claimed_publish_route[d]>>
      BY <1>2 DEF Owned
    <2>1. k = <<app[d], claimed_publish_route[d]>>
      BY DEF Owned
    <2>2. d # c
      BY <1>3, <2>1, SessionAssumption DEF Key
    <2> QED
      BY <1>1, <2>1, <2>2 DEF RouteTypes
  <1> QED
    BY <1>4, <1>5, <1>6

(* publish and play need a stream, and a stream an app.                    *)
LEMMA RequestStep ==
    ASSUME RouteInv, NEW c \in Conn, NEW role \in Role, NEW name \in Name,
           \/ RequestAllowed(c, role, name)
           \/ \E id \in RequestId : RequestDeferred(c, role, name, id)
    PROVE  RouteInv'
  <1> USE DEF RouteInv
  <1>1. CASE RequestAllowed(c, role, name)
    <2>1. app[c] # None
      BY <1>1 DEF RequestAllowed, CanRequest, AppKnown, WithoutApp
    <2>2. /\ Authorized(c, role, name, Ask(c, role, None, name))
          /\ UNCHANGED <<app, relay_key, next_stream_id>>
      BY <1>1 DEF RequestAllowed
    <2> QED
      BY <2>1, <2>2, AuthorizedStep
  <1>2. ASSUME NEW id \in RequestId, RequestDeferred(c, role, name, id)
        PROVE  RouteInv'
    <2>1. app[c] # None
      BY <1>2 DEF RequestDeferred, CanRequest, AppKnown, WithoutApp
    <2>2. UNCHANGED <<state, app, relay_key, current_stream, next_stream_id, claimed_publish_route, routes>>
      BY <1>2 DEF RequestDeferred, streamVars, routeVars
    <2>3. pending_auth' \in {pending_auth,
                             [pending_auth EXCEPT ![c][role] = [name |-> name, id |-> id]]}
      BY <1>2 DEF RequestDeferred
    <2>4. [name |-> name, id |-> id] \in Request
      BY DEF Request
    <2>5. /\ pending_auth' \in [Conn -> [Role -> Request \cup {NoRequest}]]
          /\ \A d \in Conn \ {c} : pending_auth'[d] = pending_auth[d]
      <3>1. CASE pending_auth' = pending_auth
        BY <3>1 DEF RouteTypes
      <3>2. CASE pending_auth' = [pending_auth EXCEPT ![c][role] = [name |-> name, id |-> id]]
        <4> DEFINE request == [name |-> name, id |-> id]
        <4>1. pending_auth' = [pending_auth EXCEPT ![c] = [pending_auth[c] EXCEPT ![role] = request]]
          BY <3>2
        <4> HIDE DEF request
        <4>2. request \in Request
          BY <2>4 DEF request
        <4> QED
          BY <4>1, <4>2 DEF RouteTypes
      <3> QED
        BY <2>3, <3>1, <3>2
    <2>6. relay_key' \in [Conn -> Name \cup {None}]
      BY <2>2 DEF RouteTypes
    <2>7. \A d \in Conn, r \in Role : app[d] = None => pending_auth'[d][r] = pending_auth[d][r]
      BY <2>1, <2>5
    <2> QED
      BY <2>2, <2>5, <2>6, <2>7, QuietStep
  <1> QED
    BY <1>1, <1>2

(* releaseStream only takes routes away.                                   *)
LEMMA ReleaseStreamStep ==
    ASSUME RouteInv, NEW c \in Conn, NEW name \in Name, ReleaseStream(c, name)
    PROVE  RouteInv'
  <1> USE DEF RouteInv
  <1>1. UNCHANGED <<state, app, relay_key, current_stream, next_stream_id, claimed_publish_route,
                    pending_auth>>
    BY DEF ReleaseStream, streamVars, authVars
  <1>2. /\ routes' \in [Key -> Conn \cup {None}]
        /\ \A k \in Key, d \in Conn : routes'[k] = d => routes[k] = d
    BY SessionAssumption DEF ReleaseStream, RouteTypes
  <1>3. RouteTypes' /\ AppKnown'
    BY <1>1, <1>2, SMTT(30) DEF RouteTypes, AppKnown, WithoutApp, HasStream, Pending
  <1>4. Owned'
    BY <1>1, <1>2 DEF Owned
  <1> QED
    BY <1>3, <1>4, SMTT(30)

(* An answer of the host.                                                  *)
LEMMA CompleteStep ==
    ASSUME RouteInv, NEW q \in asked, q.conn \in Conn, q.role \in Role, Complete(q)
    PROVE  RouteInv'
  <1> DEFINE c == q.conn
             role == q.role
             name == pending_auth[c][role].name
  <1>1. app[c] # None /\ name \in Name
    BY PendingName DEF Complete
  <1>2. UNCHANGED <<app, relay_key, next_stream_id>>
    BY DEF Complete
  <1>3. CASE Authorized(c, role, name, q)
    BY <1>1, <1>2, <1>3, AuthorizedStep
  <1>4. CASE AuthorizedSendFails(c, role, name)
    BY <1>1, <1>2, <1>4, SendFailsStep
  <1>5. CASE /\ Withdraw(c, {role})
             /\ UNCHANGED <<state, current_stream, relay_enabled, routeVars, grant, approved>>
    <2>1. /\ pending_auth' \in [Conn -> [Role -> Request \cup {NoRequest}]]
          /\ \A d \in Conn \ {c} : pending_auth'[d] = pending_auth[d]
      BY <1>5, WithdrawTypes DEF RouteInv
    <2>2. relay_key' \in [Conn -> Name \cup {None}]
      BY <1>2 DEF RouteInv, RouteTypes
    <2>3. UNCHANGED <<state, app, current_stream, next_stream_id, claimed_publish_route, routes>>
      BY <1>2, <1>5 DEF routeVars
    <2>4. \A d \in Conn, r \in Role : app[d] = None => pending_auth'[d][r] = pending_auth[d][r]
      BY <1>1, <2>1
    <2> QED
      BY <2>1, <2>2, <2>3, <2>4, QuietStep
  <1> QED
    BY <1>3, <1>4, <1>5, SMTT(30) DEF Complete

(* The three outcomes of inject_relay_frame.                               *)
LEMMA InjectStep ==
    ASSUME RouteInv, NEW c \in Conn, InjectRefused(c) \/ InjectRelayFrame(c) \/ InjectRolledBack(c)
    PROVE  RouteInv'
  <1> USE DEF RouteInv
  <1> DEFINE name == RelayRouteKey(c)
             claim == ClaimPublishRoute(c, name)
             prev == claimed_publish_route[c]
             key == <<app[c], name>>
             prevKey == <<app[c], prev>>
             freed == Release(claim.routes, c, key)
  <1>a. CanInject(c)
    BY DEF InjectRefused, InjectRelayFrame, InjectRolledBack
  <1>b. /\ app[c] \in App /\ app[c] # None /\ name \in Name
        /\ state[c] \notin {"Connected", "Closed"}
    <2>1. name \in Name \cup {None}
      BY DEF RelayRouteKey, RouteTypes, Stream
    <2> QED
      BY <1>a, <2>1 DEF CanInject, RouteTypes, AppKnown
  <1>c. /\ Fits(c, claim.routes, claim.claimed)
        /\ claim.outcome = "Claimed" => claim.claimed = name
    BY <1>b, ClaimFits
  <1>d. UNCHANGED <<state, app, current_stream, next_stream_id, pending_auth>>
    BY DEF InjectRefused, InjectRelayFrame, InjectRolledBack, streamVars, authVars
  <1>1. CASE InjectRefused(c) \/ InjectRelayFrame(c)
    <2>1. /\ routes' = claim.routes
          /\ claimed_publish_route' = [claimed_publish_route EXCEPT ![c] = claim.claimed]
      BY <1>1 DEF InjectRefused, InjectRelayFrame, Claims
    <2>2. relay_key' \in [Conn -> Name \cup {None}]
      <3> HIDE DEF claim
      <3>1. claim.claimed \in Name \cup {None}
        BY <1>c DEF Fits
      <3> QED
        BY <1>1, <3>1 DEF InjectRefused, InjectRelayFrame, RouteTypes, claim
    <2> HIDE DEF claim
    <2>3. claimed_publish_route'[c] = claim.claimed
      BY <2>1, Zenon DEF RouteTypes
    <2>4. RouteTypes'
      BY <1>c, <1>d, <2>1, <2>2, Zenon DEF RouteTypes, Fits, Holds
    <2>5. OnlyAt(c) /\ state'[c] \notin {"Connected", "Closed"}
      BY <1>b, <1>d, <2>1, Zenon DEF RouteTypes, OnlyAt
    <2> QED
      BY <1>b, <1>c, <2>1, <2>3, <2>4, <2>5, ClaimStep
  <1>2. CASE InjectRolledBack(c)
    <2>1. claimed_publish_route' = claimed_publish_route /\ claim.claimed = name
      BY <1>2, <1>c DEF InjectRolledBack
    <2>2. relay_key' \in [Conn -> Name \cup {None}]
      BY <1>2 DEF InjectRolledBack, RouteTypes
    <2>k. key \in Key
      BY <1>b DEF Key
    <2>h. Holds(c, claim.routes, {key})
      BY <1>c, <2>1 DEF Fits
    <2>f. Holds(c, freed, {key} \ {key})
      BY <2>h, <2>k, ReleaseHolds
    <2>3. Holds(c, routes', {prevKey})
      <3>1. CASE prev = name
        <4>1. routes' = claim.routes
          BY <1>2, <1>b, <3>1, SessionAssumption DEF InjectRolledBack
        <4> QED
          BY <2>h, <3>1, <4>1
      <3>2. CASE prev = None
        <4>1. routes' = freed
          BY <1>2, <1>b, <3>2, SessionAssumption DEF InjectRolledBack
        <4>2. Holds(c, freed, {prevKey})
          BY <2>f, HoldsFewer
        <4> QED
          BY <4>1, <4>2
      <3>3. CASE prev \notin {name, None}
        <4>1. routes' = Claim(freed, c, prevKey)
          <5>1. routes' = CASE prev = name -> claim.routes
                            [] prev = None -> freed
                            [] OTHER -> Claim(freed, c, prevKey)
            BY <1>2 DEF InjectRolledBack
          <5> HIDE DEF claim, freed, prev, name, prevKey
          <5> QED
            BY <3>3, <5>1
        <4>2. prevKey \in Key
          BY <1>b, <3>3, SMTT(30) DEF Key, RouteTypes
        <4>3. Holds(c, Claim(freed, c, prevKey), ({key} \ {key}) \cup {prevKey})
          BY <2>f, <4>2, ClaimHolds, SMTT(30)
        <4>4. Holds(c, Claim(freed, c, prevKey), {prevKey})
          BY <4>3, HoldsFewer
        <4> QED
          BY <4>1, <4>4
      <3> QED
        BY <3>1, <3>2, <3>3
    <2> HIDE DEF claim
    <2>4. Fits(c, routes', claimed_publish_route'[c])
      BY <2>1, <2>3 DEF Fits, RouteTypes
    <2>5. RouteTypes'
      BY <1>d, <2>1, <2>2, <2>3 DEF RouteTypes, Holds
    <2>6. OnlyAt(c) /\ state'[c] \notin {"Connected", "Closed"}
      BY <1>b, <1>d, <2>1 DEF RouteTypes, OnlyAt
    <2> QED
      BY <1>b, <2>4, <2>5, <2>6, ClaimStep, Zenon
  <1> QED
    BY <1>1, <1>2

(* A displaced connection gives up a claim to what it does not own.        *)
LEMMA DetachStep ==
    ASSUME RouteInv, DetachDisplaced
    PROVE  RouteInv'
  <1> USE DEF RouteInv
  <1>1. UNCHANGED <<state, app, relay_key, current_stream, next_stream_id, pending_auth, routes>>
    BY DEF DetachDisplaced, streamVars, authVars
  <1>2. claimed_publish_route' = [c \in Conn |->
              IF Displaced(c) THEN None ELSE claimed_publish_route[c]]
    BY DEF DetachDisplaced
  <1>3. RouteTypes' /\ AppKnown'
    BY <1>1, <1>2 DEF RouteTypes, AppKnown, WithoutApp, HasStream, Pending
  <1>4. Owned'
    <2> SUFFICES ASSUME NEW k \in Key, NEW c \in Conn, routes[k] = c
                 PROVE  k = <<app[c], claimed_publish_route'[c]>>
      BY <1>1 DEF Owned
    <2>1. k = <<app[c], claimed_publish_route[c]>>
      BY DEF Owned
    <2>2. ~Displaced(c)
      BY <2>1, SMTT(30) DEF Displaced
    <2> QED
      BY <1>2, <2>1, <2>2, ZenonT(30)
  <1> QED
    BY <1>3, <1>4

(* The end of a connection.                                                *)
LEMMA CloseStep ==
    ASSUME RouteInv, NEW c \in Conn, Close(c)
    PROVE  RouteInv'
  <1> USE DEF RouteInv
  <1>1. /\ state' = [state EXCEPT ![c] = "Closed"]
        /\ app' = [app EXCEPT ![c] = None]
        /\ relay_key' = [relay_key EXCEPT ![c] = None]
        /\ next_stream_id' = [next_stream_id EXCEPT ![c] = 0]
        /\ claimed_publish_route' = [claimed_publish_route EXCEPT ![c] = None]
        /\ pending_auth' = [pending_auth EXCEPT ![c] = [r \in Role |-> NoRequest]]
    BY Zenon DEF Close
  <1>2. /\ current_stream' = [current_stream EXCEPT ![c] = NewStream(0)]
        /\ NewStream(0) \in Stream /\ NewStream(0).id = 0
    <2>1. current_stream' = [current_stream EXCEPT ![c] = NewStream(0)]
      BY DEF Close
    <2>2. NewStream(0) \in Stream /\ NewStream(0).id = 0
      BY SessionAssumption DEF NewStream, Stream
    <2> QED
      BY <2>1, <2>2
  <1>3. /\ routes' \in [Key -> Conn \cup {None}]
        /\ \A k \in Key, d \in Conn : routes'[k] = d => routes[k] = d /\ d # c
    BY SessionAssumption, Zenon DEF Close, RouteTypes
  <1>4. RouteTypes'
    BY <1>1, <1>2, <1>3, SessionAssumption DEF RouteTypes
  <1>5. AppKnown'
    <2> SUFFICES ASSUME NEW d \in Conn
                 PROVE  /\ app'[d] = None => WithoutApp(d)'
                        /\ state'[d] \in {"Connected", "Closed"} => app'[d] = None
      BY DEF AppKnown
    <2>1. CASE d = c
      BY <1>1, <1>2, <2>1 DEF RouteTypes, WithoutApp, HasStream, Pending
    <2>2. CASE d # c
      BY <1>1, <1>2, <2>2 DEF RouteTypes, AppKnown, WithoutApp, HasStream, Pending
    <2> QED
      BY <2>1, <2>2
  <1>6. Owned'
    BY <1>1, <1>3 DEF Owned, RouteTypes
  <1> QED
    BY <1>4, <1>5, <1>6

-----------------------------------------------------------------------------
(* The questions put to the host stay questions, and with RouteInv this is *)
(* inductive.                                                              *)
SessionInv == RouteInv /\ asked \subseteq Question

LEMMA AskedTypes ==
    ASSUME SessionInv, [SessionNext]_sessionVars
    PROVE  asked' \subseteq Question
  <1>1. ASSUME NEW c \in Conn, NEW r \in Role, NEW n \in Name, NEW id \in RequestId,
               RequestDeferred(c, r, n, id)
        PROVE  asked' \subseteq Question
    <2>1. asked' = asked \cup {Ask(c, r, id, n)}
      BY <1>1 DEF RequestDeferred
    <2>2. current_stream[c].id \in 1 .. MaxStreamId
      <3>1. current_stream[c].id \in 0 .. MaxStreamId
        BY DEF SessionInv, RouteInv, RouteTypes, Stream
      <3>2. current_stream[c].id # 0
        BY <1>1, Zenon DEF RequestDeferred, CanRequest, HasStream
      <3> QED
        BY <3>1, <3>2, SessionAssumption
    <2>3. Ask(c, r, id, n) \in Question
      BY <2>2, ZenonT(30) DEF Ask, Question
    <2> QED
      BY <2>1, <2>3 DEF SessionInv
  <1>2. ASSUME NEW c \in Conn, Close(c)
        PROVE  asked' \subseteq Question
    BY <1>2, Zenon DEF Close, SessionInv
  <1>3. CASE UNCHANGED asked
    BY <1>3 DEF SessionInv
  <1> QED
    <2>1. CASE UNCHANGED sessionVars
      BY <1>3, <2>1 DEF sessionVars, authVars
    <2>2. CASE DrainEvictions \/ DetachDisplaced \/ TakeRelayFrames
      BY <1>3, <2>2 DEF DrainEvictions, DetachDisplaced, TakeRelayFrames, authVars
    <2>3. ASSUME NEW c \in Conn, PeerStep(c)
          PROVE  asked' \subseteq Question
      BY <1>1, <1>3, <2>3 DEF PeerStep, Connect, CreateStream, RequestAllowed, DeleteStream,
            CloseStream, TearDown, ReleaseStream, MediaFrame, authVars
    <2>4. ASSUME NEW c \in Conn, HostStep(c)
          PROVE  asked' \subseteq Question
      BY <1>3, <2>4, ZenonT(30) DEF HostStep, Complete, SetRelayKey, EnableRelay, InjectRefused,
            InjectRelayFrame, InjectRolledBack, authVars
    <2>5. ASSUME NEW c \in Conn, NEW roles \in SUBSET Role, Reap(c, roles)
          PROVE  asked' \subseteq Question
      BY <1>3, <2>5 DEF Reap
    <2> QED
      BY <1>2, <2>1, <2>2, <2>3, <2>4, <2>5 DEF SessionNext

LEMMA InitSessionInv == SessionInit => SessionInv
  <1> SUFFICES ASSUME SessionInit PROVE SessionInv
    OBVIOUS
  <1>1. NewStream(0) \in Stream /\ NewStream(0).id = 0 /\ "Connected" \in DOMAIN Rank
    <2>1. NewStream(0) \in Stream /\ NewStream(0).id = 0
      BY SessionAssumption DEF NewStream, Stream
    <2>2. "Connected" \in DOMAIN Rank
      BY DEF Rank
    <2> QED
      BY <2>1, <2>2
  <1>2. RouteTypes
    BY <1>1, SessionAssumption DEF SessionInit, RouteTypes
  <1>3. AppKnown
    BY <1>1 DEF SessionInit, AppKnown, WithoutApp, HasStream, Pending
  <1>4. Owned
    BY SessionAssumption DEF SessionInit, Owned
  <1> QED
    BY <1>2, <1>3, <1>4 DEF SessionInit, SessionInv, RouteInv

LEMMA NextSessionInv == SessionInv /\ [SessionNext]_sessionVars => SessionInv'
  <1> SUFFICES ASSUME SessionInv, [SessionNext]_sessionVars PROVE SessionInv'
    OBVIOUS
  <1> SUFFICES RouteInv'
    BY AskedTypes DEF SessionInv
  <1>r. RouteInv
    BY DEF SessionInv
  <1>q. ASSUME UNCHANGED <<state, app, current_stream, next_stream_id, claimed_publish_route, routes>>,
               UNCHANGED pending_auth,
               relay_key' \in [Conn -> Name \cup {None}]
        PROVE  RouteInv'
    <2>1. pending_auth' \in [Conn -> [Role -> Request \cup {NoRequest}]]
      BY <1>r, <1>q DEF RouteInv, RouteTypes
    <2>2. \A c \in Conn, r \in Role : app[c] = None => pending_auth'[c][r] = pending_auth[c][r]
      BY <1>q
    <2> QED
      BY <1>r, <1>q, <2>1, <2>2, QuietStep
  <1>k. relay_key \in [Conn -> Name \cup {None}]
    BY <1>r DEF RouteInv, RouteTypes
  <1>1. CASE UNCHANGED sessionVars
    BY <1>1, <1>k, <1>q DEF sessionVars, streamVars, authVars, routeVars
  <1>2. CASE DrainEvictions \/ TakeRelayFrames
    BY <1>2, <1>k, <1>q DEF DrainEvictions, TakeRelayFrames, streamVars, authVars
  <1>3. CASE DetachDisplaced
    BY <1>3, <1>r, DetachStep
  <1>4. ASSUME NEW c \in Conn, PeerStep(c)
        PROVE  RouteInv'
    <2>1. ASSUME NEW a \in App, Connect(c, a)  PROVE RouteInv'
      BY <1>r, <2>1, ConnectStep
    <2>2. CASE CreateStream(c)
      BY <1>r, <2>2, CreateStreamStep
    <2>3. ASSUME NEW r \in Role, NEW n \in Name,
                 \/ RequestAllowed(c, r, n)
                 \/ \E id \in RequestId : RequestDeferred(c, r, n, id)
          PROVE  RouteInv'
      BY <1>r, <2>3, RequestStep
    <2>4. CASE DeleteStream(c) \/ CloseStream(c)
      BY <1>r, <2>4, TearDownStep, SMTT(30) DEF DeleteStream, CloseStream
    <2>5. ASSUME NEW n \in Name, ReleaseStream(c, n)  PROVE RouteInv'
      BY <1>r, <2>5, ReleaseStreamStep
    <2>6. CASE MediaFrame(c)
      BY <1>k, <1>q, <2>6 DEF MediaFrame, streamVars, authVars
    <2> QED
      BY <1>4, <2>1, <2>2, <2>3, <2>4, <2>5, <2>6 DEF PeerStep
  <1>5. ASSUME NEW c \in Conn, HostStep(c)
        PROVE  RouteInv'
    <2>1. ASSUME NEW q \in asked, Complete(q)  PROVE RouteInv'
      <3>1. q.conn \in Conn /\ q.role \in Role
        BY DEF SessionInv, Question
      <3> QED
        BY <1>r, <2>1, <3>1, CompleteStep
    <2>2. ASSUME NEW k \in PinnedKeys, SetRelayKey(c, k)  PROVE RouteInv'
      <3>1. relay_key' \in [Conn -> Name \cup {None}]
        BY <1>k, <2>2, SessionAssumption DEF SetRelayKey
      <3> QED
        BY <1>q, <2>2, <3>1 DEF SetRelayKey, streamVars, authVars, routeVars
    <2>3. CASE EnableRelay(c)
      BY <1>k, <1>q, <2>3 DEF EnableRelay, streamVars, authVars, routeVars
    <2>4. CASE InjectRefused(c) \/ InjectRelayFrame(c) \/ InjectRolledBack(c)
      BY <1>r, <2>4, InjectStep
    <2> QED
      BY <1>5, <2>1, <2>2, <2>3, <2>4 DEF HostStep
  <1>6. ASSUME NEW c \in Conn, NEW roles \in SUBSET Role, Reap(c, roles)
        PROVE  RouteInv'
    <2>1. /\ pending_auth' \in [Conn -> [Role -> Request \cup {NoRequest}]]
          /\ \A d \in Conn, r \in Role : pending_auth'[d][r] \in {pending_auth[d][r], NoRequest}
      BY <1>r, <1>6, WithdrawTypes, ZenonT(30) DEF Reap, RouteInv
    <2>2. \A d \in Conn, r \in Role : app[d] = None => pending_auth'[d][r] = pending_auth[d][r]
      BY <1>r, <2>1 DEF RouteInv, AppKnown, WithoutApp, Pending
    <2>3. UNCHANGED <<state, app, relay_key, current_stream, next_stream_id, claimed_publish_route, routes>>
      BY <1>6 DEF Reap, streamVars, routeVars
    <2> QED
      BY <1>r, <1>k, <2>1, <2>2, <2>3, QuietStep, Zenon
  <1>7. ASSUME NEW c \in Conn, Close(c)
        PROVE  RouteInv'
    BY <1>r, <1>7, CloseStep
  <1> QED
    BY <1>1, <1>2, <1>3, <1>4, <1>5, <1>6, <1>7 DEF SessionNext

(* The inductive invariant holds in every reachable state.                 *)
THEOREM SessionInvariant == SessionSpec => []SessionInv
  <1> QED
    BY InitSessionInv, NextSessionInv, PTL DEF SessionSpec

(* Whatever commands, late answers, rollbacks, moved relay keys and ends of *)
(* connections come together, no connection owns a route it does not claim  *)
(* (claim_publish_route, complete_publish_authorized, inject_relay_frame,   *)
(* releaseStream, detach_lost_publish_route): any number of connections,    *)
(* apps and names, and any limits.                                          *)
THEOREM RoutesNotLeaked == SessionSpec => []NoLeakedRoute
  <1>1. SessionInv => NoLeakedRoute
    BY RouteInvSuffices, SMTT(30) DEF SessionInv
  <1> QED
    BY <1>1, SessionInvariant, PTL

-----------------------------------------------------------------------------
(* The roles.  Relaying may stay switched on while a connection plays, so  *)
(* the approval is tracked through play.                                   *)

RoleTypes ==
    /\ relay_enabled \in [Conn -> BOOLEAN]
    /\ approved \in [Conn -> Stream]

RelayAt(c) ==
    defer_media_relay /\ relay_enabled[c] =>
        \/ current_stream[c].is_playing
        \/ /\ current_stream[c].is_publishing
           /\ approved[c].id = current_stream[c].id
           /\ approved[c].name = current_stream[c].name

StateAt(c) ==
    /\ current_stream[c].is_publishing => state[c] = "Publishing"
    /\ current_stream[c].is_playing => state[c] = "Playing"

RoleInv == RoleTypes /\ \A c \in Conn : RelayAt(c) /\ StateAt(c)

RolesKept(d) ==
    /\ state'[d] = state[d] /\ current_stream'[d] = current_stream[d]
    /\ relay_enabled'[d] = relay_enabled[d] /\ approved'[d] = approved[d]

LEMMA RolesKeptAt ==
    ASSUME RoleInv, NEW d \in Conn, RolesKept(d)
    PROVE  RelayAt(d)' /\ StateAt(d)'
  BY SMTT(30) DEF RoleInv, RelayAt, StateAt, RolesKept

LEMMA RolesUnchanged ==
    ASSUME RoleInv, UNCHANGED <<state, current_stream, relay_enabled, approved>>
    PROVE  RoleInv'
  BY RolesKeptAt DEF RoleInv, RoleTypes, RolesKept

LEMMA RoleStep ==
    ASSUME RoleInv, RoleTypes', NEW c \in Conn, \A d \in Conn \ {c} : RolesKept(d),
           RelayAt(c)', StateAt(c)'
    PROVE  RoleInv'
  <1>1. ASSUME NEW d \in Conn PROVE (RelayAt(d) /\ StateAt(d))'
    <2>1. CASE d = c
      BY <2>1
    <2>2. CASE d # c
      BY <2>2, RolesKeptAt
    <2> QED
      BY <2>1, <2>2
  <1> QED
    BY <1>1 DEF RoleInv

(* A role's end: no flag and no relaying is left.                          *)
LEMMA NoRoleStep ==
    ASSUME RouteTypes, RoleInv, NEW c \in Conn, NEW s, NEW st \in Stream, NEW ap \in Stream,
           ~st.is_publishing, ~st.is_playing,
           state' = [state EXCEPT ![c] = s],
           current_stream' = [current_stream EXCEPT ![c] = st],
           relay_enabled' = [relay_enabled EXCEPT ![c] = FALSE],
           approved' = [approved EXCEPT ![c] = ap]
    PROVE  RoleInv'
  <1>1. RoleTypes'
    BY DEF RoleInv, RoleTypes
  <1>2. \A d \in Conn \ {c} : RolesKept(d)
    BY DEF RouteTypes, RoleInv, RoleTypes, RolesKept
  <1>3. current_stream'[c] = st /\ relay_enabled'[c] = FALSE
    BY DEF RouteTypes, RoleInv, RoleTypes
  <1>4. RelayAt(c)' /\ StateAt(c)'
    BY <1>3 DEF RelayAt, StateAt
  <1> QED
    BY <1>1, <1>2, <1>4, RoleStep

LEMMA TransitionToRole ==
    ASSUME NEW from \in DOMAIN Rank
    PROVE  Transition(from, "Publishing") = "Publishing" /\ Transition(from, "Playing") = "Playing"
  BY DEF Transition, Rank

LEMMA PlayRoles ==
    ASSUME RouteTypes, RoleInv, NEW c \in Conn, Open(c), NEW name \in Name, NEW q, PlayGranted(c, name, q)
    PROVE  RoleInv'
  <1>1. state' = [state EXCEPT ![c] = "Playing"]
    BY TransitionToRole, Zenon DEF PlayGranted, Open, RouteTypes
  <1>2. /\ relay_enabled' = [relay_enabled EXCEPT ![c] = relay_enabled[c] \/ ~defer_media_relay]
        /\ approved' = approved
        /\ current_stream' = [current_stream EXCEPT ![c] =
              [current_stream[c] EXCEPT !.is_publishing = FALSE, !.is_playing = TRUE, !.name = name]]
    BY DEF PlayGranted
  <1>3. RoleTypes'
    <2>1. (relay_enabled[c] \/ ~defer_media_relay) \in BOOLEAN
      OBVIOUS
    <2> QED
      BY <1>2, <2>1 DEF RoleInv, RoleTypes
  <1>4. \A d \in Conn \ {c} : RolesKept(d)
    BY <1>1, <1>2 DEF RouteTypes, RoleInv, RoleTypes, RolesKept
  <1>5. /\ current_stream'[c].is_playing = TRUE /\ current_stream'[c].is_publishing = FALSE
        /\ state'[c] = "Playing"
    BY <1>1, <1>2, SMTT(30) DEF RouteTypes, Stream
  <1>6. RelayAt(c)' /\ StateAt(c)'
    BY <1>5 DEF RelayAt, StateAt
  <1> QED
    BY <1>3, <1>4, <1>6, RoleStep

LEMMA PublishRoles ==
    ASSUME RouteTypes, RoleInv, NEW c \in Conn, Open(c), NEW name \in Name, NEW q, PublishGranted(c, name, q)
    PROVE  RoleInv'
  <1> DEFINE reset == ApprovalLapses(c, name)
             enabled == IF defer_media_relay THEN relay_enabled[c] /\ ~reset ELSE TRUE
  <1>1. state' = [state EXCEPT ![c] = "Publishing"]
    BY TransitionToRole, Zenon DEF PublishGranted, Open, RouteTypes
  <1>2. /\ relay_enabled' = [relay_enabled EXCEPT ![c] = enabled]
        /\ approved' = approved
        /\ current_stream' = [current_stream EXCEPT ![c] =
              [current_stream[c] EXCEPT !.is_publishing = TRUE, !.is_playing = FALSE, !.name = name]]
    BY DEF PublishGranted
  <1>3. enabled \in BOOLEAN
    BY Zenon
  <1>4. RoleTypes'
    <2> HIDE DEF enabled
    <2> QED
      BY <1>2, <1>3 DEF RoleInv, RoleTypes
  <1>5. \A d \in Conn \ {c} : RolesKept(d)
    <2> HIDE DEF enabled
    <2> QED
      BY <1>1, <1>2 DEF RouteTypes, RoleInv, RoleTypes, RolesKept
  <1>6. /\ current_stream'[c].is_playing = FALSE /\ current_stream'[c].is_publishing = TRUE
        /\ current_stream'[c].name = name /\ current_stream'[c].id = current_stream[c].id
        /\ state'[c] = "Publishing" /\ approved'[c] = approved[c]
    BY <1>1, <1>2 DEF RouteTypes, Stream
  <1>7. relay_enabled'[c] = enabled
    <2> HIDE DEF enabled
    <2> QED
      BY <1>2 DEF RoleInv, RoleTypes
  <1>8. StateAt(c)'
    BY <1>6, SMTT(30) DEF StateAt
  <1>9. RelayAt(c)'
    <2> SUFFICES ASSUME defer_media_relay, enabled
                 PROVE  approved[c].id = current_stream[c].id /\ approved[c].name = name
      <3> HIDE DEF enabled
      <3> QED
        BY <1>6, <1>7 DEF RelayAt
    <2>1. relay_enabled[c] /\ ~ApprovalLapses(c, name)
      OBVIOUS
    <2>2. ~current_stream[c].is_playing /\ (current_stream[c].is_publishing => current_stream[c].name = name)
      BY <2>1 DEF ApprovalLapses
    <2>3. RelayAt(c)
      BY DEF RoleInv
    <2> QED
      BY <2>1, <2>2, <2>3 DEF RelayAt
  <1> QED
    BY <1>4, <1>5, <1>8, <1>9, RoleStep

LEMMA AuthorizedRoles ==
    ASSUME RouteTypes, RoleInv, NEW c \in Conn, Open(c), NEW role, NEW name \in Name, NEW q,
           Authorized(c, role, name, q)
    PROVE  RoleInv'
  <1>1. CASE PlayGranted(c, name, q)
    BY <1>1, PlayRoles
  <1>2. CASE PublishRefused(c, name)
    BY <1>2, RolesUnchanged DEF PublishRefused
  <1>3. CASE PublishGranted(c, name, q)
    BY <1>3, PublishRoles
  <1> QED
    BY <1>1, <1>2, <1>3 DEF Authorized

LEMMA TearDownRoles ==
    ASSUME RouteTypes, RoleInv, NEW c \in Conn, TearDown(c)
    PROVE  RoleInv'
  <1> DEFINE st == [current_stream[c] EXCEPT !.is_publishing = FALSE, !.is_playing = FALSE]
  <1>1. st \in Stream /\ ~st.is_publishing /\ ~st.is_playing
    BY ZenonT(30) DEF RouteTypes, Stream
  <1>2. NewStream(0) \in Stream
    BY SessionAssumption DEF NewStream, Stream
  <1>3. state' = [state EXCEPT ![c] = state[c]]
    BY DEF TearDown, RouteTypes
  <1>4. /\ current_stream' = [current_stream EXCEPT ![c] = st]
        /\ relay_enabled' = [relay_enabled EXCEPT ![c] = FALSE]
        /\ approved' = [approved EXCEPT ![c] = NewStream(0)]
    BY DEF TearDown, NoRole
  <1> HIDE DEF st
  <1> QED
    BY <1>1, <1>2, <1>3, <1>4, NoRoleStep, Zenon

LEMMA CreateStreamRoles ==
    ASSUME RouteTypes, RoleInv, NEW c \in Conn, CreateStream(c)
    PROVE  RoleInv'
  <1> DEFINE st == NewStream(next_stream_id[c] + 1)
  <1>1. st \in Stream /\ ~st.is_publishing /\ ~st.is_playing
    <2>1. next_stream_id[c] \in 0 .. MaxStreamId /\ next_stream_id[c] < MaxStreamId
      BY DEF CreateStream, RouteTypes
    <2>2. next_stream_id[c] + 1 \in 0 .. MaxStreamId
      BY <2>1, SessionAssumption
    <2> QED
      BY <2>2 DEF NewStream, Stream
  <1>2. NewStream(0) \in Stream
    BY SessionAssumption DEF NewStream, Stream
  <1>3. /\ state' = [state EXCEPT ![c] = Transition(state[c], "StreamCreated")]
        /\ current_stream' = [current_stream EXCEPT ![c] = st]
        /\ relay_enabled' = [relay_enabled EXCEPT ![c] = FALSE]
        /\ approved' = [approved EXCEPT ![c] = NewStream(0)]
    BY DEF CreateStream, NoRole
  <1> HIDE DEF st
  <1> QED
    BY <1>1, <1>2, <1>3, NoRoleStep, Zenon

LEMMA CloseRoles ==
    ASSUME RouteTypes, RoleInv, NEW c \in Conn, Close(c)
    PROVE  RoleInv'
  <1>1. NewStream(0) \in Stream /\ ~NewStream(0).is_publishing /\ ~NewStream(0).is_playing
    BY SessionAssumption, SMTT(30) DEF NewStream, Stream
  <1>2. /\ state' = [state EXCEPT ![c] = "Closed"]
        /\ current_stream' = [current_stream EXCEPT ![c] = NewStream(0)]
        /\ relay_enabled' = [relay_enabled EXCEPT ![c] = FALSE]
        /\ approved' = [approved EXCEPT ![c] = NewStream(0)]
    BY Zenon DEF Close, NoRole
  <1> QED
    BY <1>1, <1>2, NoRoleStep, Zenon

LEMMA ConnectRoles ==
    ASSUME RouteTypes, RoleInv, NEW c \in Conn, NEW a, Connect(c, a)
    PROVE  RoleInv'
  <1>1. /\ UNCHANGED <<current_stream, relay_enabled, approved>>
        /\ state' = [state EXCEPT ![c] = Transition(state[c], "AppConnected")]
        /\ state[c] = "Connected"
    BY DEF Connect, streamVars
  <1>2. RoleTypes'
    BY <1>1, Zenon DEF RoleInv, RoleTypes
  <1>3. \A d \in Conn \ {c} : RolesKept(d)
    BY <1>1, Zenon DEF RouteTypes, RolesKept
  <1>4. ~current_stream[c].is_publishing /\ ~current_stream[c].is_playing
    BY <1>1, SMTT(30) DEF RoleInv, StateAt
  <1>5. RelayAt(c)' /\ StateAt(c)'
    BY <1>1, <1>4 DEF RoleInv, RelayAt, StateAt
  <1> QED
    BY <1>2, <1>3, <1>5, RoleStep

LEMMA EnableRelayRoles ==
    ASSUME RouteTypes, RoleInv, NEW c \in Conn, EnableRelay(c)
    PROVE  RoleInv'
  <1>1. /\ UNCHANGED <<state, current_stream>>
        /\ relay_enabled' = [relay_enabled EXCEPT ![c] = TRUE]
        /\ approved' = [approved EXCEPT ![c] = current_stream[c]]
        /\ current_stream[c].is_publishing
    BY DEF EnableRelay, streamVars
  <1>2. RoleTypes'
    BY <1>1, Zenon DEF RouteTypes, RoleInv, RoleTypes
  <1>3. \A d \in Conn \ {c} : RolesKept(d)
    BY <1>1, Zenon DEF RoleInv, RoleTypes, RolesKept
  <1>4. approved'[c] = current_stream[c]
    BY <1>1, SMTT(30) DEF RoleInv, RoleTypes
  <1>5. RelayAt(c)' /\ StateAt(c)'
    BY <1>1, <1>4 DEF RoleInv, RelayAt, StateAt
  <1> QED
    BY <1>2, <1>3, <1>5, RoleStep

LEMMA DetachRoles ==
    ASSUME RoleInv, DetachDisplaced
    PROVE  RoleInv'
  <1>1. /\ UNCHANGED <<state, current_stream, approved>>
        /\ relay_enabled' = [c \in Conn |-> relay_enabled[c] /\ ~Displaced(c)]
    BY DEF DetachDisplaced, streamVars
  <1>2. RoleTypes'
    BY <1>1 DEF RoleInv, RoleTypes
  <1>3. \A c \in Conn : relay_enabled'[c] => relay_enabled[c]
    BY <1>1, ZenonT(30)
  <1>4. ASSUME NEW c \in Conn PROVE RelayAt(c)' /\ StateAt(c)'
    BY <1>1, <1>3 DEF RoleInv, RelayAt, StateAt
  <1> QED
    BY <1>2, <1>4 DEF RoleInv

LEMMA NextRoleInv == SessionInv /\ RoleInv /\ [SessionNext]_sessionVars => RoleInv'
  <1> SUFFICES ASSUME SessionInv, RoleInv, [SessionNext]_sessionVars PROVE RoleInv'
    OBVIOUS
  <1>t. RouteTypes /\ RouteInv
    BY DEF SessionInv, RouteInv
  <1>u. ASSUME UNCHANGED <<state, current_stream, relay_enabled, approved>> PROVE RoleInv'
    BY <1>u, RolesUnchanged
  <1>1. CASE UNCHANGED sessionVars
    BY <1>1, <1>u DEF sessionVars, streamVars
  <1>2. CASE DrainEvictions \/ TakeRelayFrames
    BY <1>2, <1>u DEF DrainEvictions, TakeRelayFrames, streamVars
  <1>3. CASE DetachDisplaced
    BY <1>3, DetachRoles
  <1>4. ASSUME NEW c \in Conn, PeerStep(c)
        PROVE  RoleInv'
    <2>1. ASSUME NEW a \in App, Connect(c, a)  PROVE RoleInv'
      BY <1>t, <2>1, ConnectRoles
    <2>2. CASE CreateStream(c)
      BY <1>t, <2>2, CreateStreamRoles
    <2>3. ASSUME NEW r \in Role, NEW n \in Name, RequestAllowed(c, r, n)  PROVE RoleInv'
      BY <1>t, <2>3, AuthorizedRoles DEF RequestAllowed, CanRequest, Live
    <2>4. ASSUME NEW r \in Role, NEW n \in Name, NEW id \in RequestId, RequestDeferred(c, r, n, id)
          PROVE  RoleInv'
      BY <1>u, <2>4 DEF RequestDeferred, streamVars
    <2>5. CASE DeleteStream(c) \/ CloseStream(c)
      BY <1>t, <2>5, TearDownRoles, Zenon DEF DeleteStream, CloseStream
    <2>6. ASSUME NEW n \in Name, ReleaseStream(c, n)  PROVE RoleInv'
      BY <1>u, <2>6, ZenonT(30) DEF ReleaseStream, streamVars
    <2>7. CASE MediaFrame(c)
      BY <1>u, <2>7, Zenon DEF MediaFrame, streamVars
    <2> QED
      BY <1>4, <2>1, <2>2, <2>3, <2>4, <2>5, <2>6, <2>7 DEF PeerStep
  <1>5. ASSUME NEW c \in Conn, HostStep(c)
        PROVE  RoleInv'
    <2>1. ASSUME NEW q \in asked, Complete(q)  PROVE RoleInv'
      <3> DEFINE name == pending_auth[q.conn][q.role].name
      <3>1. q.conn \in Conn /\ q.role \in Role
        BY Zenon DEF SessionInv, Question
      <3>2. name \in Name /\ Open(q.conn)
        BY <1>t, <2>1, <3>1, PendingName, ZenonT(30) DEF Complete, Live
      <3>3. CASE Authorized(q.conn, q.role, name, q)
        BY <1>t, <3>1, <3>2, <3>3, AuthorizedRoles, Zenon
      <3>4. CASE AuthorizedSendFails(q.conn, q.role, name)
        BY <1>u, <3>4, Zenon DEF AuthorizedSendFails
      <3>5. CASE UNCHANGED <<state, current_stream, relay_enabled, routeVars, grant, approved>>
        BY <1>u, <3>5
      <3> QED
        BY <2>1, <3>3, <3>4, <3>5, Zenon DEF Complete
    <2>2. ASSUME NEW k \in PinnedKeys, SetRelayKey(c, k)  PROVE RoleInv'
      BY <1>u, <2>2 DEF SetRelayKey, streamVars
    <2>3. CASE EnableRelay(c)
      BY <1>t, <2>3, EnableRelayRoles
    <2>4. CASE InjectRefused(c) \/ InjectRelayFrame(c) \/ InjectRolledBack(c)
      BY <1>u, <2>4 DEF InjectRefused, InjectRelayFrame, InjectRolledBack, streamVars
    <2> QED
      BY <1>5, <2>1, <2>2, <2>3, <2>4, Zenon DEF HostStep
  <1>6. ASSUME NEW c \in Conn, NEW roles \in SUBSET Role, Reap(c, roles)
        PROVE  RoleInv'
    BY <1>u, <1>6, SMTT(30) DEF Reap, streamVars
  <1>7. ASSUME NEW c \in Conn, Close(c)
        PROVE  RoleInv'
    BY <1>t, <1>7, CloseRoles
  <1> QED
    BY <1>1, <1>2, <1>3, <1>4, <1>5, <1>6, <1>7 DEF SessionNext

LEMMA InitRoleInv == SessionInit => RoleInv
  <1> SUFFICES ASSUME SessionInit PROVE RoleInv
    OBVIOUS
  <1>1. NewStream(0) \in Stream /\ ~NewStream(0).is_publishing /\ ~NewStream(0).is_playing
    BY SessionAssumption DEF NewStream, Stream
  <1> QED
    BY <1>1 DEF SessionInit, RoleInv, RoleTypes, RelayAt, StateAt

(* Both inductive invariants hold in every reachable state.                *)
THEOREM RolesInvariant == SessionSpec => [](SessionInv /\ RoleInv)
  <1>1. SessionInit => SessionInv /\ RoleInv
    BY InitSessionInv, InitRoleInv
  <1>2. SessionInv /\ RoleInv /\ [SessionNext]_sessionVars => (SessionInv /\ RoleInv)'
    BY NextSessionInv, NextRoleInv
  <1> QED
    BY <1>1, <1>2, PTL DEF SessionSpec

(* The connection state names the role through any number of switches      *)
(* between publishing and playing (conn_transition).                       *)
THEOREM StateNamesRole == SessionSpec => []StateMatchesRole
  <1>1. RoleInv => StateMatchesRole
    BY SMTT(30) DEF RoleInv, StateAt, StateMatchesRole
  <1> QED
    BY <1>1, RolesInvariant, PTL

(* With deferred relaying, media is relayed only for the stream and name    *)
(* the host switched it on for, through renames, new streams and detours    *)
(* through play (complete_publish_authorized's reset).                      *)
THEOREM RelayNeedsApproval == SessionSpec => []RelayApproved
  <1>1. RoleInv => RelayApproved
    <2> SUFFICES ASSUME RoleInv, NEW c \in Conn, defer_media_relay, relay_enabled[c],
                        current_stream[c].is_publishing
                 PROVE  approved[c].id = current_stream[c].id /\ approved[c].name = current_stream[c].name
      BY DEF RelayApproved
    <2>1. StateAt(c) /\ RelayAt(c)
      BY Zenon DEF RoleInv
    <2>2. ~current_stream[c].is_playing
      BY <2>1 DEF StateAt
    <2> QED
      BY <2>1, <2>2 DEF RelayAt
  <1> QED
    BY <1>1, RolesInvariant, PTL

-----------------------------------------------------------------------------
(* The grants, for a host that keeps its side and gives out no id twice    *)
(* for one connection and role.  A waiting request is then the only        *)
(* question under its id, so an answer that is applied answers it.         *)

AskedOnce ==
    \A p, q \in asked : p.conn = q.conn /\ p.role = q.role /\ p.id = q.id => p = q

PendingAskedAt(c) ==
    \A r \in Role : Pending(c, r) => Ask(c, r, pending_auth[c][r].id, pending_auth[c][r].name) \in asked

GrantMatches(g, role, s) == g.role = role /\ g.name = s.name /\ g.stream_id = s.id

GrantedAt(c) ==
    /\ current_stream[c].is_publishing => GrantMatches(grant[c], "publish", current_stream[c])
    /\ current_stream[c].is_playing => GrantMatches(grant[c], "play", current_stream[c])

GrantInv ==
    /\ grant \in [Conn -> Question \cup {NoGrant}]
    /\ AskedOnce
    /\ \A c \in Conn : PendingAskedAt(c) /\ GrantedAt(c)

(* A step that grants nothing and withdraws at most.                       *)
LEMMA QuietGrants ==
    ASSUME GrantInv, UNCHANGED <<current_stream, grant, asked>>,
           \A d \in Conn, r \in Role : pending_auth'[d][r] \in {pending_auth[d][r], NoRequest}
    PROVE  GrantInv'
  <1>1. ASSUME NEW d \in Conn PROVE PendingAskedAt(d)'
    <2> SUFFICES ASSUME NEW r \in Role, pending_auth'[d][r] # NoRequest
                 PROVE  Ask(d, r, pending_auth[d][r].id, pending_auth[d][r].name)' \in asked'
      BY DEF PendingAskedAt, Pending
    <2>1. pending_auth'[d][r] = pending_auth[d][r]
      BY SMTT(30)
    <2>2. Ask(d, r, pending_auth[d][r].id, pending_auth[d][r].name) \in asked
      BY <2>1 DEF GrantInv, PendingAskedAt, Pending
    <2>3. Ask(d, r, pending_auth[d][r].id, pending_auth[d][r].name)'
            = Ask(d, r, pending_auth[d][r].id, pending_auth[d][r].name)
      BY <2>1, Zenon DEF Ask
    <2>4. asked' = asked
      BY Zenon
    <2> QED
      BY <2>2, <2>3, <2>4, Zenon
  <1>2. ASSUME NEW d \in Conn PROVE GrantedAt(d)'
    BY Zenon DEF GrantInv, GrantedAt
  <1>3. AskedOnce'
    BY Zenon DEF GrantInv, AskedOnce
  <1>4. grant' \in [Conn -> Question \cup {NoGrant}]
    BY Zenon DEF GrantInv
  <1> QED
    BY <1>1, <1>2, <1>3, <1>4, Zenon DEF GrantInv, Question, NoGrant

(* What other connections keep when one changes its role.                  *)
GrantsKept(d) ==
    /\ current_stream'[d] = current_stream[d]
    /\ grant'[d] = grant[d]
    /\ pending_auth'[d] = pending_auth[d]

(* A change of role, or its end, of a connection whose requests are all    *)
(* withdrawn.                                                              *)
LEMMA GrantStep ==
    ASSUME GrantInv, NEW c \in Conn, grant' \in [Conn -> Question \cup {NoGrant}],
           asked' \subseteq asked, \A q \in asked : q.conn # c => q \in asked',
           \A d \in Conn \ {c} : GrantsKept(d),
           \A r \in Role : pending_auth'[c][r] = NoRequest,
           GrantedAt(c)'
    PROVE  GrantInv'
  <1>1. ASSUME NEW d \in Conn PROVE PendingAskedAt(d)'
    <2>1. CASE d = c
      BY <2>1, Zenon DEF PendingAskedAt, Pending
    <2>2. CASE d # c
      <3> SUFFICES ASSUME NEW r \in Role, pending_auth'[d][r] # NoRequest
                   PROVE  Ask(d, r, pending_auth[d][r].id, pending_auth[d][r].name)' \in asked'
        BY DEF PendingAskedAt, Pending
      <3> DEFINE q == Ask(d, r, pending_auth[d][r].id, pending_auth[d][r].name)
      <3>1. GrantsKept(d)
        BY <2>2, Zenon
      <3>2. q \in asked
        BY <3>1, ZenonT(30) DEF GrantInv, PendingAskedAt, Pending, GrantsKept
      <3>3. q.conn = d
        BY ZenonT(30) DEF Ask
      <3>4. q \in asked'
        BY <2>2, <3>2, <3>3, ZenonT(30)
      <3> QED
        BY <3>1, <3>4, ZenonT(30) DEF Ask, GrantsKept
    <2> QED
      BY <2>1, <2>2, Zenon
  <1>2. ASSUME NEW d \in Conn PROVE GrantedAt(d)'
    <2>1. CASE d = c
      BY <2>1, Zenon
    <2>2. CASE d # c
      BY <2>2, ZenonT(30) DEF GrantInv, GrantedAt, GrantsKept
    <2> QED
      BY <2>1, <2>2
  <1>3. AskedOnce'
    BY ZenonT(30) DEF GrantInv, AskedOnce
  <1> QED
    BY <1>1, <1>2, <1>3, ZenonT(30) DEF GrantInv

LEMMA WithdrawAll ==
    ASSUME RouteTypes, NEW c \in Conn, Withdraw(c, Role)
    PROVE  /\ \A r \in Role : pending_auth'[c][r] = NoRequest
           /\ \A d \in Conn \ {c} : pending_auth'[d] = pending_auth[d]
  BY DEF RouteTypes, Withdraw

(* An answer that is applied is an answer to the waiting request.          *)
LEMMA AuthorizedGrants ==
    ASSUME RouteTypes, GrantInv, NEW c \in Conn, NEW role \in Role, NEW name \in Name,
           NEW q \in Question, GrantMatches(q, role, [id |-> current_stream[c].id, name |-> name]),
           Authorized(c, role, name, q), UNCHANGED asked
    PROVE  GrantInv'
  <1>q. q.role = role /\ q.name = name /\ q.stream_id = current_stream[c].id
    BY DEF GrantMatches
  <1>1. CASE PublishRefused(c, name)
    <2>1. \A d \in Conn, r \in Role : pending_auth'[d][r] \in {pending_auth[d][r], NoRequest}
      BY <1>1, WithdrawTypes, Zenon DEF PublishRefused, Role
    <2>2. UNCHANGED <<current_stream, grant>>
      BY <1>1, Zenon DEF PublishRefused
    <2> QED
      BY <2>1, <2>2, QuietGrants, Zenon
  <1>2. CASE \/ role = "play" /\ PlayGranted(c, name, q)
             \/ role = "publish" /\ PublishGranted(c, name, q)
    <2>1. Withdraw(c, Role) /\ grant' = [grant EXCEPT ![c] = q]
      BY <1>2, Zenon DEF PlayGranted, PublishGranted
    <2>2. /\ \A r \in Role : pending_auth'[c][r] = NoRequest
          /\ \A d \in Conn \ {c} : pending_auth'[d] = pending_auth[d]
      BY <2>1, WithdrawAll, Zenon
    <2>3. grant' \in [Conn -> Question \cup {NoGrant}] /\ grant'[c] = q
      BY <2>1, Zenon DEF GrantInv
    <2>4. /\ \A d \in Conn \ {c} : current_stream'[d] = current_stream[d]
          /\ current_stream'[c].id = current_stream[c].id
          /\ current_stream'[c].name = name
          /\ role = "play" => ~current_stream'[c].is_publishing
          /\ role = "publish" => ~current_stream'[c].is_playing
      <3>1. CASE role = "play"
        <4>1. current_stream' = [current_stream EXCEPT ![c] =
                [current_stream[c] EXCEPT !.is_publishing = FALSE, !.is_playing = TRUE, !.name = name]]
          BY <1>2, <3>1 DEF PlayGranted
        <4>2. current_stream'[c].is_publishing = FALSE
          BY <4>1 DEF RouteTypes, Stream
        <4> QED
          BY <3>1, <4>1, <4>2 DEF RouteTypes, Stream
      <3>2. CASE role = "publish"
        <4>1. current_stream' = [current_stream EXCEPT ![c] =
                [current_stream[c] EXCEPT !.is_publishing = TRUE, !.is_playing = FALSE, !.name = name]]
          BY <1>2, <3>2 DEF PublishGranted
        <4>2. current_stream'[c].is_playing = FALSE
          BY <4>1, Zenon DEF RouteTypes, Stream
        <4> QED
          BY <3>2, <4>1, <4>2 DEF RouteTypes, Stream
      <3> QED
        BY <3>1, <3>2, Zenon DEF Role
    <2>5. GrantedAt(c)'
      BY <1>2, <1>q, <2>3, <2>4, ZenonT(30) DEF GrantedAt, GrantMatches
    <2>6. \A d \in Conn \ {c} : GrantsKept(d)
      BY <2>1, <2>2, <2>4, Zenon DEF GrantInv, GrantsKept
    <2> QED
      BY <2>2, <2>3, <2>5, <2>6, GrantStep, Zenon
  <1> QED
    BY <1>1, <1>2, Zenon DEF Authorized, Role

LEMMA RequestDeferredGrants ==
    ASSUME ~HostReusesIds, RouteTypes, GrantInv, NEW c \in Conn, NEW role \in Role, NEW name \in Name,
           NEW id \in RequestId, RequestDeferred(c, role, name, id)
    PROVE  GrantInv'
  <1> DEFINE question == Ask(c, role, id, name)
             request == [name |-> name, id |-> id]
  <1>1. /\ asked' = asked \cup {question}
        /\ UNCHANGED <<current_stream, grant>>
        /\ \A q \in asked : <<q.conn, q.role, q.id>> # <<c, role, id>>
    BY DEF RequestDeferred, streamVars
  <1>2. AskedOnce'
    <2>1. question.conn = c /\ question.role = role /\ question.id = id
      BY DEF Ask
    <2> HIDE DEF question
    <2> QED
      BY <1>1, <2>1 DEF GrantInv, AskedOnce
  <1>3. \A d \in Conn, r \in Role :
            \/ pending_auth'[d][r] = pending_auth[d][r]
            \/ d = c /\ r = role /\ pending_auth'[d][r] = request
    <2>1. CASE pending_auth' = pending_auth
      BY <2>1, ZenonT(30)
    <2>2. CASE pending_auth' = [pending_auth EXCEPT ![c][role] = request]
      <3>1. pending_auth' = [pending_auth EXCEPT ![c] = [pending_auth[c] EXCEPT ![role] = request]]
        BY <2>2, Zenon
      <3> HIDE DEF request
      <3> QED
        BY <3>1 DEF RouteTypes
    <2> QED
      BY <2>1, <2>2, ZenonT(30) DEF RequestDeferred
  <1>4. ASSUME NEW d \in Conn PROVE PendingAskedAt(d)'
    <2> SUFFICES ASSUME NEW r \in Role, pending_auth'[d][r] # NoRequest
                 PROVE  Ask(d, r, pending_auth[d][r].id, pending_auth[d][r].name)' \in asked'
      BY Zenon DEF PendingAskedAt, Pending
    <2>1. CASE pending_auth'[d][r] = pending_auth[d][r]
      <3>1. Ask(d, r, pending_auth[d][r].id, pending_auth[d][r].name) \in asked
        BY <2>1, Zenon DEF GrantInv, PendingAskedAt, Pending
      <3> QED
        BY <1>1, <2>1, <3>1, ZenonT(30) DEF Ask
    <2>2. CASE d = c /\ r = role /\ pending_auth'[d][r] = request
      <3>1. pending_auth'[d][r].id = id /\ pending_auth'[d][r].name = name
        <4>1. request.id = id /\ request.name = name
          BY Zenon
        <4> HIDE DEF request
        <4> QED
          BY <2>2, <4>1
      <3> QED
        BY <1>1, <2>2, <3>1, Zenon DEF Ask
    <2> QED
      BY <1>3, <2>1, <2>2, Zenon
  <1>5. ASSUME NEW d \in Conn PROVE GrantedAt(d)'
    BY <1>1, ZenonT(30) DEF GrantInv, GrantedAt
  <1> QED
    BY <1>1, <1>2, <1>4, <1>5 DEF GrantInv

LEMMA CompleteGrants ==
    ASSUME SessionInv, GrantInv, NEW q \in asked, Complete(q)
    PROVE  GrantInv'
  <1> DEFINE c == q.conn
             role == q.role
             name == pending_auth[c][role].name
  <1>1. c \in Conn /\ role \in Role /\ q \in Question
    BY Zenon DEF SessionInv, Question
  <1>2. Pending(c, role) /\ pending_auth[c][role].id = q.id /\ UNCHANGED asked
    BY ZenonT(30) DEF Complete
  <1>3. name \in Name
    BY <1>1, <1>2, PendingName, ZenonT(30) DEF SessionInv
  <1>4. GrantMatches(q, role, [id |-> current_stream[c].id, name |-> name])
    <2> DEFINE p == Ask(c, role, pending_auth[c][role].id, name)
    <2>1. p \in asked
      BY <1>1, <1>2, Zenon DEF GrantInv, PendingAskedAt
    <2>2. /\ p.conn = q.conn /\ p.role = q.role /\ p.id = q.id
          /\ p.name = name /\ p.stream_id = current_stream[c].id
      BY <1>2, ZenonT(30) DEF Ask
    <2> HIDE DEF p, name
    <2>3. p = q
      BY <2>1, <2>2 DEF GrantInv, AskedOnce
    <2> QED
      BY <2>2, <2>3 DEF GrantMatches
  <1>t. RouteTypes
    BY Zenon DEF SessionInv, RouteInv
  <1>5. CASE Authorized(c, role, name, q)
    <2> HIDE DEF c, role, name
    <2> QED
      BY <1>t, <1>1, <1>2, <1>3, <1>4, <1>5, AuthorizedGrants, ZenonT(30)
  <1>6. CASE AuthorizedSendFails(c, role, name)
    <2>1. \A d \in Conn, r \in Role : pending_auth'[d][r] \in {pending_auth[d][r], NoRequest}
      BY <1>t, <1>1, <1>6, WithdrawTypes, ZenonT(30) DEF AuthorizedSendFails
    <2>2. UNCHANGED <<current_stream, grant>>
      BY <1>6, ZenonT(30) DEF AuthorizedSendFails
    <2> QED
      BY <1>2, <2>1, <2>2, QuietGrants, ZenonT(30)
  <1>7. CASE /\ Withdraw(c, {role})
             /\ UNCHANGED <<state, current_stream, relay_enabled, routeVars, grant, approved>>
    <2>1. \A d \in Conn, r \in Role : pending_auth'[d][r] \in {pending_auth[d][r], NoRequest}
      BY <1>t, <1>1, <1>7, WithdrawTypes, ZenonT(30)
    <2> QED
      BY <1>2, <1>7, <2>1, QuietGrants
  <1> QED
    BY <1>5, <1>6, <1>7, Zenon DEF Complete

(* createStream, the end of a role and the end of a connection.            *)
LEMMA NoRoleGrants ==
    ASSUME RouteTypes, GrantInv, NEW c \in Conn, CreateStream(c) \/ TearDown(c) \/ Close(c)
    PROVE  GrantInv'
  <1>1. /\ \A r \in Role : pending_auth'[c][r] = NoRequest
        /\ \A d \in Conn \ {c} : pending_auth'[d] = pending_auth[d]
    <2>1. CASE Withdraw(c, Role)
      BY <2>1, WithdrawAll
    <2>2. CASE pending_auth' = [pending_auth EXCEPT ![c] = [r \in Role |-> NoRequest]]
      BY <2>2 DEF RouteTypes
    <2> QED
      BY <2>1, <2>2, SMTT(30) DEF CreateStream, TearDown, Close
  <1>2. grant' = [grant EXCEPT ![c] = NoGrant]
    BY DEF CreateStream, TearDown, Close, NoRole
  <1>3. asked' \subseteq asked /\ \A q \in asked : q.conn # c => q \in asked'
    BY DEF CreateStream, TearDown, Close
  <1>4. /\ \A d \in Conn \ {c} : current_stream'[d] = current_stream[d]
        /\ ~current_stream'[c].is_publishing /\ ~current_stream'[c].is_playing
    <2>1. CASE \E i : current_stream' = [current_stream EXCEPT ![c] = NewStream(i)]
      BY <2>1 DEF RouteTypes, NewStream
    <2>2. CASE current_stream' = [current_stream EXCEPT ![c] =
                [current_stream[c] EXCEPT !.is_publishing = FALSE, !.is_playing = FALSE]]
      BY <2>2, SMTT(30) DEF RouteTypes, Stream
    <2> QED
      BY <2>1, <2>2, SMTT(30) DEF CreateStream, TearDown, Close
  <1>5. GrantedAt(c)'
    BY <1>4, Zenon DEF GrantedAt
  <1>6. grant' \in [Conn -> Question \cup {NoGrant}] /\ \A d \in Conn \ {c} : GrantsKept(d)
    BY <1>1, <1>2, <1>4, Zenon DEF GrantInv, GrantsKept
  <1> QED
    BY <1>1, <1>3, <1>5, <1>6, GrantStep

LEMMA NextGrantInv ==
    ASSUME ~HostReusesIds, SessionInv, GrantInv, [SessionNext]_sessionVars
    PROVE  GrantInv'
  <1>t. RouteTypes /\ RouteInv
    BY DEF SessionInv, RouteInv
  <1>u. ASSUME UNCHANGED <<current_stream, grant, asked, pending_auth>> PROVE GrantInv'
    <2>1. \A d \in Conn, r \in Role : pending_auth'[d][r] \in {pending_auth[d][r], NoRequest}
      BY <1>u
    <2> QED
      BY <1>u, <2>1, QuietGrants
  <1>1. CASE UNCHANGED sessionVars
    BY <1>1, <1>u DEF sessionVars, streamVars, authVars
  <1>2. CASE DrainEvictions \/ TakeRelayFrames \/ DetachDisplaced
    BY <1>2, <1>u DEF DrainEvictions, TakeRelayFrames, DetachDisplaced, streamVars, authVars
  <1>3. ASSUME NEW c \in Conn, PeerStep(c)
        PROVE  GrantInv'
    <2>1. ASSUME NEW a \in App, Connect(c, a)  PROVE GrantInv'
      BY <1>u, <2>1 DEF Connect, streamVars, authVars
    <2>2. CASE CreateStream(c)
      BY <1>t, <2>2, NoRoleGrants
    <2>3. ASSUME NEW r \in Role, NEW n \in Name, RequestAllowed(c, r, n)  PROVE GrantInv'
      <3> DEFINE q == Ask(c, r, None, n)
      <3>1. current_stream[c].id \in 1 .. MaxStreamId
        <4>1. current_stream[c].id \in 0 .. MaxStreamId
          BY <1>t, Zenon DEF RouteTypes, Stream
        <4>2. current_stream[c].id # 0
          BY <2>3, ZenonT(30) DEF RequestAllowed, CanRequest, HasStream
        <4> QED
          BY <4>1, <4>2, SessionAssumption
      <3>2. q \in Question
        BY <3>1 DEF Ask, Question
      <3>3. GrantMatches(q, r, [id |-> current_stream[c].id, name |-> n])
        BY DEF Ask, GrantMatches
      <3>4. Authorized(c, r, n, q) /\ UNCHANGED asked
        BY <2>3 DEF RequestAllowed
      <3> HIDE DEF q
      <3> QED
        BY <1>t, <3>2, <3>3, <3>4, AuthorizedGrants
    <2>4. ASSUME NEW r \in Role, NEW n \in Name, NEW id \in RequestId, RequestDeferred(c, r, n, id)
          PROVE  GrantInv'
      BY <1>t, <2>4, RequestDeferredGrants
    <2>5. CASE DeleteStream(c) \/ CloseStream(c)
      BY <1>t, <2>5, NoRoleGrants DEF DeleteStream, CloseStream
    <2>6. ASSUME NEW n \in Name, ReleaseStream(c, n)  PROVE GrantInv'
      BY <1>u, <2>6, Zenon DEF ReleaseStream, streamVars, authVars
    <2>7. CASE MediaFrame(c)
      BY <1>u, <2>7, Zenon DEF MediaFrame, streamVars, authVars
    <2> QED
      BY <1>3, <2>1, <2>2, <2>3, <2>4, <2>5, <2>6, <2>7 DEF PeerStep
  <1>4. ASSUME NEW c \in Conn, HostStep(c)
        PROVE  GrantInv'
    <2>1. ASSUME NEW q \in asked, Complete(q)  PROVE GrantInv'
      BY <2>1, CompleteGrants
    <2>2. ASSUME NEW k \in PinnedKeys, SetRelayKey(c, k)  PROVE GrantInv'
      BY <1>u, <2>2 DEF SetRelayKey, streamVars, authVars
    <2>3. CASE EnableRelay(c)
      BY <1>u, <2>3 DEF EnableRelay, streamVars, authVars
    <2>4. CASE InjectRefused(c) \/ InjectRelayFrame(c) \/ InjectRolledBack(c)
      BY <1>u, <2>4 DEF InjectRefused, InjectRelayFrame, InjectRolledBack, streamVars, authVars
    <2> QED
      BY <1>4, <2>1, <2>2, <2>3, <2>4 DEF HostStep
  <1>5. ASSUME NEW c \in Conn, NEW roles \in SUBSET Role, Reap(c, roles)
        PROVE  GrantInv'
    <2>1. \A d \in Conn, r \in Role : pending_auth'[d][r] \in {pending_auth[d][r], NoRequest}
      BY <1>t, <1>5, WithdrawTypes, Zenon DEF Reap
    <2>2. UNCHANGED <<current_stream, grant, asked>>
      BY <1>5 DEF Reap, streamVars
    <2> QED
      BY <2>1, <2>2, QuietGrants, ZenonT(30)
  <1>6. ASSUME NEW c \in Conn, Close(c)
        PROVE  GrantInv'
    BY <1>t, <1>6, NoRoleGrants, SMTT(30)
  <1> QED
    BY <1>1, <1>2, <1>3, <1>4, <1>5, <1>6 DEF SessionNext

LEMMA InitGrantInv == SessionInit => GrantInv
  <1> SUFFICES ASSUME SessionInit PROVE GrantInv
    OBVIOUS
  <1>1. ~NewStream(0).is_publishing /\ ~NewStream(0).is_playing
    BY DEF NewStream
  <1> QED
    BY <1>1 DEF SessionInit, GrantInv, AskedOnce, PendingAskedAt, Pending, GrantedAt

(* With ids that are unique per connection and role, as types.rs asks of   *)
(* the host, a role is exercised only under the name and on the stream the *)
(* host said yes to: however many requests of both roles, timeouts, new    *)
(* streams and late or repeated answers there are, and without help from   *)
(* the ring of remembered ids.                                             *)
THEOREM RolesGranted ==
    ASSUME ~HostReusesIds
    PROVE  SessionSpec => []RoleWasGranted
  <1>1. SessionInit => SessionInv /\ GrantInv
    BY InitSessionInv, InitGrantInv
  <1>2. SessionInv /\ GrantInv /\ [SessionNext]_sessionVars => (SessionInv /\ GrantInv)'
    BY NextSessionInv, NextGrantInv, SMTT(30)
  <1>3. GrantInv => RoleWasGranted
    BY DEF GrantInv, GrantedAt, GrantMatches, RoleWasGranted
  <1> QED
    BY <1>1, <1>2, <1>3, PTL DEF SessionSpec

-----------------------------------------------------------------------------
(* The claims of relaying publishers.                                      *)

OwnsRelayAt(c) ==
    relay_enabled[c] /\ current_stream[c].is_publishing =>
        claimed_publish_route[c] = RelayRouteKey(c)

(* With no request put off, the host has nothing to answer later.          *)
OwnClaimInv == asked = {} /\ \A c \in Conn : OwnsRelayAt(c)

ClaimKept(d) ==
    /\ relay_enabled'[d] = relay_enabled[d] /\ current_stream'[d] = current_stream[d]
    /\ claimed_publish_route'[d] = claimed_publish_route[d] /\ relay_key'[d] = relay_key[d]

LEMMA ClaimKeptAt ==
    ASSUME OwnClaimInv, NEW d \in Conn, ClaimKept(d)
    PROVE  OwnsRelayAt(d)'
  BY ZenonT(30) DEF OwnClaimInv, OwnsRelayAt, ClaimKept, RelayRouteKey

LEMMA ClaimsUnchanged ==
    ASSUME OwnClaimInv, asked' = asked,
           UNCHANGED <<relay_enabled, current_stream, claimed_publish_route, relay_key>>
    PROVE  OwnClaimInv'
  BY ClaimKeptAt DEF OwnClaimInv, ClaimKept

LEMMA OwnClaimStep ==
    ASSUME OwnClaimInv, asked' = {}, NEW c \in Conn, \A d \in Conn \ {c} : ClaimKept(d),
           OwnsRelayAt(c)'
    PROVE  OwnClaimInv'
  <1>1. ASSUME NEW d \in Conn PROVE OwnsRelayAt(d)'
    <2>1. CASE d = c
      BY <2>1
    <2>2. CASE d # c
      BY <2>2, ClaimKeptAt
    <2> QED
      BY <2>1, <2>2
  <1> QED
    BY <1>1 DEF OwnClaimInv

(* A claim that is not made leaves the one held before.                    *)
LEMMA ClaimOutcome ==
    ASSUME NEW c \in Conn, NEW name
    PROVE  LET claim == ClaimPublishRoute(c, name)
           IN  claim.claimed = IF claim.outcome = "Claimed" THEN name ELSE claimed_publish_route[c]
  BY DEF ClaimPublishRoute

LEMMA PublishOutcome ==
    ASSUME NEW c \in Conn, NEW name
    PROVE  LET claim == PublishClaim(c, name)
           IN  /\ claim.outcome = "Claimed" => claim.claimed = NextRouteKey(c, name)
               /\ claim.outcome # "Claimed" => claim.claimed \in {claimed_publish_route[c], RelayRouteKey(c)}
  <1> DEFINE claim == ClaimPublishRoute(c, NextRouteKey(c, name))
             publish == PublishClaim(c, name)
  <1> SUFFICES /\ publish.outcome = "Claimed" => publish.claimed = NextRouteKey(c, name)
               /\ publish.outcome # "Claimed" => publish.claimed \in {claimed_publish_route[c], RelayRouteKey(c)}
    OBVIOUS
  <1>1. claim.claimed = IF claim.outcome = "Claimed" THEN NextRouteKey(c, name) ELSE claimed_publish_route[c]
    BY ClaimOutcome
  <1>2. CASE claim.outcome # "Claimed" \/ ~RenameToQueue(c, name, claim)
    <2>1. publish = claim
      BY <1>2 DEF PublishClaim
    <2> HIDE DEF claim, publish
    <2> QED
      BY <1>1, <2>1
  <1>3. CASE claim.outcome = "Claimed" /\ RenameToQueue(c, name, claim)
    <2>1. CASE EvictionQueueFull(claim.backlog)
      <3>1. publish.outcome = "EvictionQueueFull" /\ publish.claimed = RelayRouteKey(c)
        BY <1>3, <2>1 DEF PublishClaim
      <3> HIDE DEF publish
      <3> QED
        BY <3>1
    <2>2. CASE ~EvictionQueueFull(claim.backlog)
      <3> DEFINE live == <<app[c], RelayRouteKey(c)>>
      <3>1. publish = [claim EXCEPT !.backlog.evictions = Append(@, live)]
        BY <1>3, <2>2, SMTT(30) DEF PublishClaim
      <3>2. publish.outcome = claim.outcome /\ publish.claimed = claim.claimed
        BY <3>1, <1>3, Zenon DEF ClaimPublishRoute
      <3> HIDE DEF publish, claim
      <3> QED
        BY <1>1, <1>3, <3>2
    <2> QED
      BY <2>1, <2>2
  <1> QED
    BY <1>2, <1>3

(* What a claim of c leaves to the others.                                 *)
LEMMA ClaimsKept ==
    ASSUME RouteTypes, NEW c \in Conn, NEW claim, NEW b, Claims(c, claim, b)
    PROVE  /\ claimed_publish_route'[c] = claim.claimed
           /\ \A d \in Conn \ {c} : claimed_publish_route'[d] = claimed_publish_route[d]
  BY DEF RouteTypes, Claims

(* A connection that no longer publishes, or no longer relays.             *)
LEMMA SilencedStep ==
    ASSUME OwnClaimInv, asked' = {}, NEW c \in Conn, \A d \in Conn \ {c} : ClaimKept(d),
           relay_enabled'[c] = FALSE \/ current_stream'[c].is_publishing = FALSE
    PROVE  OwnClaimInv'
  <1>1. OwnsRelayAt(c)'
    BY DEF OwnsRelayAt
  <1> QED
    BY <1>1, OwnClaimStep

LEMMA AuthorizedOwns ==
    ASSUME RouteTypes, RoleTypes, OwnClaimInv, NEW c \in Conn, NEW role \in Role, NEW name \in Name, NEW q,
           Authorized(c, role, name, q), UNCHANGED <<relay_key, asked>>
    PROVE  OwnClaimInv'
  <1>a. asked' = {}
    BY DEF OwnClaimInv
  <1>1. CASE PlayGranted(c, name, q)
    <2>1. /\ \A d \in Conn \ {c} : ClaimKept(d)
          /\ current_stream'[c].is_publishing = FALSE
      BY <1>1 DEF PlayGranted, EvictActivePublishRoute, RouteTypes, RoleTypes, ClaimKept, Stream
    <2> QED
      BY <1>a, <2>1, SilencedStep, ZenonT(30)
  <1>2. CASE PublishRefused(c, name)
    <2> DEFINE claim == PublishClaim(c, name)
    <2>1. claim.outcome # "Claimed" /\ Claims(c, claim, claim.backlog)
      BY <1>2 DEF PublishRefused
    <2>2. claim.claimed \in {claimed_publish_route[c], RelayRouteKey(c)}
      BY <2>1, PublishOutcome
    <2> HIDE DEF claim
    <2>3. /\ claimed_publish_route'[c] = claim.claimed
          /\ \A d \in Conn \ {c} : claimed_publish_route'[d] = claimed_publish_route[d]
      BY <2>1, ClaimsKept
    <2>4. UNCHANGED <<current_stream, relay_enabled, relay_key>>
      BY <1>2 DEF PublishRefused
    <2>5. \A d \in Conn \ {c} : ClaimKept(d)
      BY <2>3, <2>4 DEF ClaimKept
    <2>6. OwnsRelayAt(c)'
      BY <2>2, <2>3, <2>4 DEF OwnClaimInv, OwnsRelayAt, RelayRouteKey
    <2> QED
      BY <1>a, <2>5, <2>6, OwnClaimStep
  <1>3. CASE PublishGranted(c, name, q)
    <2> DEFINE claim == PublishClaim(c, name)
               b == IF ApprovalLapses(c, name) THEN [claim.backlog EXCEPT !.relay = <<>>] ELSE claim.backlog
    <2>1. claim.outcome = "Claimed" /\ Claims(c, claim, b)
      BY <1>3 DEF PublishGranted
    <2>2. claim.claimed = NextRouteKey(c, name)
      BY <2>1, PublishOutcome
    <2> HIDE DEF claim, b
    <2>3. /\ claimed_publish_route'[c] = claim.claimed
          /\ \A d \in Conn \ {c} : claimed_publish_route'[d] = claimed_publish_route[d]
      BY <2>1, ClaimsKept
    <2>4. /\ \A d \in Conn \ {c} : current_stream'[d] = current_stream[d] /\ relay_enabled'[d] = relay_enabled[d]
          /\ current_stream'[c].name = name
      BY <1>3 DEF PublishGranted, RouteTypes, RoleTypes, Stream
    <2>5. \A d \in Conn \ {c} : ClaimKept(d)
      BY <2>3, <2>4 DEF ClaimKept
    <2>6. OwnsRelayAt(c)'
      BY <2>2, <2>3, <2>4 DEF OwnsRelayAt, RelayRouteKey, NextRouteKey
    <2> QED
      BY <1>a, <2>5, <2>6, OwnClaimStep
  <1> QED
    BY <1>1, <1>2, <1>3 DEF Authorized

(* An injected frame claims the key it is relayed under, or moves the key  *)
(* back to the route still held.                                           *)
LEMMA InjectOwns ==
    ASSUME RouteTypes, OwnClaimInv, NEW c \in Conn,
           InjectRefused(c) \/ InjectRelayFrame(c) \/ InjectRolledBack(c)
    PROVE  OwnClaimInv'
  <1> DEFINE claim == ClaimPublishRoute(c, RelayRouteKey(c))
  <1>c. claim.claimed = IF claim.outcome = "Claimed" THEN RelayRouteKey(c) ELSE claimed_publish_route[c]
    BY ClaimOutcome
  <1>u. UNCHANGED <<current_stream, relay_enabled>> /\ asked' = {} /\ RelayRouteKey(c) # None
    BY DEF InjectRefused, InjectRelayFrame, InjectRolledBack, CanInject, streamVars, authVars, OwnClaimInv
  <1>o. OwnsRelayAt(c)
    BY DEF OwnClaimInv
  <1>1. CASE InjectRefused(c)
    <2>1. /\ claim.outcome # "Claimed" /\ Claims(c, claim, claim.backlog)
          /\ relay_key' = [relay_key EXCEPT ![c] = IF claim.claimed # None THEN claim.claimed ELSE @]
      BY <1>1 DEF InjectRefused
    <2> HIDE DEF claim
    <2>2. /\ claimed_publish_route'[c] = claimed_publish_route[c]
          /\ \A d \in Conn \ {c} : claimed_publish_route'[d] = claimed_publish_route[d]
      BY <1>c, <2>1, ClaimsKept
    <2>3. /\ \A d \in Conn \ {c} : relay_key'[d] = relay_key[d]
          /\ relay_key'[c] = IF claimed_publish_route[c] # None THEN claimed_publish_route[c] ELSE relay_key[c]
      BY <1>c, <2>1 DEF RouteTypes
    <2>4. OwnsRelayAt(c)'
      BY <1>u, <1>o, <2>2, <2>3 DEF OwnsRelayAt, RelayRouteKey
    <2>5. \A d \in Conn \ {c} : ClaimKept(d)
      BY <1>u, <2>2, <2>3 DEF ClaimKept
    <2> QED
      BY <1>u, <2>4, <2>5, OwnClaimStep
  <1>2. CASE InjectRelayFrame(c)
    <2>1. claim.outcome = "Claimed" /\ Claims(c, claim, QueueRelayFrame(c, claim.backlog)) /\ UNCHANGED relay_key
      BY <1>2 DEF InjectRelayFrame
    <2> DEFINE b == QueueRelayFrame(c, claim.backlog)
    <2> HIDE DEF claim, b
    <2>2. /\ claimed_publish_route'[c] = RelayRouteKey(c)
          /\ \A d \in Conn \ {c} : claimed_publish_route'[d] = claimed_publish_route[d]
      BY <1>c, <2>1, ClaimsKept DEF b
    <2>3. OwnsRelayAt(c)'
      BY <1>u, <2>1, <2>2 DEF OwnsRelayAt, RelayRouteKey
    <2>4. \A d \in Conn \ {c} : ClaimKept(d)
      BY <1>u, <2>1, <2>2 DEF ClaimKept
    <2> QED
      BY <1>u, <2>3, <2>4, OwnClaimStep
  <1>3. CASE InjectRolledBack(c)
    <2>1. /\ UNCHANGED claimed_publish_route
          /\ relay_key' = [relay_key EXCEPT ![c] = IF claimed_publish_route[c] = None THEN @ ELSE
                             IF claimed_publish_route[c] = RelayRouteKey(c) THEN @ ELSE claimed_publish_route[c]]
      BY <1>3 DEF InjectRolledBack
    <2>2. /\ \A d \in Conn \ {c} : relay_key'[d] = relay_key[d]
          /\ relay_key'[c] \in {relay_key[c], claimed_publish_route[c]}
          /\ claimed_publish_route[c] = RelayRouteKey(c) => relay_key'[c] = relay_key[c]
      BY <2>1 DEF RouteTypes
    <2>3. OwnsRelayAt(c)'
      BY <1>u, <1>o, <2>1, <2>2 DEF OwnsRelayAt, RelayRouteKey
    <2>4. \A d \in Conn \ {c} : ClaimKept(d)
      BY <1>u, <2>1, <2>2 DEF ClaimKept
    <2> QED
      BY <1>u, <2>3, <2>4, OwnClaimStep
  <1> QED
    BY <1>1, <1>2, <1>3

(* Who loses its route stops relaying.                                     *)
LEMMA DetachOwns ==
    ASSUME RouteTypes, RoleTypes, OwnClaimInv, DetachDisplaced
    PROVE  OwnClaimInv'
  <1>1. ASSUME NEW d \in Conn PROVE OwnsRelayAt(d)'
    <2>1. CASE Displaced(d)
      <3>1. relay_enabled'[d] = FALSE
        BY <2>1, Zenon DEF DetachDisplaced
      <3> QED
        BY <3>1 DEF OwnsRelayAt
    <2>2. CASE ~Displaced(d)
      <3>1. ClaimKept(d)
        BY <2>2 DEF DetachDisplaced, streamVars, ClaimKept, RoleTypes
      <3> QED
        BY <3>1, ClaimKeptAt
    <2> QED
      BY <2>1, <2>2
  <1>2. asked' = asked
    BY DEF DetachDisplaced, authVars
  <1> QED
    BY <1>1, <1>2 DEF OwnClaimInv

LEMMA SilencedOwns ==
    ASSUME RouteTypes, RoleTypes, OwnClaimInv, NEW c \in Conn, CreateStream(c) \/ TearDown(c) \/ Close(c)
    PROVE  OwnClaimInv'
  <1>1. relay_enabled' = [relay_enabled EXCEPT ![c] = FALSE]
    BY DEF CreateStream, TearDown, Close
  <1>2. asked' = {}
    BY DEF CreateStream, TearDown, Close, OwnClaimInv
  <1>3. \A d \in Conn \ {c} : current_stream'[d] = current_stream[d] /\ relay_key'[d] = relay_key[d]
    BY DEF CreateStream, TearDown, Close, RouteTypes
  <1>4. \A d \in Conn \ {c} : claimed_publish_route'[d] = claimed_publish_route[d]
    BY DEF CreateStream, TearDown, Close, EvictActivePublishRoute, RouteTypes
  <1>5. relay_enabled'[c] = FALSE /\ \A d \in Conn \ {c} : relay_enabled'[d] = relay_enabled[d]
    BY <1>1 DEF RoleTypes
  <1>6. \A d \in Conn \ {c} : ClaimKept(d)
    BY <1>3, <1>4, <1>5 DEF ClaimKept
  <1> QED
    BY <1>2, <1>5, <1>6, SilencedStep, ZenonT(30)

LEMMA NextOwnClaimInv ==
    ASSUME RequestId = {}, PinnedKeys = {}, ~defer_media_relay,
           SessionInv, RoleInv, OwnClaimInv, [SessionNext]_sessionVars
    PROVE  OwnClaimInv'
  <1>t. RouteTypes /\ RoleTypes
    BY DEF SessionInv, RouteInv, RoleInv
  <1>n. asked = {}
    BY DEF OwnClaimInv
  <1>1. CASE UNCHANGED sessionVars
    BY <1>1, ClaimsUnchanged, Zenon DEF sessionVars, streamVars, authVars, routeVars
  <1>2. CASE DrainEvictions
    BY <1>2, ClaimsUnchanged, Zenon DEF DrainEvictions, streamVars, authVars
  <1>3. CASE TakeRelayFrames
    BY <1>3, ClaimsUnchanged, Zenon DEF TakeRelayFrames, streamVars, authVars
  <1>4. CASE DetachDisplaced
    BY <1>t, <1>4, DetachOwns
  <1>5. ASSUME NEW c \in Conn, PeerStep(c)
        PROVE  OwnClaimInv'
    <2>1. ASSUME NEW a \in App, Connect(c, a)  PROVE OwnClaimInv'
      BY <2>1, ClaimsUnchanged, Zenon DEF Connect, streamVars, authVars, routeVars
    <2>2. CASE CreateStream(c)
      BY <1>t, <2>2, SilencedOwns
    <2>3. ASSUME NEW r \in Role, NEW n \in Name, RequestAllowed(c, r, n)  PROVE OwnClaimInv'
      <3>1. Authorized(c, r, n, Ask(c, r, None, n)) /\ UNCHANGED <<relay_key, asked>>
        BY <2>3 DEF RequestAllowed
      <3> QED
        BY <1>t, <3>1, AuthorizedOwns
    <2>4. CASE DeleteStream(c) \/ CloseStream(c)
      BY <1>t, <2>4, SilencedOwns DEF DeleteStream, CloseStream
    <2>5. ASSUME NEW n \in Name, ReleaseStream(c, n)  PROVE OwnClaimInv'
      BY <2>5, ClaimsUnchanged, Zenon DEF ReleaseStream, streamVars, authVars
    <2>6. CASE MediaFrame(c)
      BY <2>6, ClaimsUnchanged, Zenon DEF MediaFrame, streamVars, authVars
    <2> QED
      BY <1>5, <2>1, <2>2, <2>3, <2>4, <2>5, <2>6 DEF PeerStep
  <1>6. ASSUME NEW c \in Conn, HostStep(c)
        PROVE  OwnClaimInv'
    <2>1. InjectRefused(c) \/ InjectRelayFrame(c) \/ InjectRolledBack(c)
      BY <1>n, <1>6 DEF HostStep, EnableRelay
    <2> QED
      BY <1>t, <2>1, InjectOwns
  <1>7. ASSUME NEW c \in Conn, NEW roles \in SUBSET Role, Reap(c, roles)
        PROVE  OwnClaimInv'
    BY <1>7, ClaimsUnchanged, Zenon DEF Reap, streamVars, routeVars
  <1>8. ASSUME NEW c \in Conn, Close(c)
        PROVE  OwnClaimInv'
    BY <1>t, <1>8, SilencedOwns
  <1> QED
    BY <1>1, <1>2, <1>3, <1>4, <1>5, <1>6, <1>7, <1>8 DEF SessionNext

LEMMA InitOwnClaimInv == SessionInit => OwnClaimInv
  BY DEF SessionInit, OwnClaimInv, OwnsRelayAt

(* While the host pins no relay key, answers at once and defers no         *)
(* relaying, a publisher that relays does so under the route it claimed:   *)
(* through renames, refused and rolled back claims, injected frames, routes *)
(* taken away and detours through play (complete_publish_authorized,       *)
(* inject_relay_frame, detach_lost_publish_route).                         *)
THEOREM RelaysUnderClaim ==
    ASSUME RequestId = {}, PinnedKeys = {}, ~defer_media_relay
    PROVE  SessionSpec => []RelaysOwnClaim
  <1>1. SessionInit => SessionInv /\ RoleInv /\ OwnClaimInv
    BY InitSessionInv, InitRoleInv, InitOwnClaimInv
  <1>2. SessionInv /\ RoleInv /\ OwnClaimInv /\ [SessionNext]_sessionVars
          => (SessionInv /\ RoleInv /\ OwnClaimInv)'
    BY NextSessionInv, NextRoleInv, NextOwnClaimInv
  <1>3. OwnClaimInv => RelaysOwnClaim
    BY DEF OwnClaimInv, OwnsRelayAt, RelaysOwnClaim
  <1> QED
    BY <1>1, <1>2, <1>3, PTL DEF SessionSpec
=============================================================================
