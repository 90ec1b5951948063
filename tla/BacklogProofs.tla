---------------------------- MODULE BacklogProofs ----------------------------
(***************************************************************************)
(* The frames a connection leaves queued for relay are known to the next   *)
(* tick: each is under the connection's own claim, or under a route queued *)
(* for eviction or marked as abandoned.                                    *)
(***************************************************************************)
EXTENDS SessionProofs

LooseKey == (App \cup {None}) \X Name
LooseFrame == [key : LooseKey, from : Conn]
Backlog == [evictions : Seq(LooseKey), abandoned : Seq(LooseKey), relay : Seq(LooseFrame)]

(* The frames queued in b are under keys that b names, or under these.     *)
Covered(b, keys) ==
    \A f \in Elements(b.relay) : f.key \in keys \cup Elements(b.evictions) \cup Elements(b.abandoned)

LEMMA QueueLimit == MAX_PENDING_CACHE_EVICTIONS \in Nat /\ MAX_PENDING_CACHE_EVICTIONS > 0
  BY SessionAssumption

(* A noted key covers its frames; the marker that makes room for it takes  *)
(* its own along.                                                          *)
LEMMA NoteCovers ==
    ASSUME NEW b \in Backlog, NEW key \in LooseKey, NEW keys, Covered(b, keys \cup {key})
    PROVE  /\ NoteAbandoned(b, key) \in Backlog
           /\ NoteAbandoned(b, key).evictions = b.evictions
           /\ Covered(NoteAbandoned(b, key), keys)
           /\ Elements(NoteAbandoned(b, key).relay) \subseteq Elements(b.relay)
  <1> DEFINE kept == Without(b.abandoned, {key})
  <1>b. /\ b.evictions \in Seq(LooseKey) /\ b.abandoned \in Seq(LooseKey) /\ b.relay \in Seq(LooseFrame)
        /\ b = [evictions |-> b.evictions, abandoned |-> b.abandoned, relay |-> b.relay]
    BY DEF Backlog
  <1>k. kept \in Seq(LooseKey) /\ Elements(kept) = Elements(b.abandoned) \ {key}
    BY <1>b, WithoutElements
  <1>1. CASE Len(kept) >= MAX_PENDING_CACHE_EVICTIONS
    <2> DEFINE relay == WithoutFramesOf(b.relay, Head(kept))
               gone == {f \in Elements(b.relay) : f.key = Head(kept)}
               rest == Tail(kept)
               noted == Append(rest, key)
    <2>1. NoteAbandoned(b, key) = [evictions |-> b.evictions, abandoned |-> noted, relay |-> relay]
      BY <1>1, <1>b, Zenon DEF NoteAbandoned
    <2>2. kept # <<>>
      BY <1>1, QueueLimit
    <2>3. Head(kept) \in LooseKey /\ rest \in Seq(LooseKey) /\ Elements(kept) = {Head(kept)} \cup Elements(rest)
      <3> HIDE DEF kept
      <3> QED
        BY <1>k, <2>2, ElementsHeadTail
    <2>4. relay \in Seq(LooseFrame) /\ Elements(relay) = Elements(b.relay) \ gone
      <3>1. relay = Without(b.relay, gone)
        BY DEF WithoutFramesOf
      <3> HIDE DEF gone, relay
      <3> QED
        BY <1>b, <3>1, WithoutElements
    <2>5. noted \in Seq(LooseKey) /\ Elements(noted) = Elements(rest) \cup {key}
      <3> HIDE DEF rest
      <3> QED
        BY <2>3, ElementsAppend
    <2>6. ASSUME NEW f \in Elements(relay)
          PROVE  f.key \in keys \cup Elements(b.evictions) \cup Elements(noted)
      <3>1. f \in Elements(b.relay) /\ f.key # Head(kept)
        BY <2>4, <2>6, Zenon
      <3>2. f.key \in (keys \cup {key}) \cup Elements(b.evictions) \cup Elements(b.abandoned)
        BY <3>1 DEF Covered
      <3> HIDE DEF kept, relay, rest, noted
      <3> QED
        BY <3>1, <3>2, <2>3, <2>5, <1>k
    <2> HIDE DEF kept, relay, rest, noted, gone
    <2> QED
      BY <1>b, <2>1, <2>4, <2>5, <2>6 DEF Backlog, Covered
  <1>2. CASE ~(Len(kept) >= MAX_PENDING_CACHE_EVICTIONS)
    <2> DEFINE noted == Append(kept, key)
    <2>1. NoteAbandoned(b, key) = [evictions |-> b.evictions, abandoned |-> noted, relay |-> b.relay]
      BY <1>2, <1>b, Zenon DEF NoteAbandoned
    <2>2. noted \in Seq(LooseKey) /\ Elements(noted) = Elements(kept) \cup {key}
      <3> HIDE DEF kept
      <3> QED
        BY <1>k, ElementsAppend
    <2> HIDE DEF kept, noted
    <2> QED
      BY <1>b, <1>k, <2>1, <2>2 DEF Backlog, Covered
  <1> QED
    BY <1>1, <1>2

LEMMA CoveredMore ==
    ASSUME NEW b, NEW keys, NEW more, Covered(b, keys), keys \subseteq more
    PROVE  Covered(b, more)
  BY DEF Covered

(* Changing the queued evictions and noting a marker commute.              *)
LEMMA NoteBesides ==
    ASSUME NEW b \in Backlog, NEW key, NEW ev
    PROVE  [NoteAbandoned(b, key) EXCEPT !.evictions = ev] = NoteAbandoned([b EXCEPT !.evictions = ev], key)
  BY Zenon DEF NoteAbandoned, Backlog

(* A queued eviction covers its frames, and so does the marker the oldest  *)
(* one becomes.                                                            *)
LEMMA PushCovers ==
    ASSUME NEW b \in Backlog, NEW key \in LooseKey, NEW keys, Covered(b, keys \cup {key})
    PROVE  TryPushEviction(b, key) \in Backlog /\ Covered(TryPushEviction(b, key), keys)
  <1>b. /\ b.evictions \in Seq(LooseKey) /\ b.abandoned \in Seq(LooseKey) /\ b.relay \in Seq(LooseFrame)
        /\ b = [evictions |-> b.evictions, abandoned |-> b.abandoned, relay |-> b.relay]
    BY DEF Backlog
  <1>1. CASE EvictionQueueFull(b)
    <2> DEFINE old == Head(b.evictions)
               rest == Tail(b.evictions)
               ev == Append(rest, key)
               c == [evictions |-> ev, abandoned |-> b.abandoned, relay |-> b.relay]
    <2>1. b.evictions # <<>>
      BY <1>1, QueueLimit DEF EvictionQueueFull
    <2>2. old \in LooseKey /\ rest \in Seq(LooseKey) /\ Elements(b.evictions) = {old} \cup Elements(rest)
      BY <1>b, <2>1, ElementsHeadTail
    <2>3. ev \in Seq(LooseKey) /\ Elements(ev) = Elements(rest) \cup {key}
      <3> HIDE DEF rest
      <3> QED
        BY <2>2, ElementsAppend
    <2>4. TryPushEviction(b, key) = [NoteAbandoned(b, old) EXCEPT !.evictions = Append(Tail(@), key)]
      BY <1>1 DEF TryPushEviction
    <2>5. NoteAbandoned(b, old).evictions = b.evictions /\ NoteAbandoned(b, old) \in Backlog
      <3>1. Covered(b, (keys \cup {key}) \cup {old})
        BY CoveredMore
      <3> HIDE DEF old
      <3> QED
        BY <2>2, <3>1, NoteCovers, Zenon
    <2>6. [b EXCEPT !.evictions = ev] = c
      <3> HIDE DEF ev
      <3> QED
        BY <1>b
    <2>7. TryPushEviction(b, key) = NoteAbandoned(c, old)
      <3>1. TryPushEviction(b, key) = [NoteAbandoned(b, old) EXCEPT !.evictions = ev]
        BY <2>4, <2>5, Zenon
      <3> HIDE DEF c, ev, old
      <3> QED
        BY <3>1, <2>6, NoteBesides
    <2>8. c \in Backlog /\ Covered(c, keys \cup {old})
      <3> HIDE DEF ev, rest, old
      <3> QED
        BY <1>b, <2>2, <2>3 DEF Backlog, Covered
    <2> HIDE DEF c, old
    <2> QED
      BY <2>2, <2>7, <2>8, NoteCovers
  <1>2. CASE ~EvictionQueueFull(b)
    <2> DEFINE ev == Append(b.evictions, key)
    <2>1. ev \in Seq(LooseKey) /\ Elements(ev) = Elements(b.evictions) \cup {key}
      BY <1>b, ElementsAppend
    <2>2. TryPushEviction(b, key) = [evictions |-> ev, abandoned |-> b.abandoned, relay |-> b.relay]
      BY <1>2, <1>b, Zenon DEF TryPushEviction
    <2> HIDE DEF ev
    <2> QED
      BY <1>b, <2>1, <2>2 DEF Backlog, Covered
  <1> QED
    BY <1>1, <1>2

(* The backlogs after i keys were noted.                                   *)
IsNoted(g, b, keys, n) ==
    g = [i \in 0 .. n |-> IF i = 0 THEN b ELSE NoteAbandoned(g[i - 1], keys[i])]

LEMMA NotedExists ==
    ASSUME NEW b, NEW keys, NEW n \in Nat
    PROVE  \E g : IsNoted(g, b, keys, n)
  <1> DEFINE G == {m \in 0 .. n : \E g : IsNoted(g, b, keys, m)}
  <1>1. 0 \in G
    <2> DEFINE g == [i \in 0 .. 0 |-> b]
    <2>1. IsNoted(g, b, keys, 0)
      BY DEF IsNoted
    <2> QED
      BY <2>1
  <1>2. ASSUME NEW m \in 1 .. n, m - 1 \in G PROVE m \in G
    <2>1. PICK g : IsNoted(g, b, keys, m - 1)
      BY <1>2
    <2> DEFINE h == [i \in 0 .. m |-> IF i < m THEN g[i] ELSE NoteAbandoned(g[m - 1], keys[m])]
               Step(k, i) == IF i = 0 THEN b ELSE NoteAbandoned(k[i - 1], keys[i])
    <2>2. ASSUME NEW i \in 0 .. m PROVE h[i] = Step(h, i)
      <3>1. CASE i = m
        BY <3>1
      <3>2. CASE i < m
        <4>1. i \in 0 .. (m - 1)
          BY <3>2
        <4>2. g[i] = Step(g, i)
          BY <4>1, <2>1 DEF IsNoted
        <4>3. h[i] = g[i] /\ (i # 0 => h[i - 1] = g[i - 1])
          BY <3>2
        <4> QED
          BY <4>2, <4>3
      <3> QED
        BY <3>1, <3>2
    <2>3. h = [i \in 0 .. m |-> Step(h, i)]
      <3> HIDE DEF Step
      <3> QED
        BY <2>2
    <2>4. IsNoted(h, b, keys, m)
      BY <2>3 DEF IsNoted
    <2> HIDE DEF h
    <2> QED
      BY <2>4
  <1>3. \A i \in 0 .. n : i \in G
    <2> HIDE DEF G
    <2> QED
      BY <1>1, <1>2, UpToInduction
  <1> QED
    BY <1>3

(* Draining covers what was covered: each key becomes a marker before the  *)
(* next is noted.                                                          *)
LEMMA DrainCovers ==
    ASSUME NEW b \in Backlog, NEW cover, Covered(b, cover)
    PROVE  /\ Drained(b) \in Backlog /\ Covered(Drained(b), cover)
           /\ Elements(Drained(b).relay) \subseteq Elements(b.relay)
  <1> DEFINE keys == b.evictions \o b.abandoned
             n == Len(keys)
             start == [b EXCEPT !.evictions = <<>>]
  <1>b. /\ b.evictions \in Seq(LooseKey) /\ b.abandoned \in Seq(LooseKey) /\ b.relay \in Seq(LooseFrame)
        /\ b = [evictions |-> b.evictions, abandoned |-> b.abandoned, relay |-> b.relay]
    BY DEF Backlog
  <1>k. keys \in Seq(LooseKey) /\ Elements(keys) = Elements(b.evictions) \cup Elements(b.abandoned)
    BY <1>b, ElementsConcat
  <1>s. start = [evictions |-> <<>>, abandoned |-> b.abandoned, relay |-> b.relay]
    <2> DEFINE none == <<>>
    <2> HIDE DEF none
    <2>1. [b EXCEPT !.evictions = none] = [evictions |-> none, abandoned |-> b.abandoned, relay |-> b.relay]
      BY <1>b
    <2> QED
      BY <2>1, Zenon DEF none
  <1> HIDE DEF start
  <1>2. n \in Nat
    <2> HIDE DEF keys
    <2> QED
      BY <1>k
  <1>d. DOMAIN keys = 1 .. n /\ \A i \in 1 .. n : keys[i] \in LooseKey
    <2> HIDE DEF keys
    <2> QED
      BY <1>k
  <1> DEFINE g == CHOOSE h : IsNoted(h, start, keys, n)
  <1>1. Drained(b) = g[n]
    BY DEF Drained, IsNoted, start
  <1> HIDE DEF keys, n
  <1>3. IsNoted(g, start, keys, n)
    BY <1>2, NotedExists
  <1> HIDE DEF g
  <1>4. ASSUME NEW i \in 0 .. n
        PROVE  g[i] = IF i = 0 THEN start ELSE NoteAbandoned(g[i - 1], keys[i])
    BY <1>3, Zenon DEF IsNoted
  <1> DEFINE Ahead(i) == {keys[j] : j \in (i + 1) .. n}
             Good(i) == /\ g[i] \in Backlog /\ Covered(g[i], cover \cup Ahead(i))
                        /\ Elements(g[i].relay) \subseteq Elements(b.relay)
             G == {i \in 0 .. n : Good(i)}
  <1>5. Good(0)
    <2>1. g[0] = start
      BY <1>2, <1>4
    <2>2. Ahead(0) = Elements(keys)
      BY <1>d DEF Elements
    <2>3. <<>> \in Seq(LooseKey) /\ Elements(<<>>) = {}
      BY DEF Elements
    <2> HIDE DEF Ahead
    <2> QED
      BY <1>b, <1>k, <1>s, <2>1, <2>2, <2>3 DEF Backlog, Covered
  <1>6. ASSUME NEW i \in 1 .. n, Good(i - 1) PROVE Good(i)
    <2>1. Ahead(i - 1) = Ahead(i) \cup {keys[i]}
      <3>1. ((i - 1) + 1) .. n = ((i + 1) .. n) \cup {i}
        BY <1>2
      <3> QED
        BY <3>1
    <2>2. keys[i] \in LooseKey
      BY <1>d
    <2>3. g[i] = NoteAbandoned(g[i - 1], keys[i])
      <3>1. i \in 0 .. n /\ i # 0
        BY <1>2
      <3> QED
        BY <3>1, <1>4
    <2>4. g[i - 1] \in Backlog /\ Covered(g[i - 1], (cover \cup Ahead(i)) \cup {keys[i]})
      <3>1. cover \cup Ahead(i - 1) = (cover \cup Ahead(i)) \cup {keys[i]}
        <4> HIDE DEF Ahead
        <4> QED
          BY <2>1
      <3> HIDE DEF Ahead
      <3> QED
        BY <1>6, <3>1
    <2> HIDE DEF Ahead
    <2>5. /\ g[i] \in Backlog /\ Covered(g[i], cover \cup Ahead(i))
          /\ Elements(g[i].relay) \subseteq Elements(g[i - 1].relay)
      BY <2>2, <2>3, <2>4, NoteCovers, Zenon
    <2> QED
      BY <1>6, <2>5
  <1>7. \A i \in 0 .. n : i \in G
    <2>1. 0 \in G
      BY <1>5, <1>2
    <2>2. ASSUME NEW i \in 1 .. n, i - 1 \in G PROVE i \in G
      <3>1. Good(i - 1)
        BY <2>2
      <3>2. Good(i)
        BY <3>1, <1>6, Zenon
      <3> HIDE DEF Good
      <3> QED
        BY <3>2
    <2> HIDE DEF G
    <2> QED
      BY <1>2, <2>1, <2>2, UpToInduction
  <1>8. Good(n)
    <2> HIDE DEF Good
    <2> QED
      BY <1>7, <1>2
  <1>9. Ahead(n) = {}
    <2>1. (n + 1) .. n = {}
      BY <1>2
    <2> QED
      BY <2>1
  <1> HIDE DEF Ahead
  <1>10. cover \cup Ahead(n) = cover
    BY <1>9
  <1> QED
    BY <1>1, <1>8, <1>10

MarkedAt(c) ==
    /\ claimed_publish_route[c] \in {None, RelayRouteKey(c)}
    /\ current_stream[c].is_publishing => current_stream[c].name \in Name
    /\ app[c] = None => Elements(backlog[c].relay) = {}
    /\ Covered(backlog[c], {<<app[c], claimed_publish_route[c]>>})

(* The invariant: a connection without an app has no frames, a claim is    *)
(* the live key, and a queued frame is under the claim or under a key that *)
(* is queued for eviction or marked.                                       *)
MarkInv == backlog \in [Conn -> Backlog] /\ \A c \in Conn : MarkedAt(c)

LEMMA MarkInvSuffices == MarkInv => LeftFramesMarked
  <1> SUFFICES ASSUME MarkInv, NEW c \in Conn, NEW i \in 1 .. Len(backlog[c].relay)
               PROVE  LET key == backlog[c].relay[i].key
                      IN  \/ key[2] \in {claimed_publish_route[c], RelayRouteKey(c)}
                          \/ \E j \in 1 .. Len(backlog[c].evictions) : backlog[c].evictions[j] = key
                          \/ \E j \in 1 .. Len(backlog[c].abandoned) : backlog[c].abandoned[j] = key
    BY Zenon DEF LeftFramesMarked
  <1> DEFINE b == backlog[c]
             f == b.relay[i]
  <1>1. /\ b.evictions \in Seq(LooseKey) /\ b.abandoned \in Seq(LooseKey) /\ b.relay \in Seq(LooseFrame)
    BY DEF MarkInv, Backlog
  <1>2. /\ DOMAIN b.evictions = 1 .. Len(b.evictions) /\ DOMAIN b.abandoned = 1 .. Len(b.abandoned)
        /\ DOMAIN b.relay = 1 .. Len(b.relay)
    BY <1>1
  <1>3. f \in Elements(b.relay)
    BY <1>2 DEF Elements
  <1>4. f.key \in {<<app[c], claimed_publish_route[c]>>} \cup Elements(b.evictions) \cup Elements(b.abandoned)
    BY <1>3 DEF MarkInv, MarkedAt, Covered
  <1> HIDE DEF f
  <1>5. CASE f.key = <<app[c], claimed_publish_route[c]>>
    <2>1. f.key[2] = claimed_publish_route[c]
      BY <1>5
    <2> QED
      BY <2>1 DEF f
  <1>6. CASE f.key \in Elements(b.evictions) \cup Elements(b.abandoned)
    BY <1>2, <1>6, Zenon DEF Elements, f
  <1> QED
    BY <1>4, <1>5, <1>6

(* What a step leaves of a connection's marks.                             *)
MarksKept(d) ==
    /\ claimed_publish_route'[d] = claimed_publish_route[d] /\ relay_key'[d] = relay_key[d]
    /\ current_stream'[d] = current_stream[d] /\ app'[d] = app[d] /\ backlog'[d] = backlog[d]

LEMMA MarksKeptAt ==
    ASSUME MarkInv, NEW d \in Conn, MarksKept(d)
    PROVE  MarkedAt(d)'
  <1>1. RelayRouteKey(d)' = RelayRouteKey(d)
    BY DEF MarksKept, RelayRouteKey
  <1>2. MarkedAt(d)
    BY DEF MarkInv
  <1> QED
    BY <1>1, <1>2, ZenonT(30) DEF MarkedAt, MarksKept, Covered

LEMMA MarkStep ==
    ASSUME MarkInv, NEW c \in Conn, \A d \in Conn \ {c} : MarksKept(d),
           backlog' \in [Conn -> Backlog], MarkedAt(c)'
    PROVE  MarkInv'
  <1>1. ASSUME NEW d \in Conn PROVE MarkedAt(d)'
    <2>1. CASE d = c
      BY <2>1
    <2>2. CASE d # c
      BY <2>2, MarksKeptAt
    <2> QED
      BY <2>1, <2>2
  <1> QED
    BY <1>1 DEF MarkInv

LEMMA MarksUnchanged ==
    ASSUME MarkInv, UNCHANGED <<app, relay_key, current_stream, claimed_publish_route, backlog>>
    PROVE  MarkInv'
  <1>1. ASSUME NEW d \in Conn PROVE MarkedAt(d)'
    BY MarksKeptAt DEF MarksKept
  <1> QED
    BY <1>1 DEF MarkInv

(* No frame is queued under the name None.                                 *)
LEMMA NoneCovers ==
    ASSUME NEW b \in Backlog, NEW a, Covered(b, {<<a, None>>})
    PROVE  Covered(b, {})
  <1>1. ASSUME NEW f \in Elements(b.relay) PROVE f.key # <<a, None>>
    <2>1. b.relay \in Seq(LooseFrame)
      BY DEF Backlog
    <2>2. f \in LooseFrame
      BY <2>1 DEF Elements
    <2>3. f.key \in (App \cup {None}) \X Name
      BY <2>2 DEF LooseFrame, LooseKey
    <2>4. None \notin Name
      BY SessionAssumption
    <2> QED
      BY <2>3, <2>4
  <1> QED
    BY <1>1 DEF Covered

(* A claim covers the frames of the route it leaves.                       *)
LEMMA ClaimCovers ==
    ASSUME RouteTypes, MarkInv, NEW c \in Conn, NEW name \in Name
    PROVE  LET claim == ClaimPublishRoute(c, name)
               prev == claimed_publish_route[c]
           IN  /\ claim.backlog \in Backlog /\ claim.backlog.relay = backlog[c].relay
               /\ Covered(claim.backlog, {<<app[c], claim.claimed>>})
               /\ prev = None => claim.backlog = backlog[c]
               /\ prev \notin {None, name} /\ claim.outcome = "Claimed" =>
                     claim.backlog.evictions = Append(backlog[c].evictions, <<app[c], prev>>)
  <1> DEFINE claim == ClaimPublishRoute(c, name)
             prev == claimed_publish_route[c]
             key == <<app[c], name>>
             b == backlog[c]
  <1> SUFFICES /\ claim.backlog \in Backlog /\ claim.backlog.relay = b.relay
               /\ Covered(claim.backlog, {<<app[c], claim.claimed>>})
               /\ prev = None => claim.backlog = b
               /\ prev \notin {None, name} /\ claim.outcome = "Claimed" =>
                     claim.backlog.evictions = Append(b.evictions, <<app[c], prev>>)
    OBVIOUS
  <1>b. b \in Backlog /\ Covered(b, {<<app[c], prev>>})
    BY DEF MarkInv, MarkedAt
  <1>t. app[c] \in App \cup {None} /\ prev \in Name \cup {None}
    BY DEF RouteTypes
  <1>1. CASE ~Claimable(routes, c, key)
    <2>1. claim.outcome = "Contended" /\ claim.backlog = b /\ claim.claimed = prev
      BY <1>1 DEF ClaimPublishRoute
    <2> HIDE DEF claim
    <2> QED
      BY <1>b, <2>1
  <1>2. CASE Claimable(routes, c, key) /\ prev \in {None, name}
    <2>1. claim.outcome = "Claimed" /\ claim.backlog = b /\ claim.claimed = name
      BY <1>2 DEF ClaimPublishRoute
    <2>2. Covered(b, {<<app[c], name>>})
      <3>1. CASE prev = None
        BY <1>b, <3>1, NoneCovers, CoveredMore
      <3> QED
        BY <1>b, <1>2, <3>1
    <2> HIDE DEF claim
    <2> QED
      BY <1>b, <1>2, <2>1, <2>2
  <1>3. CASE Claimable(routes, c, key) /\ prev \notin {None, name}
    <2>1. CASE EvictionQueueFull(b)
      <3>1. claim.outcome = "EvictionQueueFull" /\ claim.backlog = b /\ claim.claimed = prev
        BY <1>3, <2>1 DEF ClaimPublishRoute
      <3> HIDE DEF claim
      <3> QED
        BY <1>b, <3>1
    <2>2. CASE ~EvictionQueueFull(b)
      <3> DEFINE prevKey == <<app[c], prev>>
                 ev == Append(b.evictions, prevKey)
      <3>1. /\ claim.claimed = name /\ claim.outcome = "Claimed"
            /\ claim.backlog = [b EXCEPT !.evictions = Append(@, prevKey)]
        BY <1>3, <2>2, Zenon DEF ClaimPublishRoute
      <3>2. prevKey \in LooseKey
        BY <1>t, <1>3 DEF LooseKey
      <3> HIDE DEF claim, prevKey
      <3>3. ev \in Seq(LooseKey) /\ Elements(ev) = Elements(b.evictions) \cup {prevKey}
        BY <1>b, <3>2, ElementsAppend DEF Backlog
      <3> HIDE DEF ev
      <3>4. claim.backlog = [evictions |-> ev, abandoned |-> b.abandoned, relay |-> b.relay]
        BY <1>b, <3>1, Zenon DEF Backlog, ev
      <3>5. claim.backlog \in Backlog /\ claim.backlog.relay = b.relay /\ claim.backlog.evictions = ev
        BY <1>b, <3>3, <3>4 DEF Backlog
      <3>6. Covered(claim.backlog, {})
        BY <1>b, <3>3, <3>4 DEF Covered, prevKey
      <3>7. Covered(claim.backlog, {<<app[c], claim.claimed>>})
        BY <3>6, CoveredMore
      <3> QED
        BY <1>3, <3>5, <3>7 DEF ev, prevKey
    <2> QED
      BY <2>1, <2>2
  <1> QED
    BY <1>1, <1>2, <1>3

(* So does the claim of a publish, with the rename's eviction or rolled    *)
(* back to the live key.                                                   *)
LEMMA PublishCovers ==
    ASSUME RouteTypes, MarkInv, NEW c \in Conn, NEW name \in Name
    PROVE  LET claim == PublishClaim(c, name)
           IN  /\ claim.backlog \in Backlog /\ claim.backlog.relay = backlog[c].relay
               /\ Covered(claim.backlog, {<<app[c], claim.claimed>>})
  <1> DEFINE next == NextRouteKey(c, name)
             claim == ClaimPublishRoute(c, next)
             publish == PublishClaim(c, name)
             prev == claimed_publish_route[c]
             live == <<app[c], RelayRouteKey(c)>>
             b == backlog[c]
  <1> SUFFICES /\ publish.backlog \in Backlog /\ publish.backlog.relay = b.relay
               /\ Covered(publish.backlog, {<<app[c], publish.claimed>>})
    OBVIOUS
  <1>k. RelayRouteKey(c) \in Name \cup {None} /\ next \in Name /\ app[c] \in App \cup {None}
    BY RelayRouteKeyType, Zenon DEF RouteTypes
  <1>b. b \in Backlog /\ Covered(b, {<<app[c], prev>>}) /\ prev \in {None, RelayRouteKey(c)}
    BY DEF MarkInv, MarkedAt
  <1>c. /\ claim.backlog \in Backlog /\ claim.backlog.relay = b.relay
        /\ Covered(claim.backlog, {<<app[c], claim.claimed>>})
        /\ prev = None => claim.backlog = b
        /\ prev \notin {None, next} /\ claim.outcome = "Claimed" =>
              claim.backlog.evictions = Append(b.evictions, <<app[c], prev>>)
    <2> HIDE DEF next
    <2> QED
      BY <1>k, ClaimCovers, Zenon
  <1>1. CASE claim.outcome # "Claimed" \/ ~RenameToQueue(c, name, claim)
    <2>1. publish = claim
      BY <1>1 DEF PublishClaim
    <2> HIDE DEF claim, publish
    <2> QED
      BY <1>c, <2>1
  <1>2. CASE claim.outcome = "Claimed" /\ RenameToQueue(c, name, claim)
    <2>r. /\ RelayRouteKey(c) \notin {None, next}
          /\ \A i \in Len(b.evictions) + 1 .. Len(claim.backlog.evictions) :
                claim.backlog.evictions[i][2] # RelayRouteKey(c)
      BY <1>2 DEF RenameToQueue
    <2>1. CASE EvictionQueueFull(claim.backlog)
      <3>1. publish.backlog = claim.backlog /\ publish.claimed = RelayRouteKey(c)
        BY <1>2, <2>1 DEF PublishClaim
      <3> HIDE DEF claim, publish, next
      <3>2. prev = None
        <4> SUFFICES ASSUME prev # None PROVE FALSE
          OBVIOUS
        <4> DEFINE key == <<app[c], prev>>
        <4>1. prev = RelayRouteKey(c) /\ claim.backlog.evictions = Append(b.evictions, key)
          BY <1>b, <1>c, <1>2, <2>r
        <4>2. b.evictions \in Seq(LooseKey)
          BY <1>b DEF Backlog
        <4>3. key[2] = prev
          OBVIOUS
        <4> HIDE DEF key
        <4>4. /\ Len(b.evictions) + 1 \in Len(b.evictions) + 1 .. Len(claim.backlog.evictions)
              /\ claim.backlog.evictions[Len(b.evictions) + 1] = key
          BY <4>1, <4>2
        <4> QED
          BY <4>1, <4>3, <4>4, <2>r
      <3>3. Covered(b, {<<app[c], RelayRouteKey(c)>>})
        BY <1>b, <3>2, NoneCovers, CoveredMore, Zenon
      <3> QED
        BY <1>b, <1>c, <3>1, <3>2, <3>3
    <2>2. CASE ~EvictionQueueFull(claim.backlog)
      <3> DEFINE cb == claim.backlog
                 ev == Append(cb.evictions, live)
      <3>1. publish = [claim EXCEPT !.backlog.evictions = Append(@, live)]
        BY <1>2, <2>2, SMTT(30) DEF PublishClaim
      <3>2. /\ publish.claimed = claim.claimed
            /\ publish.backlog = [cb EXCEPT !.evictions = ev]
        BY <3>1, <1>2, Zenon DEF ClaimPublishRoute
      <3>3. live \in LooseKey
        BY <1>k, <2>r DEF LooseKey
      <3> HIDE DEF publish, cb, live
      <3>4. ev \in Seq(LooseKey) /\ Elements(ev) = Elements(cb.evictions) \cup {live}
        <4>1. cb.evictions \in Seq(LooseKey)
          BY <1>c DEF Backlog, cb
        <4> QED
          BY <3>3, <4>1, ElementsAppend
      <3>5. cb \in Backlog /\ cb.relay = b.relay /\ Covered(cb, {<<app[c], claim.claimed>>})
        BY <1>c DEF cb
      <3> HIDE DEF ev, claim
      <3>6. publish.backlog = [evictions |-> ev, abandoned |-> cb.abandoned, relay |-> cb.relay]
        BY <3>2, <3>5 DEF Backlog
      <3> QED
        BY <3>2, <3>4, <3>5, <3>6 DEF Backlog, Covered
    <2> QED
      BY <2>1, <2>2
  <1> QED
    BY <1>1, <1>2

(* evict_active_publish_route queues the keys its frames are under.        *)
LEMMA EvictCovers ==
    ASSUME RouteTypes, MarkInv, NEW c \in Conn, EvictActivePublishRoute(c)
    PROVE  /\ backlog' = [backlog EXCEPT ![c] = backlog'[c]]
           /\ backlog'[c] \in Backlog /\ Covered(backlog'[c], {})
           /\ claimed_publish_route' = [claimed_publish_route EXCEPT ![c] = None]
  <1> DEFINE claimed == claimed_publish_route[c]
             others == EvictedNames(c) \ {claimed}
             other == CHOOSE n \in others : TRUE
             b == IF claimed = None THEN backlog[c] ELSE TryPushEviction(backlog[c], <<app[c], claimed>>)
             after == IF others = {} THEN b ELSE TryPushEviction(b, <<app[c], other>>)
  <1>1. /\ claimed_publish_route' = [claimed_publish_route EXCEPT ![c] = None]
        /\ backlog' = [backlog EXCEPT ![c] = after]
    BY Zenon DEF EvictActivePublishRoute
  <1>t. app[c] \in App \cup {None} /\ claimed \in Name \cup {None} /\ RelayRouteKey(c) \in Name \cup {None}
    BY DEF RouteTypes, RelayRouteKey, Stream
  <1>2. b \in Backlog /\ Covered(b, {})
    <2>1. backlog[c] \in Backlog /\ Covered(backlog[c], {<<app[c], claimed>>})
      BY DEF MarkInv, MarkedAt
    <2>2. CASE claimed = None
      BY <2>1, <2>2, NoneCovers
    <2>3. CASE claimed # None
      <3> DEFINE key == <<app[c], claimed>>
      <3>1. key \in LooseKey /\ b = TryPushEviction(backlog[c], key)
        BY <1>t, <2>3 DEF LooseKey
      <3>2. Covered(backlog[c], {} \cup {key})
        BY <2>1, CoveredMore
      <3> HIDE DEF key, b
      <3> QED
        BY <2>1, <3>1, <3>2, PushCovers
    <2> QED
      BY <2>2, <2>3
  <1> HIDE DEF b
  <1>3. after \in Backlog /\ Covered(after, {})
    <2>1. CASE others = {}
      BY <1>2, <2>1
    <2>2. CASE others # {}
      <3> DEFINE key == <<app[c], other>>
      <3>1. other \in others
        BY <2>2
      <3>2. other \in Name
        <4> HIDE DEF other
        <4> QED
          BY <1>t, <3>1 DEF EvictedNames
      <3>3. key \in LooseKey /\ after = TryPushEviction(b, key)
        <4>1. after = TryPushEviction(b, key)
          BY <2>2
        <4> HIDE DEF other, after
        <4> QED
          BY <1>t, <3>2, <4>1 DEF LooseKey
      <3>4. Covered(b, {} \cup {key})
        BY <1>2, CoveredMore
      <3> HIDE DEF key, after
      <3> QED
        BY <1>2, <3>3, <3>4, PushCovers
    <2> QED
      BY <2>1, <2>2
  <1> HIDE DEF after
  <1>4. backlog'[c] = after /\ backlog' = [backlog EXCEPT ![c] = backlog'[c]]
    BY <1>1 DEF MarkInv
  <1> QED
    BY <1>1, <1>3, <1>4

(* A backlog is the record of its three lists.                             *)
LEMMA BacklogRecord ==
    ASSUME NEW ev \in Seq(LooseKey), NEW ab \in Seq(LooseKey), NEW re \in Seq(LooseFrame),
           NEW b, b = [evictions |-> ev, abandoned |-> ab, relay |-> re]
    PROVE  b \in Backlog /\ b.evictions = ev /\ b.abandoned = ab /\ b.relay = re
  BY DEF Backlog

(* A frame is queued under the claim, whose marker goes.                   *)
LEMMA QueueCovers ==
    ASSUME NEW c \in Conn, app[c] \in App \cup {None}, RelayRouteKey(c) \in Name,
           NEW b \in Backlog, Covered(b, {<<app[c], RelayRouteKey(c)>>})
    PROVE  /\ QueueRelayFrame(c, b) \in Backlog
           /\ Covered(QueueRelayFrame(c, b), {<<app[c], RelayRouteKey(c)>>})
  <1> DEFINE key == <<app[c], RelayRouteKey(c)>>
             f == [key |-> key, from |-> c]
             kept == Without(b.abandoned, {key})
             relay == Append(b.relay, f)
  <1>b. /\ b.evictions \in Seq(LooseKey) /\ b.abandoned \in Seq(LooseKey) /\ b.relay \in Seq(LooseFrame)
        /\ b = [evictions |-> b.evictions, abandoned |-> b.abandoned, relay |-> b.relay]
    BY DEF Backlog
  <1>1. key \in LooseKey
    BY DEF LooseKey
  <1>2. QueueRelayFrame(c, b) = [evictions |-> b.evictions, abandoned |-> kept, relay |-> relay]
    <2>1. QueueRelayFrame(c, b) = [b EXCEPT !.abandoned = kept, !.relay = relay]
      BY Zenon DEF QueueRelayFrame
    <2> HIDE DEF kept, relay
    <2> QED
      BY <1>b, <2>1, Zenon
  <1>c. Covered(b, {key})
    OBVIOUS
  <1> HIDE DEF key
  <1>3. kept \in Seq(LooseKey) /\ Elements(kept) = Elements(b.abandoned) \ {key}
    BY <1>b, WithoutElements
  <1>4. f \in LooseFrame /\ f.key = key
    BY <1>1 DEF LooseFrame
  <1> HIDE DEF f
  <1>5. relay \in Seq(LooseFrame) /\ Elements(relay) = Elements(b.relay) \cup {f}
    BY <1>b, <1>4, ElementsAppend
  <1> HIDE DEF kept, relay
  <1> DEFINE q == QueueRelayFrame(c, b)
  <1>6. q \in Backlog /\ q.evictions = b.evictions /\ q.abandoned = kept /\ q.relay = relay
    <2>1. b.evictions \in Seq(LooseKey) /\ kept \in Seq(LooseKey) /\ relay \in Seq(LooseFrame)
      BY <1>b, <1>3, <1>5
    <2>2. q = [evictions |-> b.evictions, abandoned |-> kept, relay |-> relay]
      BY <1>2
    <2> HIDE DEF q
    <2> QED
      BY <2>1, <2>2, BacklogRecord
  <1> HIDE DEF q
  <1>7. Covered(q, {key})
    <2>2. ASSUME NEW g \in Elements(q.relay)
          PROVE  g.key \in {key} \cup Elements(q.evictions) \cup Elements(q.abandoned)
      <3>1. CASE g = f
        BY <1>4, <3>1
      <3>2. CASE g \in Elements(b.relay)
        <4>1. g.key \in {key} \cup Elements(b.evictions) \cup Elements(b.abandoned)
          BY <1>c, <3>2 DEF Covered
        <4> QED
          BY <1>3, <1>6, <4>1
      <3> QED
        BY <1>5, <1>6, <3>1, <3>2
    <2> QED
      BY <2>2 DEF Covered
  <1> QED
    BY <1>6, <1>7 DEF key, q

(* Who stops publishing has its route evicted.                             *)
LEMMA SilencedMarks ==
    ASSUME SessionInv, RoleInv, MarkInv, NEW c \in Conn, EvictActivePublishRoute(c),
           UNCHANGED <<app, relay_key>>, \A d \in Conn \ {c} : current_stream'[d] = current_stream[d],
           current_stream'[c].is_publishing = FALSE
    PROVE  MarkInv'
  <1>t. RouteTypes
    BY DEF SessionInv, RouteInv
  <1>1. /\ backlog' = [backlog EXCEPT ![c] = backlog'[c]]
        /\ backlog'[c] \in Backlog /\ Covered(backlog'[c], {})
        /\ claimed_publish_route' = [claimed_publish_route EXCEPT ![c] = None]
    BY <1>t, EvictCovers
  <1>2. /\ claimed_publish_route'[c] = None
        /\ \A d \in Conn \ {c} : claimed_publish_route'[d] = claimed_publish_route[d]
    BY <1>t, <1>1 DEF RouteTypes
  <1>3. backlog' \in [Conn -> Backlog] /\ \A d \in Conn \ {c} : backlog'[d] = backlog[d]
    <2> DEFINE b == backlog'[c]
    <2>1. backlog' = [backlog EXCEPT ![c] = b] /\ b \in Backlog
      BY <1>1
    <2> HIDE DEF b
    <2> QED
      BY <2>1 DEF MarkInv
  <1>4. ASSUME app[c] = None PROVE Elements(backlog'[c].relay) = {}
    <2>1. claimed_publish_route[c] = None /\ ~current_stream[c].is_publishing
      BY <1>4 DEF SessionInv, RouteInv, AppKnown, WithoutApp, RoleInv, StateAt
    <2>2. EvictedNames(c) \ {claimed_publish_route[c]} = {}
      BY <2>1 DEF EvictedNames
    <2>3. backlog' = [backlog EXCEPT ![c] = backlog[c]]
      BY <2>1, <2>2, ZenonT(30) DEF EvictActivePublishRoute
    <2>4. backlog'[c] = backlog[c]
      BY <2>3 DEF MarkInv
    <2> QED
      BY <1>4, <2>4, Zenon DEF MarkInv, MarkedAt
  <1>5. Covered(backlog'[c], {<<app[c], None>>})
    BY <1>1, CoveredMore
  <1>6. MarkedAt(c)'
    <2>1. Covered(backlog[c], {<<app[c], claimed_publish_route[c]>>})'
      BY <1>2, <1>5, Zenon DEF Covered
    <2>2. (app[c] = None => Elements(backlog[c].relay) = {})'
      BY <1>4, Zenon DEF Elements
    <2> QED
      BY <1>2, <2>1, <2>2 DEF MarkedAt
  <1>7. \A d \in Conn \ {c} : MarksKept(d)
    BY <1>2, <1>3, Zenon DEF MarksKept
  <1> QED
    BY <1>3, <1>6, <1>7, MarkStep

(* A step of c that takes or keeps a claim.                                *)
LEMMA ClaimMarks ==
    ASSUME SessionInv, MarkInv, NEW c \in Conn, NEW claim, NEW b, Claims(c, claim, b), UNCHANGED app,
           b \in Backlog, Covered(b, {<<app[c], claim.claimed>>}), app[c] = None => Elements(b.relay) = {},
           claim.claimed \in {None, RelayRouteKey(c)'},
           \A d \in Conn \ {c} : relay_key'[d] = relay_key[d] /\ current_stream'[d] = current_stream[d],
           current_stream'[c].is_publishing => current_stream'[c].name \in Name
    PROVE  MarkInv'
  <1>t. RouteTypes
    BY DEF SessionInv, RouteInv
  <1>1. /\ claimed_publish_route'[c] = claim.claimed
        /\ \A d \in Conn \ {c} : claimed_publish_route'[d] = claimed_publish_route[d]
    BY <1>t, ClaimsKept
  <1>2. /\ backlog' \in [Conn -> Backlog] /\ backlog'[c] = b
        /\ \A d \in Conn \ {c} : backlog'[d] = backlog[d]
    BY DEF Claims, MarkInv
  <1>3. MarkedAt(c)'
    <2>1. Covered(backlog[c], {<<app[c], claimed_publish_route[c]>>})'
      BY <1>1, <1>2, Zenon DEF Covered
    <2>2. (app[c] = None => Elements(backlog[c].relay) = {})'
      BY <1>2, Zenon DEF Elements
    <2> QED
      BY <1>1, <2>1, <2>2 DEF MarkedAt
  <1>4. \A d \in Conn \ {c} : MarksKept(d)
    BY <1>1, <1>2, Zenon DEF MarksKept
  <1> QED
    BY <1>2, <1>3, <1>4, MarkStep

LEMMA PublishMarks ==
    ASSUME ~defer_media_relay, SessionInv, RoleInv, MarkInv, NEW c \in Conn, NEW role \in Role,
           NEW name \in Name, NEW q, Authorized(c, role, name, q), UNCHANGED <<app, relay_key>>
    PROVE  MarkInv'
  <1>t. RouteTypes
    BY DEF SessionInv, RouteInv
  <1>m. MarkedAt(c)
    BY DEF MarkInv
  <1>1. CASE PlayGranted(c, name, q)
    <2>1. /\ EvictActivePublishRoute(c)
          /\ current_stream' = [current_stream EXCEPT ![c] =
                [@ EXCEPT !.is_publishing = FALSE, !.is_playing = TRUE, !.name = name]]
      BY <1>1 DEF PlayGranted
    <2>2. /\ \A d \in Conn \ {c} : current_stream'[d] = current_stream[d]
          /\ current_stream'[c].is_publishing = FALSE
      BY <1>t, <2>1 DEF RouteTypes, Stream
    <2> QED
      BY <2>1, <2>2, SilencedMarks, Zenon
  <1> DEFINE claim == PublishClaim(c, name)
             b == claim.backlog
  <1>c. /\ b \in Backlog /\ b.relay = backlog[c].relay
        /\ Covered(b, {<<app[c], claim.claimed>>})
    BY <1>t, PublishCovers
  <1>o. /\ claim.outcome = "Claimed" => claim.claimed = NextRouteKey(c, name)
        /\ claim.outcome # "Claimed" => claim.claimed \in {claimed_publish_route[c], RelayRouteKey(c)}
    BY PublishOutcome
  <1>e. app[c] = None => Elements(b.relay) = {}
    <2> HIDE DEF b
    <2> QED
      BY <1>c, <1>m DEF MarkedAt
  <1>2. CASE PublishRefused(c, name)
    <2>1. /\ claim.outcome # "Claimed" /\ Claims(c, claim, b)
          /\ UNCHANGED current_stream
      BY <1>2 DEF PublishRefused
    <2> HIDE DEF claim, b
    <2>2. RelayRouteKey(c)' = RelayRouteKey(c)
      BY <2>1 DEF RelayRouteKey
    <2>3. claim.claimed \in {None, RelayRouteKey(c)'}
      BY <1>m, <1>o, <2>1, <2>2 DEF MarkedAt
    <2>4. current_stream'[c].is_publishing => current_stream'[c].name \in Name
      BY <1>m, <2>1 DEF MarkedAt
    <2> QED
      BY <1>c, <1>e, <2>1, <2>3, <2>4, ClaimMarks
  <1>3. CASE PublishGranted(c, name, q)
    <2>1. /\ claim.outcome = "Claimed" /\ Claims(c, claim, b)
          /\ current_stream' = [current_stream EXCEPT ![c] =
                [@ EXCEPT !.is_publishing = TRUE, !.is_playing = FALSE, !.name = name]]
      BY <1>3 DEF PublishGranted, ApprovalLapses
    <2> HIDE DEF claim, b
    <2>2. /\ \A d \in Conn \ {c} : current_stream'[d] = current_stream[d]
          /\ current_stream'[c].name = name
      BY <1>t, <2>1 DEF RouteTypes, Stream
    <2>3. claim.claimed \in {None, RelayRouteKey(c)'}
      BY <1>o, <2>1, <2>2 DEF RelayRouteKey, NextRouteKey
    <2> QED
      BY <1>c, <1>e, <2>1, <2>2, <2>3, ClaimMarks
  <1> QED
    BY <1>1, <1>2, <1>3 DEF Authorized

LEMMA InjectMarks ==
    ASSUME SessionInv, MarkInv, NEW c \in Conn,
           InjectRefused(c) \/ InjectRelayFrame(c) \/ InjectRolledBack(c)
    PROVE  MarkInv'
  <1>t. RouteTypes
    BY DEF SessionInv, RouteInv
  <1>m. MarkedAt(c)
    BY DEF MarkInv
  <1> DEFINE key == RelayRouteKey(c)
             claim == ClaimPublishRoute(c, key)
             prev == claimed_publish_route[c]
  <1>u. UNCHANGED <<app, current_stream>> /\ key \in Name /\ app[c] \in App \cup {None} /\ app[c] # None
    <2>1. UNCHANGED <<app, current_stream>> /\ key # None /\ app[c] # None
      BY DEF InjectRefused, InjectRelayFrame, InjectRolledBack, CanInject, streamVars
    <2>2. key \in Name \cup {None} /\ app[c] \in App \cup {None}
      BY <1>t DEF RouteTypes, RelayRouteKey, Stream
    <2> QED
      BY <2>1, <2>2
  <1>o. claim.claimed = IF claim.outcome = "Claimed" THEN key ELSE prev
    BY ClaimOutcome
  <1>c. claim.backlog \in Backlog /\ Covered(claim.backlog, {<<app[c], claim.claimed>>})
    <2> HIDE DEF key
    <2> QED
      BY <1>t, <1>u, ClaimCovers, Zenon
  <1>n. current_stream'[c].is_publishing => current_stream'[c].name \in Name
    BY <1>m, <1>u DEF MarkedAt
  <1>1. CASE InjectRefused(c)
    <2>1. /\ claim.outcome # "Claimed" /\ Claims(c, claim, claim.backlog)
          /\ relay_key' = [relay_key EXCEPT ![c] = IF claim.claimed # None THEN claim.claimed ELSE @]
      BY <1>1 DEF InjectRefused
    <2> DEFINE b == claim.backlog
    <2> HIDE DEF claim
    <2>2. /\ \A d \in Conn \ {c} : relay_key'[d] = relay_key[d]
          /\ claim.claimed # None => relay_key'[c] = claim.claimed
      BY <1>t, <2>1 DEF RouteTypes
    <2>3. claim.claimed \in {None, RelayRouteKey(c)'}
      BY <2>2 DEF RelayRouteKey
    <2>4. b \in Backlog /\ Covered(b, {<<app[c], claim.claimed>>}) /\ Claims(c, claim, b)
      BY <1>c, <2>1
    <2> HIDE DEF b
    <2> QED
      BY <1>u, <1>n, <2>2, <2>3, <2>4, ClaimMarks
  <1>2. CASE InjectRelayFrame(c)
    <2> DEFINE b == QueueRelayFrame(c, claim.backlog)
    <2>1. claim.outcome = "Claimed" /\ Claims(c, claim, b) /\ UNCHANGED relay_key
      BY <1>2 DEF InjectRelayFrame
    <2>2. claim.claimed = key
      BY <1>o, <2>1
    <2>3. b \in Backlog /\ Covered(b, {<<app[c], key>>})
      <3> DEFINE cb == claim.backlog
      <3>1. cb \in Backlog /\ Covered(cb, {<<app[c], RelayRouteKey(c)>>}) /\ RelayRouteKey(c) \in Name
        BY <1>c, <1>u, <2>2
      <3> HIDE DEF cb
      <3>2. QueueRelayFrame(c, cb) \in Backlog /\ Covered(QueueRelayFrame(c, cb), {<<app[c], RelayRouteKey(c)>>})
        BY <1>u, <3>1, QueueCovers
      <3> QED
        BY <3>2 DEF cb
    <2>4. RelayRouteKey(c)' = key
      BY <1>u, <2>1 DEF RelayRouteKey
    <2> HIDE DEF b, claim, key
    <2> QED
      BY <1>u, <1>n, <2>1, <2>2, <2>3, <2>4, ClaimMarks
  <1>3. CASE InjectRolledBack(c)
    <2>1. /\ UNCHANGED <<claimed_publish_route, backlog>>
          /\ relay_key' = [relay_key EXCEPT ![c] = IF prev = None THEN @ ELSE IF prev = key THEN @ ELSE prev]
      BY <1>3 DEF InjectRolledBack
    <2>2. /\ \A d \in Conn \ {c} : relay_key'[d] = relay_key[d]
          /\ relay_key'[c] = IF prev = None THEN relay_key[c] ELSE IF prev = key THEN relay_key[c] ELSE prev
      BY <1>t, <2>1 DEF RouteTypes
    <2>3. prev \in {None, RelayRouteKey(c)'}
      BY <1>u, <2>2 DEF RelayRouteKey
    <2>4. MarkedAt(c)'
      <3>1. Covered(backlog[c], {<<app[c], claimed_publish_route[c]>>})'
        BY <1>m, <1>u, <2>1, Zenon DEF MarkedAt, Covered
      <3> QED
        BY <1>m, <1>u, <1>n, <2>1, <2>3, <3>1 DEF MarkedAt
    <2>5. \A d \in Conn \ {c} : MarksKept(d)
      BY <1>u, <2>1, <2>2 DEF MarksKept
    <2>6. backlog' \in [Conn -> Backlog]
      BY <2>1 DEF MarkInv
    <2> QED
      BY <2>4, <2>5, <2>6, MarkStep
  <1> QED
    BY <1>1, <1>2, <1>3

LEMMA MediaMarks ==
    ASSUME SessionInv, RoleInv, OwnClaimInv, MarkInv, NEW c \in Conn, MediaFrame(c)
    PROVE  MarkInv'
  <1>t. RouteTypes
    BY DEF SessionInv, RouteInv
  <1>m. MarkedAt(c) /\ backlog[c] \in Backlog
    BY DEF MarkInv
  <1> DEFINE b == QueueRelayFrame(c, backlog[c])
  <1>1. /\ relay_enabled[c] /\ current_stream[c].is_publishing
        /\ backlog' = [backlog EXCEPT ![c] = b]
        /\ UNCHANGED <<app, relay_key, current_stream, claimed_publish_route>>
    BY DEF MediaFrame, streamVars
  <1>2. claimed_publish_route[c] = RelayRouteKey(c)
    BY <1>1 DEF OwnClaimInv, OwnsRelayAt
  <1>3. RelayRouteKey(c) \in Name
    BY <1>t, <1>m, <1>1 DEF MarkedAt, RouteTypes, RelayRouteKey
  <1>4. app[c] \in App \cup {None} /\ app[c] # None
    BY <1>t, <1>1 DEF RouteTypes, RoleInv, StateAt, SessionInv, RouteInv, AppKnown, WithoutApp
  <1>5. b \in Backlog /\ Covered(b, {<<app[c], RelayRouteKey(c)>>})
    BY <1>m, <1>2, <1>3, <1>4, QueueCovers DEF MarkedAt
  <1> HIDE DEF b
  <1>6. /\ backlog' \in [Conn -> Backlog] /\ backlog'[c] = b
        /\ \A d \in Conn \ {c} : backlog'[d] = backlog[d]
    BY <1>1, <1>5 DEF MarkInv
  <1>7. MarkedAt(c)'
    <2>1. Covered(backlog[c], {<<app[c], claimed_publish_route[c]>>})'
      BY <1>1, <1>2, <1>5, <1>6, Zenon DEF Covered
    <2>2. RelayRouteKey(c)' = RelayRouteKey(c)
      BY <1>1 DEF RelayRouteKey
    <2> QED
      BY <1>m, <1>1, <1>4, <2>1, <2>2 DEF MarkedAt
  <1>8. \A d \in Conn \ {c} : MarksKept(d)
    BY <1>1, <1>6, Zenon DEF MarksKept
  <1> QED
    BY <1>6, <1>7, <1>8, MarkStep

(* A displaced owner drops its frames of both keys and queues both.        *)
LEMMA DetachedCovers ==
    ASSUME RouteTypes, MarkInv, NEW c \in Conn, Displaced(c)
    PROVE  Detached(c) \in Backlog /\ Covered(Detached(c), {})
  <1> DEFINE b == backlog[c]
             claimed == <<app[c], claimed_publish_route[c]>>
             live == <<app[c], RelayRouteKey(c)>>
             one == WithoutFramesOf(b.relay, claimed)
             relay == WithoutFramesOf(one, live)
             left == [b EXCEPT !.relay = relay]
             pushed == TryPushEviction(left, claimed)
  <1>d. Detached(c) = IF live[2] \in {None, claimed[2]} THEN pushed ELSE TryPushEviction(pushed, live)
    BY Zenon DEF Detached
  <1>t. /\ app[c] \in App \cup {None} /\ claimed_publish_route[c] \in Name
        /\ RelayRouteKey(c) \in Name \cup {None}
    BY DEF RouteTypes, RelayRouteKey, Stream, Displaced
  <1>b. /\ b \in Backlog /\ Covered(b, {claimed}) /\ b.relay \in Seq(LooseFrame)
        /\ b = [evictions |-> b.evictions, abandoned |-> b.abandoned, relay |-> b.relay]
    BY DEF MarkInv, MarkedAt, Backlog
  <1>k. claimed \in LooseKey /\ live[2] = RelayRouteKey(c) /\ (RelayRouteKey(c) # None => live \in LooseKey)
    BY <1>t DEF LooseKey
  <1> HIDE DEF claimed, live
  <1>1. one \in Seq(LooseFrame) /\ Elements(one) \subseteq Elements(b.relay)
    <2> DEFINE gone == {f \in Elements(b.relay) : f.key = claimed}
    <2>1. one = Without(b.relay, gone)
      BY DEF WithoutFramesOf
    <2> HIDE DEF gone, one
    <2> QED
      BY <1>b, <2>1, WithoutElements
  <1> HIDE DEF one
  <1>2. relay \in Seq(LooseFrame) /\ Elements(relay) \subseteq Elements(one)
    <2> DEFINE gone == {f \in Elements(one) : f.key = live}
    <2>1. relay = Without(one, gone)
      BY DEF WithoutFramesOf
    <2> HIDE DEF gone, relay
    <2> QED
      BY <1>1, <2>1, WithoutElements
  <1> HIDE DEF relay
  <1>3. left = [evictions |-> b.evictions, abandoned |-> b.abandoned, relay |-> relay]
    BY <1>b
  <1> HIDE DEF left
  <1>4. left \in Backlog /\ Covered(left, {} \cup {claimed})
    BY <1>b, <1>1, <1>2, <1>3 DEF Backlog, Covered
  <1>5. pushed \in Backlog /\ Covered(pushed, {})
    BY <1>k, <1>4, PushCovers
  <1> HIDE DEF pushed
  <1>6. Covered(pushed, {} \cup {live})
    BY <1>5, CoveredMore
  <1>7. CASE live[2] \in {None, claimed[2]}
    BY <1>d, <1>5, <1>7
  <1>8. CASE live[2] \notin {None, claimed[2]}
    <2>1. live \in LooseKey
      BY <1>k, <1>8
    <2> QED
      BY <1>d, <1>5, <1>6, <1>8, <2>1, PushCovers
  <1> QED
    BY <1>7, <1>8

LEMMA DetachMarks ==
    ASSUME SessionInv, MarkInv, DetachDisplaced
    PROVE  MarkInv'
  <1>t. RouteTypes
    BY DEF SessionInv, RouteInv
  <1>1. /\ claimed_publish_route' = [c \in Conn |-> IF Displaced(c) THEN None ELSE claimed_publish_route[c]]
        /\ backlog' = [c \in Conn |-> IF Displaced(c) THEN Detached(c) ELSE backlog[c]]
        /\ UNCHANGED <<app, relay_key, current_stream>>
    BY DEF DetachDisplaced, streamVars
  <1>2. ASSUME NEW c \in Conn PROVE backlog'[c] \in Backlog /\ MarkedAt(c)'
    <2>1. CASE Displaced(c)
      <3>1. claimed_publish_route'[c] = None /\ backlog'[c] = Detached(c)
        BY <1>1, <2>1, Zenon
      <3>2. Detached(c) \in Backlog /\ Covered(Detached(c), {})
        BY <1>t, <2>1, DetachedCovers
      <3>3. Covered(Detached(c), {<<app[c], None>>})
        BY <3>2, CoveredMore
      <3>4. Covered(backlog[c], {<<app[c], claimed_publish_route[c]>>})'
        BY <1>1, <3>1, <3>3, Zenon DEF Covered
      <3>5. app[c] # None
        BY <2>1 DEF SessionInv, RouteInv, AppKnown, WithoutApp, Displaced
      <3>6. current_stream[c].is_publishing => current_stream[c].name \in Name
        BY Zenon DEF MarkInv, MarkedAt
      <3> QED
        BY <1>1, <3>1, <3>2, <3>4, <3>5, <3>6 DEF MarkedAt
    <2>2. CASE ~Displaced(c)
      <3>1. claimed_publish_route'[c] = claimed_publish_route[c] /\ backlog'[c] = backlog[c]
        BY <1>1, <2>2, Zenon
      <3>2. MarksKept(c)
        BY <1>1, <3>1, Zenon DEF MarksKept
      <3> QED
        BY <3>1, <3>2, MarksKeptAt DEF MarkInv
    <2> QED
      BY <2>1, <2>2
  <1>3. backlog' \in [Conn -> Backlog]
    <2>1. DOMAIN backlog' = Conn /\ backlog' = [c \in Conn |-> backlog'[c]]
      BY <1>1, Zenon
    <2> QED
      BY <1>2, <2>1
  <1> QED
    BY <1>2, <1>3 DEF MarkInv

(* A step that changes only the backlogs, and keeps them covered.          *)
LEMMA BacklogMarks ==
    ASSUME MarkInv, UNCHANGED <<app, relay_key, current_stream, claimed_publish_route>>,
           backlog' \in [Conn -> Backlog],
           \A c \in Conn : /\ Covered(backlog'[c], {<<app[c], claimed_publish_route[c]>>})
                            /\ Elements(backlog'[c].relay) \subseteq Elements(backlog[c].relay)
    PROVE  MarkInv'
  <1>1. ASSUME NEW c \in Conn PROVE MarkedAt(c)'
    <2>1. MarkedAt(c)
      BY DEF MarkInv
    <2>2. Covered(backlog[c], {<<app[c], claimed_publish_route[c]>>})'
      BY Zenon DEF Covered
    <2>3. RelayRouteKey(c)' = RelayRouteKey(c)
      BY DEF RelayRouteKey
    <2>4. (app[c] = None => Elements(backlog[c].relay) = {})'
      <3> SUFFICES ASSUME app[c] = None PROVE Elements(backlog'[c].relay) = {}
        BY Zenon DEF Elements
      <3>1. Elements(backlog[c].relay) = {}
        BY <2>1 DEF MarkedAt
      <3> QED
        BY <3>1, Zenon
    <2> QED
      BY <2>1, <2>2, <2>3, <2>4 DEF MarkedAt
  <1> QED
    BY <1>1 DEF MarkInv

LEMMA DrainMarks ==
    ASSUME MarkInv, DrainEvictions \/ TakeRelayFrames
    PROVE  MarkInv'
  <1>u. UNCHANGED <<app, relay_key, current_stream, claimed_publish_route>>
    BY DEF DrainEvictions, TakeRelayFrames, streamVars
  <1>b. ASSUME NEW c \in Conn
        PROVE  backlog[c] \in Backlog /\ Covered(backlog[c], {<<app[c], claimed_publish_route[c]>>})
    BY DEF MarkInv, MarkedAt
  <1>1. CASE DrainEvictions
    <2>1. backlog' = [c \in Conn |-> Drained(backlog[c])]
      BY <1>1 DEF DrainEvictions
    <2>2. ASSUME NEW c \in Conn
          PROVE  /\ Drained(backlog[c]) \in Backlog
                 /\ Covered(Drained(backlog[c]), {<<app[c], claimed_publish_route[c]>>})
                 /\ Elements(Drained(backlog[c]).relay) \subseteq Elements(backlog[c].relay)
      BY <1>b, DrainCovers
    <2>3. \A c \in Conn : backlog'[c] = Drained(backlog[c])
      BY <2>1
    <2>4. backlog' \in [Conn -> Backlog]
      BY <2>1, <2>2, Zenon
    <2> QED
      BY <1>u, <2>2, <2>3, <2>4, BacklogMarks
  <1>2. CASE TakeRelayFrames
    <2> DEFINE Taken(b) == [evictions |-> b.evictions, abandoned |-> b.abandoned, relay |-> <<>>]
    <2>1. backlog' = [c \in Conn |-> [backlog[c] EXCEPT !.relay = <<>>]]
      BY <1>2 DEF TakeRelayFrames
    <2>2. ASSUME NEW c \in Conn PROVE backlog'[c] = Taken(backlog[c])
      <3> DEFINE none == <<>>
                 b == backlog[c]
      <3>1. backlog'[c] = [b EXCEPT !.relay = none]
        BY <2>1, Zenon
      <3>2. b = [evictions |-> b.evictions, abandoned |-> b.abandoned, relay |-> b.relay]
        BY <1>b, Zenon DEF Backlog
      <3> HIDE DEF none, b
      <3>3. backlog'[c] = [evictions |-> b.evictions, abandoned |-> b.abandoned, relay |-> none]
        BY <3>1, <3>2
      <3> QED
        BY <3>3, Zenon DEF none, b
    <2>3. Elements(<<>>) = {} /\ <<>> \in Seq(LooseFrame)
      BY DEF Elements
    <2>4. ASSUME NEW c \in Conn
          PROVE  /\ Taken(backlog[c]) \in Backlog /\ Elements(Taken(backlog[c]).relay) = {}
      BY <1>b, <2>3, Zenon DEF Backlog
    <2> HIDE DEF Taken
    <2>5. ASSUME NEW c \in Conn
          PROVE  /\ Covered(backlog'[c], {<<app[c], claimed_publish_route[c]>>})
                 /\ Elements(backlog'[c].relay) \subseteq Elements(backlog[c].relay)
      BY <2>2, <2>4 DEF Covered
    <2>6. backlog' \in [Conn -> Backlog]
      <3>1. backlog' = [c \in Conn |-> backlog'[c]]
        BY <2>1, Zenon
      <3> QED
        BY <3>1, <2>2, <2>4
    <2> QED
      BY <1>u, <2>5, <2>6, BacklogMarks
  <1> QED
    BY <1>1, <1>2

LEMMA ConnectMarks ==
    ASSUME SessionInv, MarkInv, NEW c \in Conn, NEW a \in App, Connect(c, a)
    PROVE  MarkInv'
  <1>t. RouteTypes
    BY DEF SessionInv, RouteInv
  <1>1. /\ state[c] = "Connected" /\ app' = [app EXCEPT ![c] = a]
        /\ UNCHANGED <<relay_key, current_stream, claimed_publish_route, backlog>>
    BY DEF Connect, streamVars, routeVars
  <1>2. app[c] = None
    BY <1>1 DEF SessionInv, RouteInv, AppKnown
  <1>3. claimed_publish_route[c] = None /\ Elements(backlog[c].relay) = {}
    BY <1>2, Zenon DEF SessionInv, RouteInv, AppKnown, WithoutApp, MarkInv, MarkedAt
  <1>4. app'[c] = a /\ \A d \in Conn \ {c} : app'[d] = app[d]
    BY <1>t, <1>1 DEF RouteTypes
  <1>5. MarkedAt(c)'
    <2>1. Covered(backlog[c], {<<app[c], claimed_publish_route[c]>>})'
      BY <1>1, <1>3, Zenon DEF Covered, Elements
    <2>2. (app[c] = None => Elements(backlog[c].relay) = {})'
      BY <1>1, <1>3, Zenon DEF Elements
    <2>3. current_stream[c].is_publishing => current_stream[c].name \in Name
      BY Zenon DEF MarkInv, MarkedAt
    <2> QED
      BY <1>1, <1>3, <2>1, <2>2, <2>3 DEF MarkedAt
  <1>6. \A d \in Conn \ {c} : MarksKept(d)
    BY <1>1, <1>4, Zenon DEF MarksKept
  <1>7. backlog' \in [Conn -> Backlog]
    BY <1>1 DEF MarkInv
  <1> QED
    BY <1>5, <1>6, <1>7, MarkStep

NoBacklog == [evictions |-> <<>>, abandoned |-> <<>>, relay |-> <<>>]

LEMMA NoBacklogCovered ==
    NoBacklog \in Backlog /\ Elements(NoBacklog.relay) = {} /\ \A keys : Covered(NoBacklog, keys)
  <1>1. <<>> \in Seq(LooseKey) /\ <<>> \in Seq(LooseFrame) /\ Elements(<<>>) = {}
    BY DEF Elements
  <1>2. NoBacklog.relay = <<>>
    BY DEF NoBacklog
  <1>3. Elements(NoBacklog.relay) = {}
    BY <1>1, <1>2
  <1>4. NoBacklog \in Backlog
    BY <1>1 DEF NoBacklog, Backlog
  <1> QED
    BY <1>3, <1>4 DEF Covered

LEMMA CloseMarks ==
    ASSUME SessionInv, MarkInv, NEW c \in Conn, Close(c)
    PROVE  MarkInv'
  <1>t. RouteTypes
    BY DEF SessionInv, RouteInv
  <1>1. /\ app' = [app EXCEPT ![c] = None]
        /\ relay_key' = [relay_key EXCEPT ![c] = None]
        /\ current_stream' = [current_stream EXCEPT ![c] = NewStream(0)]
        /\ claimed_publish_route' = [claimed_publish_route EXCEPT ![c] = None]
        /\ backlog' = [backlog EXCEPT ![c] = NoBacklog]
    BY DEF Close, NoBacklog
  <1>2. claimed_publish_route'[c] = None /\ ~current_stream'[c].is_publishing
    BY <1>t, <1>1 DEF RouteTypes, NewStream
  <1>3. /\ backlog'[c] = NoBacklog /\ \A d \in Conn \ {c} : backlog'[d] = backlog[d]
        /\ backlog' \in [Conn -> Backlog]
    BY <1>1, NoBacklogCovered DEF MarkInv
  <1>4. MarkedAt(c)'
    <2>1. Covered(backlog[c], {<<app[c], claimed_publish_route[c]>>})'
      <3>1. Elements(backlog'[c].relay) = {}
        BY <1>3, NoBacklogCovered
      <3> QED
        BY <3>1, Zenon DEF Covered, Elements
    <2>2. (app[c] = None => Elements(backlog[c].relay) = {})'
      <3>1. Elements(backlog'[c].relay) = {}
        BY <1>3, NoBacklogCovered
      <3> QED
        BY <3>1, Zenon DEF Elements
    <2> QED
      BY <1>2, <2>1, <2>2 DEF MarkedAt
  <1>5. \A d \in Conn \ {c} : MarksKept(d)
    <2>1. \A d \in Conn \ {c} : /\ app'[d] = app[d] /\ relay_key'[d] = relay_key[d]
                                 /\ current_stream'[d] = current_stream[d]
                                 /\ claimed_publish_route'[d] = claimed_publish_route[d]
      BY <1>t, <1>1 DEF RouteTypes
    <2> QED
      BY <1>3, <2>1 DEF MarksKept
  <1> QED
    BY <1>3, <1>4, <1>5, MarkStep

LEMMA NextMarkInv ==
    ASSUME RequestId = {}, PinnedKeys = {}, ~defer_media_relay,
           SessionInv, RoleInv, OwnClaimInv, MarkInv, [SessionNext]_sessionVars
    PROVE  MarkInv'
  <1>t. RouteTypes
    BY DEF SessionInv, RouteInv
  <1>n. asked = {}
    BY DEF OwnClaimInv
  <1>1. CASE UNCHANGED sessionVars
    BY <1>1, MarksUnchanged, Zenon DEF sessionVars, streamVars, authVars, routeVars
  <1>2. CASE DrainEvictions \/ TakeRelayFrames
    BY <1>2, DrainMarks
  <1>3. CASE DetachDisplaced
    BY <1>3, DetachMarks
  <1>s. ASSUME NEW c \in Conn, CreateStream(c) \/ TearDown(c) PROVE MarkInv'
    <2>1. EvictActivePublishRoute(c) /\ UNCHANGED <<app, relay_key>>
      BY <1>s DEF CreateStream, TearDown
    <2>2. /\ \A d \in Conn \ {c} : current_stream'[d] = current_stream[d]
          /\ current_stream'[c].is_publishing = FALSE
      <3>1. CASE CreateStream(c)
        BY <1>t, <3>1 DEF CreateStream, RouteTypes, NewStream
      <3>2. CASE TearDown(c)
        BY <1>t, <3>2 DEF TearDown, RouteTypes, Stream
      <3> QED
        BY <1>s, <3>1, <3>2, Zenon
    <2> QED
      BY <2>1, <2>2, SilencedMarks, Zenon
  <1>5. ASSUME NEW c \in Conn, PeerStep(c)
        PROVE  MarkInv'
    <2>1. ASSUME NEW a \in App, Connect(c, a)  PROVE MarkInv'
      BY <2>1, ConnectMarks
    <2>2. CASE CreateStream(c)
      BY <1>s, <2>2
    <2>3. ASSUME NEW r \in Role, NEW n \in Name, RequestAllowed(c, r, n)  PROVE MarkInv'
      <3>1. Authorized(c, r, n, Ask(c, r, None, n)) /\ UNCHANGED <<app, relay_key>>
        BY <2>3 DEF RequestAllowed
      <3> QED
        BY <3>1, PublishMarks
    <2>4. CASE DeleteStream(c) \/ CloseStream(c)
      BY <1>s, <2>4 DEF DeleteStream, CloseStream
    <2>5. ASSUME NEW n \in Name, ReleaseStream(c, n)  PROVE MarkInv'
      BY <2>5, MarksUnchanged, Zenon DEF ReleaseStream, streamVars, authVars
    <2>6. CASE MediaFrame(c)
      BY <2>6, MediaMarks
    <2> QED
      BY <1>5, <2>1, <2>2, <2>3, <2>4, <2>5, <2>6 DEF PeerStep
  <1>6. ASSUME NEW c \in Conn, HostStep(c)
        PROVE  MarkInv'
    <2>1. InjectRefused(c) \/ InjectRelayFrame(c) \/ InjectRolledBack(c)
      BY <1>n, <1>6 DEF HostStep, EnableRelay
    <2> QED
      BY <2>1, InjectMarks
  <1>7. ASSUME NEW c \in Conn, NEW roles \in SUBSET Role, Reap(c, roles)
        PROVE  MarkInv'
    BY <1>7, MarksUnchanged, Zenon DEF Reap, streamVars, routeVars
  <1>8. ASSUME NEW c \in Conn, Close(c)
        PROVE  MarkInv'
    BY <1>8, CloseMarks
  <1> QED
    BY <1>1, <1>2, <1>3, <1>5, <1>6, <1>7, <1>8 DEF SessionNext

LEMMA InitMarkInv == SessionInit => MarkInv
  <1> SUFFICES ASSUME SessionInit PROVE MarkInv
    OBVIOUS
  <1>1. backlog = [c \in Conn |-> NoBacklog]
    BY DEF SessionInit, NoBacklog
  <1>2. ASSUME NEW c \in Conn PROVE MarkedAt(c)
    <2>1. backlog[c] = NoBacklog
      BY <1>1
    <2>2. claimed_publish_route[c] = None /\ ~current_stream[c].is_publishing
      BY DEF SessionInit, NewStream
    <2> QED
      BY <2>1, <2>2, NoBacklogCovered DEF MarkedAt
  <1> QED
    BY <1>1, <1>2, NoBacklogCovered DEF MarkInv

(* Under the same conditions a frame still queued under a route its        *)
(* connection has left is known as such: through full queues of evictions  *)
(* and markers, renames, rollbacks, detaching and draining, its route is   *)
(* queued for eviction or marked, or the frame went with its marker        *)
(* (try_push_pending_cache_eviction, note_abandoned_relay_route).          *)
THEOREM LeftFramesKnown ==
    ASSUME RequestId = {}, PinnedKeys = {}, ~defer_media_relay
    PROVE  SessionSpec => []LeftFramesMarked
  <1> DEFINE Inv == SessionInv /\ RoleInv /\ OwnClaimInv /\ MarkInv
  <1>1. SessionInit => Inv
    BY InitSessionInv, InitRoleInv, InitOwnClaimInv, InitMarkInv
  <1>2. Inv /\ [SessionNext]_sessionVars => Inv'
    BY NextSessionInv, NextRoleInv, NextOwnClaimInv, NextMarkInv
  <1>3. Inv => LeftFramesMarked
    BY MarkInvSuffices
  <1> HIDE DEF Inv
  <1> QED
    BY <1>1, <1>2, <1>3, PTL DEF SessionSpec
=============================================================================
