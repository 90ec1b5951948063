----------------------------- MODULE InitCache -----------------------------
(***************************************************************************)
(* The init-frame cache of the server (server/mod.rs): per route the codec *)
(* headers, the metadata and the last keyframe a late joiner is sent, and  *)
(* per publisher the routes whose entries it keeps alive.  Storage is      *)
(* bounded in bytes, in entries and in routes per publisher; a frame that  *)
(* does not fit evicts routes of its own publisher, then routes of         *)
(* injected (external) publishers.                                         *)
(*                                                                         *)
(* A payload is its identity and its length.  A frame comes classified     *)
(* (media/init_cache.rs): the kind of cache field it belongs to and the    *)
(* tracks whose configuration it carries.  Two publishers may feed one     *)
(* route, and one connection several: the cache does not rely on the       *)
(* registry of routes to keep them apart.                                  *)
(***************************************************************************)
EXTENDS Integers, Sequences, FiniteSets, Functions, Lists

CONSTANTS
    Local, External,              \* ids of connections and of injected routes
    Route, KeyBytes,              \* (app, name) pairs and the bytes a key takes
    ExternalRoute,                \* the route an external id stands for
    Track,                        \* track ids of multitrack media
    Payload,                      \* records with a length len
    Frames,                       \* the frames publishers send
    None,
    max_stream_cache_bytes,
    MAX_STREAM_CACHE_KEYS_PER_PUBLISHER,
    MAX_STREAM_CACHE_ENTRIES,
    MAX_CACHED_INIT_FRAME_BYTES,
    MAX_CACHED_KEYFRAME_BYTES

Publisher == Local \cup External

Frame ==
    [kind : {"video header", "audio header"}, tracks : SUBSET Track, body : Payload]
    \cup [kind : {"metadata", "keyframe", "live"}, tracks : {{}}, body : Payload]

Field == Payload \cup {None}

\* The headers of one medium: one for all tracks, or one for each track.
Headers == [combined : Field, track : [Track -> Field]]
NoHeaders == [combined |-> None, track |-> [t \in Track |-> None]]

StreamCache ==
    [video : Headers, audio : Headers, metadata : Field, last_keyframe : Field]
EmptyStreamCache ==
    [video |-> NoHeaders, audio |-> NoHeaders, metadata |-> None, last_keyframe |-> None]

ASSUME InitCacheAssumption ==
    /\ Frames \subseteq Frame
    /\ Local \cap External = {}
    /\ KeyBytes \in [Route -> Nat]
    /\ ExternalRoute \in [External -> Route]
    /\ None \notin Payload \cup StreamCache
    /\ IsFiniteSet(Route) /\ IsFiniteSet(Track)
    /\ \A b \in Payload : b.len \in Nat
    /\ {max_stream_cache_bytes, MAX_STREAM_CACHE_KEYS_PER_PUBLISHER,
        MAX_STREAM_CACHE_ENTRIES, MAX_CACHED_INIT_FRAME_BYTES,
        MAX_CACHED_KEYFRAME_BYTES} \subseteq Nat

VARIABLES
    stream_cache,                 \* Route -> a StreamCache or None
    publisher_cache_keys          \* Publisher -> the routes it tracks, oldest first

cacheVars == <<stream_cache, publisher_cache_keys>>

Storage == [cache |-> stream_cache, keys |-> publisher_cache_keys]

CacheInit ==
    /\ stream_cache = [r \in Route |-> None]
    /\ publisher_cache_keys = [p \in Publisher |-> <<>>]

(***************************************************************************)
(* Bytes.                                                                  *)
(***************************************************************************)
Bytes(field) == IF field = None THEN 0 ELSE field.len

TrackBytes(h, tracks) ==
    SumFunctionOnSet([t \in Track |-> Bytes(h.track[t])], tracks)

EntryBytes(r, c) ==
    KeyBytes[r] + Bytes(c.metadata) + Bytes(c.last_keyframe)
    + Bytes(c.video.combined) + TrackBytes(c.video, Track)
    + Bytes(c.audio.combined) + TrackBytes(c.audio, Track)

Cached(st) == {r \in Route : st.cache[r] # None}

\* The bytes each route takes.
Sizes(st) ==
    [r \in Route |-> IF st.cache[r] = None THEN 0 ELSE EntryBytes(r, st.cache[r])]

StreamCacheBytes(st) == SumFunctionOnSet(Sizes(st), Route)

(***************************************************************************)
(* Tracking and eviction.                                                  *)
(***************************************************************************)
Tracks(st, p) == Elements(st.keys[p])

CoTracked(st, p, r) == \E q \in Publisher \ {p} : r \in Tracks(st, q)

\* A publisher tracks a route once, however often it feeds it.
TrackKey(st, p, r) ==
    IF r \in Tracks(st, p) THEN st
    ELSE [st EXCEPT !.keys[p] = Append(@, r)]

Evict(st, routes) ==
    [cache |-> [r \in Route |-> IF r \in routes THEN None ELSE st.cache[r]],
     keys |-> [p \in Publisher |-> Without(st.keys[p], routes)]]

\* Publisher p lets go of a route; its entry stays while another tracks it.
Untrack(st, p, r) ==
    LET left == [st EXCEPT !.keys[p] = Without(@, {r})]
    IN  IF r \notin Tracks(st, p) \/ CoTracked(st, p, r)
        THEN left
        ELSE [left EXCEPT !.cache[r] = None]

\* The routes p may evict for another of its own, oldest first.
OwnVictims(st, p, r) ==
    Without(st.keys[p], {k \in Route : k = r \/ CoTracked(st, p, k)})

\* The route of any injected publisher: the map's order decides among them.
ExternalVictims(st, r) ==
    {k \in Route \ {r} : \E x \in External : k \in Tracks(st, x) /\ ~CoTracked(st, x, k)}

\* The next route evicted under pressure: its own first.
Victims(st, p, r) ==
    IF OwnVictims(st, p, r) # <<>> THEN {Head(OwnVictims(st, p, r))}
    ELSE ExternalVictims(st, r)

(***************************************************************************)
(* reserve_stream_cache_storage: room for `incoming' bytes in the entry of *)
(* r, replacing `existing' ones.  Each step of it gives the outcomes it    *)
(* may have: whether the reservation stands, and the storage it leaves.    *)
(***************************************************************************)
Outcome(ok, st) == [ok |-> ok, st |-> st]

Minus(a, b) == IF a > b THEN a - b ELSE 0

NewKeyBytes(st, r) == IF st.cache[r] = None THEN KeyBytes[r] ELSE 0

ProjectedTotal(st, r, incoming, existing) ==
    Minus(StreamCacheBytes(st) + incoming + NewKeyBytes(st, r), existing)

Irreducible(st, r, incoming, existing) ==
    IF st.cache[r] = None THEN incoming + KeyBytes[r]
    ELSE Minus(EntryBytes(r, st.cache[r]), existing) + incoming

\* Bytes of the routes that count as freeable for a reservation of p.
FreeableBytes(st, r, p) ==
    SumFunctionOnSet(Sizes(st),
        {k \in Cached(st) \ {r} :
           /\ ~CoTracked(st, p, k)
           /\ \E q \in {p} \cup External : k \in Tracks(st, q)})

\* A fault: victims are evicted before it is known whether they make room.
CannotEverFit(st, p, r, incoming, existing) ==
    Irreducible(st, r, incoming, existing) > max_stream_cache_bytes

CannotFit(st, p, r, incoming, existing) ==
    \/ Irreducible(st, r, incoming, existing) > max_stream_cache_bytes
    \/ LET total == ProjectedTotal(st, r, incoming, existing)
       IN  /\ total > max_stream_cache_bytes
           /\ Minus(total, FreeableBytes(st, r, p)) > max_stream_cache_bytes

\* The cap on routes per publisher: only one of its own makes room.
UnderPublisherCap(st, p, r) ==
    IF st.cache[r] # None \/ Len(st.keys[p]) < MAX_STREAM_CACHE_KEYS_PER_PUBLISHER
    THEN Outcome(TRUE, st)
    ELSE IF OwnVictims(st, p, r) = <<>> THEN Outcome(FALSE, st)
    ELSE Outcome(TRUE, Evict(st, {Head(OwnVictims(st, p, r))}))

\* The cap on entries, for a route that had none.
UnderEntryCap(st, p, r) ==
    IF st.cache[r] # None \/ Cardinality(Cached(st)) < MAX_STREAM_CACHE_ENTRIES
    THEN {Outcome(TRUE, st)}
    ELSE IF Victims(st, p, r) = {} THEN {Outcome(FALSE, st)}
    ELSE {Outcome(TRUE, Evict(st, {k})) : k \in Victims(st, p, r)}

\* The sets of routes the byte loop may have evicted after some rounds.
LoopVictims(st, p, r) ==
    LET own == OwnVictims(st, p, r)
    IN  {Elements(SubSeq(own, 1, n)) : n \in 0 .. Len(own)}
        \cup {Elements(own) \cup E : E \in SUBSET ExternalVictims(st, r)}

\* The loop goes on while the total is too large and a victim is left.
UnderByteCap(st, p, r, incoming, existing) ==
    LET Fits(V) == ProjectedTotal(Evict(st, V), r, incoming, existing)
                       <= max_stream_cache_bytes
        all == Elements(OwnVictims(st, p, r)) \cup ExternalVictims(st, r)
        Reached(V) == V = {} \/ \E k \in V : V \ {k} \in LoopVictims(st, p, r)
                                             /\ ~Fits(V \ {k})
    IN  IF Fits({}) THEN {Outcome(TRUE, st)}
        ELSE {Outcome(Fits(V), Evict(st, V)) :
                 V \in {W \in LoopVictims(st, p, r) : Reached(W) /\ (Fits(W) \/ W = all)}}

Reserve(st, p, r, incoming, existing) ==
    IF CannotFit(st, p, r, incoming, existing) THEN {Outcome(FALSE, st)}
    ELSE LET first == UnderPublisherCap(st, p, r)
             second == IF first.ok THEN UnderEntryCap(first.st, p, r) ELSE {first}
         IN  UNION {IF o.ok THEN UnderByteCap(o.st, p, r, incoming, existing) ELSE {o} :
                       o \in second}

(***************************************************************************)
(* cache_relay_frame.                                                      *)
(***************************************************************************)
\* One track's configuration has a slot of its own; any other replaces all.
Single(tracks) == Cardinality(tracks) = 1

SetHeaders(h, f) ==
    IF Single(f.tracks)
    THEN [combined |-> None,
          track |-> [t \in Track |-> IF t \in f.tracks THEN f.body ELSE h.track[t]]]
    ELSE [NoHeaders EXCEPT !.combined = f.body]

DropHeaders(h, f) ==
    IF Single(f.tracks)
    THEN [combined |-> None,
          track |-> [t \in Track |-> IF t \in f.tracks THEN None ELSE h.track[t]]]
    ELSE NoHeaders

\* A fault: one track's header counts as replacing those of all tracks.
ReplacedEveryTrack(h, f) == Bytes(h.combined) + TrackBytes(h, Track)

ReplacedBytes(h, f) ==
    Bytes(h.combined) + TrackBytes(h, IF Single(f.tracks) THEN f.tracks ELSE Track)

\* A fault: a track's header is compared with those of all tracks.
UnchangedInAnySlot(c, f) ==
    IF Single(f.tracks)
    THEN c.video.combined = None /\ \E t \in Track : c.video.track[t] = f.body
    ELSE c.video = [NoHeaders EXCEPT !.combined = f.body]

\* The very configuration that is cached already.
VideoHeaderUnchanged(c, f) ==
    IF Single(f.tracks)
    THEN c.video.combined = None /\ \A t \in f.tracks : c.video.track[t] = f.body
    ELSE c.video = [NoHeaders EXCEPT !.combined = f.body]

ExistingFieldBytes(c, f) ==
    CASE f.kind = "metadata"     -> Bytes(c.metadata)
      [] f.kind = "keyframe"     -> Bytes(c.last_keyframe)
      [] f.kind = "audio header" -> ReplacedBytes(c.audio, f)
      [] f.kind = "video header" ->
           ReplacedBytes(c.video, f)
           + IF VideoHeaderUnchanged(c, f) THEN 0 ELSE Bytes(c.last_keyframe)

\* A new video configuration makes the cached keyframe undecodable.
Updated(c, f) ==
    CASE f.kind = "metadata"     -> [c EXCEPT !.metadata = f.body]
      [] f.kind = "keyframe"     -> [c EXCEPT !.last_keyframe = f.body]
      [] f.kind = "audio header" -> [c EXCEPT !.audio = SetHeaders(@, f)]
      [] f.kind = "video header" ->
           [c EXCEPT !.video = SetHeaders(@, f),
                     !.last_keyframe = IF VideoHeaderUnchanged(c, f) THEN @ ELSE None]

\* What is left of an entry when its field moved on to an oversized payload.
Outdated(c, f) ==
    CASE f.kind = "metadata"     -> c
      [] f.kind = "keyframe"     -> [c EXCEPT !.last_keyframe = None]
      [] f.kind = "audio header" -> [c EXCEPT !.audio = DropHeaders(@, f)]
      [] f.kind = "video header" ->
           [c EXCEPT !.video = DropHeaders(@, f), !.last_keyframe = None]

SizeCap(f) ==
    IF f.kind = "keyframe" THEN MAX_CACHED_KEYFRAME_BYTES ELSE MAX_CACHED_INIT_FRAME_BYTES

\* A fault: an entry emptied by an oversized payload is kept.
OversizedKeepsEntry(st, r, f) ==
    IF st.cache[r] = None THEN st ELSE [st EXCEPT !.cache[r] = Outdated(@, f)]

CacheOversized(st, r, f) ==
    IF st.cache[r] = None THEN st
    ELSE IF Outdated(st.cache[r], f) = EmptyStreamCache THEN Evict(st, {r})
    ELSE [st EXCEPT !.cache[r] = Outdated(@, f)]

EntryOf(st, r) == IF st.cache[r] = None THEN EmptyStreamCache ELSE st.cache[r]

StoreFrame(o, p, r, f) ==
    IF ~o.ok THEN o.st
    ELSE [TrackKey(o.st, p, r) EXCEPT !.cache[r] = Updated(EntryOf(o.st, r), f)]

\* The storages a frame of p on route r may leave.
CacheRelayFrame(st, p, r, f) ==
    IF f.kind = "live" THEN {st}
    ELSE IF f.body.len > SizeCap(f) THEN {CacheOversized(st, r, f)}
    ELSE {StoreFrame(o, p, r, f) :
            o \in Reserve(st, p, r, f.body.len, ExistingFieldBytes(EntryOf(st, r), f))}

(***************************************************************************)
(* The cache's operations.                                                 *)
(***************************************************************************)
Becomes(st) == stream_cache' = st.cache /\ publisher_cache_keys' = st.keys

Cache(p, r, f) ==
    /\ p \in External => r = ExternalRoute[p]
    /\ \E st \in CacheRelayFrame(Storage, p, r, f) : Becomes(st)

\* A publisher renames away from a route, or a host releases an injected one.
Abandon(p, r) == r \in Tracks(Storage, p) /\ Becomes(Untrack(Storage, p, r))

\* A publisher's connection is removed with all it tracks.
RemovePublisher(p) ==
    /\ publisher_cache_keys[p] # <<>>
    /\ Becomes([cache |-> [r \in Route |->
                             IF r \in Tracks(Storage, p) /\ ~CoTracked(Storage, p, r)
                             THEN None ELSE stream_cache[r]],
                keys |-> [publisher_cache_keys EXCEPT ![p] = <<>>]])

CacheNext ==
    \E p \in Publisher :
        \/ RemovePublisher(p)
        \/ \E r \in Route : Abandon(p, r) \/ \E f \in Frames : Cache(p, r, f)

CacheSpec == CacheInit /\ [][CacheNext]_cacheVars

(***************************************************************************)
(* Properties.                                                             *)
(***************************************************************************)
\* The bytes counted before a frame is stored bound the bytes stored: over
\* every mix of replaced headers, discarded keyframes and evicted routes the
\* cache stays within max_stream_cache_bytes (reserve_stream_cache_storage).
WithinByteCap == StreamCacheBytes(Storage) <= max_stream_cache_bytes

\* An entry lives exactly as long as some publisher tracks its route, and is
\* never empty: eviction, renaming, teardown and oversized replacements leave
\* no entry nobody would remove and no tracker of a route that is gone.
EntriesTracked ==
    \A r \in Route :
        /\ stream_cache[r] \in StreamCache \cup {None}
        /\ stream_cache[r] # None <=> \E p \in Publisher : r \in Tracks(Storage, p)
        /\ stream_cache[r] # EmptyStreamCache

Cacheable(f) == f.kind # "live" /\ f.body.len <= SizeCap(f)

\* The outcomes of the reservation a frame makes.
Reservation(p, r, f) ==
    Reserve(Storage, p, r, f.body.len, ExistingFieldBytes(EntryOf(Storage, r), f))

\* "Refuse before wiping peer caches": a reservation that fails has evicted
\* nothing on its way (reserve_stream_cache_storage).
RefusalEvictsNothing ==
    \A p \in Local, r \in Route, f \in {g \in Frames : Cacheable(g)} :
        \A o \in Reservation(p, r, f) : o.ok \/ o.st = Storage

\* Storing a frame costs no other connection its cached route: what a local
\* publisher tracks is lost only to that publisher's own frames, and to none
\* that is refused
\* (cache_key_co_tracked, evict_any_external_stream_cache).
PeersKept ==
    /\ RefusalEvictsNothing
    /\ \A p \in Local, r \in Route, f \in Frames :
        \A st \in CacheRelayFrame(Storage, p, r, f) :
            \A q \in Local \ {p} : \A k \in Tracks(Storage, q) \ {r} :
                st.cache[k] = stream_cache[k]

\* A keyframe is never kept across a change of the video configuration that
\* precedes it in a replay: combined header, track headers, or from one form
\* to the other (video_header_unchanged).
KeyframeDiscarded ==
    [][\A r \in Route :
          /\ stream_cache[r] # None
          /\ stream_cache'[r] # None
          /\ stream_cache'[r].video # stream_cache[r].video
          => stream_cache'[r].last_keyframe = None]_cacheVars
=============================================================================
