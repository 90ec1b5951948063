# Verification of librtmp2

librtmp2 is an RTMP library in Rust: a server that accepts publishers and
players and relays media between them, a client, and the protocol layers both
share. This directory holds TLA+ models of its parts, TLC configurations that
check them on small instances, and proofs that TLAPS checks. `PROJECT.json`
maps every definition to the lines it models, lists the hazards of the code
with the properties that watch them, and gives for every property a mutation
of the model that breaks it. Paths below are relative to `src/src/`.

## The system

| part | source | modules |
|---|---|---|
| chunk reader, registry of chunk streams | `chunk/reader.rs`, `chunk/state.rs` | ChunkReader |
| chunk writer, media header compression | `chunk/writer.rs`, `chunk/media_out.rs` | MediaWire, MessageChannel |
| commands, roles, authorization, route registry | `session/` | Session |
| session timers | `session/conn.rs` | Setup |
| poll loop, init-frame cache | `server/mod.rs`, `media/init_cache.rs` | RelayTick, InitCache |
| relay queues, merge, send budget, export | `server/mod.rs` | FanOut, RelayOrder |
| sending to a player, flow control, keep-alive | `session/conn.rs`, `server/mod.rs` | PlayerLink |
| listening, accepting, pending TLS, limits | `server/mod.rs`, `transport.rs` | Admission |
| client, handshake, resolver | `client/mod.rs`, `handshake.rs`, `transport.rs` | Client, DnsQueue, ClientProcess |
| codecs, and the handlers of messages | `amf/`, `message/`, `ertmp/`, `flv/`, `media/` | Amf0, Commands, MediaTags, Messages |

The server is single-threaded: a host calls `poll`, and between two calls it
may complete authorizations, inject frames and change public fields of a
connection. What makes it hard is not threads but the many orders in which
peers' commands, late answers of the host, timeouts, full queues, partial
writes and ends of connections meet, and state that several of them repair by
hand: running counters, route ownership with rollbacks, a cache tracked per
publisher, queues whose overflow is itself remembered in a bounded list. Only
the client's resolver has a thread and condition variables of its own.

A frame on its way through the server meets the modules in this order.
Admission lets its publisher in. ChunkReader reassembles the message, which
Messages parses and authorizes. Session decides whether the publisher may relay
and under which route, Setup how long it may go on without media. FanOut
queues, merges and relays the frame; RelayTick and InitCache keep a copy of it
if late joiners need one; PlayerLink sends it to a player or drops it, and
MediaWire is what it looks like on the wire. Client and Messages receive it.

## Modules

**ChunkReader** is the registry field by field (`streams`,
`reassembly_bytes_in_use`, `reassembling_count`, `default_chunk_size`) plus what
the last call returned and did to the read cursor. Each return of `chunk_read`
is an action: `ChunkReadNeedsMore`, `ChunkReadRejects`, `ChunkReadPartial` and
`ChunkReadCompletes`. `SetChunkSize`, `AbortStream`, `ResetStream` and `Destroy`
are the registry's other operations. Headers come in all four formats.

**MediaWire** extends ChunkReader with the other end of the wire: header
compression, splitting into chunks, the send buffer, relay media staged around
it, chunk-size announcements, a new message stream, and partial socket writes
(`Flush` moves one chunk). `compact` is chosen on every call because
`compact_media_headers` is a public field. **MessageChannel** is the abstract
specification: a FIFO queue that delivers every message.

**Session** has all connections of a server and the shared route registry. Per
connection it has the fields of `Conn` that decide roles and routes; `backlog`
gathers the queues a connection leaves for the poll loop. Histories: `asked`,
the questions put to the host, and `grant` and `approved`, the answers the
present role and relaying rest on. A command that the code answers with an
error and nothing else is left out. `ClaimPublishRoute` and `PublishClaim`
return the whole outcome of a claim, with its rollbacks, as a record.
`AuthorizedSendFails` is the early return when the send buffer is full while
the other role's request is being denied. The poll loop's steps may occur in any
order, which allows more than the fixed order of a tick.

**Setup** is one connection's timers against its commands. Byte counters are
only compared with snapshots of themselves, so each comparison is a flag. The
histories `useless`, `silent`, `promised`, `carried` and `fresh` say how long
the connection has been of no use or has held a route without media, and what
it was promised.

**InitCache** is the cache with its trackers: `Reserve` is
`reserve_stream_cache_storage` with its two kinds of eviction, whose choice
among a hash map's keys is any; `Cache`, `Abandon` and `RemovePublisher` are
what a frame, a queued eviction and the end of a publisher do. **RelayTick**
extends it with the tick around it: receive from each connection in turn, apply
the evictions, detach, replay to new players, relay and cache frame by frame,
remove what closed. Between ticks the host completes requests, injects,
releases, and stops the server. A second pass of a poll is another tick.
**Lists** has what Session and InitCache do with lists of keys: what a list
holds, and what `retain` leaves of it.

**FanOut** is the same poll seen by a frame: connections' queues, frames of
publishers that are gone, injected frames, the round-robin merge over routes,
the send budget over both passes of a poll, requeueing and the export ring.
**RelayOrder** is its abstract specification: of each publisher and route,
frames leave oldest first and at most once.

**PlayerLink** is the way out to one peer, with time in steps: `RecvData`,
`RecvPingResponse` and the commands; `Replay`; `RelayFrame` with
`player_flow_decision`; `SendStaged`; `PingAndFlush`; `KeepAliveFails`. How much
the socket takes at each write is the environment's choice.

**Admission** is the accept sweep one socket at a time, so that peers can
connect in the middle of it; handshakes are taken out of the list while they
are driven, as in `progress_pending_tls`.

**Client** has both directions of a connection as sequences of units, so that
every message can be cut anywhere; a call of the host takes one step per socket
operation or message and its deadline may pass at any of them. The server's end
answers, refuses, pings, streams, stops at its window or hangs up. **DnsQueue**
is the resolver, one step per critical section or notification.
**ClientProcess** composes them: clients share the resolver and one of them
goes on to its session.

**Amf0**, **Commands** and **MediaTags** are the parsers and builders as
operators over cells. A cell is one field of fixed width, and every cell is a
number: code that looks at the wrong field reads some number, as the program
would. **Messages** is `handle_message` and what is below it, one step per
message, next to what a player's client makes of the same bytes; an input
carries the truth about how it was put together, which the properties compare
with the outcome. The connection publishes stream 1 once it is connected;
waiting authorizations are Session's. Types 1 to 6 only cost budget there.

## Runs

| run | what it shows | bounds |
|---|---|---|
| `chunk_reader` | The inductive invariant `IInv` of the proofs (types, running counters exact, limits hold, a continuation knows its length), and no error leaves the cursor inside a chunk | 4 chunk streams, 3 registered, 2 mid-message, messages of 0, 3 and (too long) 4 bytes |
| `media_wire` | Reader and writer agree on every omitted header field (`InSync`), and together they implement `MessageChannel`, whose queue rejects nothing | 3 messages, timestamps on both sides of the extended marker, clock modulo 8 |
| `session` | No role and no relaying without the host's consent to this name on this stream, no leaked route, no request that waits for ever | 1 connection, 2 names, one id that is reused, 2 questions, 2 streams, deferred relaying, a relay key set and cleared |
| `session_routes` | Media goes to the claimed route, frames of a route left behind stay marked | 2 connections, 2 names, eviction and relay queues of 1 |
| `init_cache` | The cache stays within its byte cap, every entry is tracked, a refusal evicts nothing, nobody loses an entry another publisher feeds, no keyframe outlives its configuration | 2 publishers and an injected one, 3 routes, 2 tracks, 6 bytes, 2 entries |
| `relay_tick` | No player is replayed an abandoned route inside a tick, only owners track an entry between ticks, nothing survives `stop` | 2 connections, an injected publisher, 2 routes, 1 command per connection and tick |
| `fan_out` | Each local frame is exported once, the ring holds the latest, budget and queues are bounded, the order of a publisher is kept (`RelayOrder`) | 2 connections, an injected publisher, 2 routes, 3 frames, queues and budget of 2 |
| `player_link` | Dead and deaf peers are dropped in bounded time and no others, init frames are timely, a gap ends with a resync point | soft limit 2, hard 4, timeouts of 2, at most 5 units queued, 2 frames per poll |
| `admission` | Slots and shares hold while handshakes are in flight, ids tell a poll's new connections, no listener starves | 3 listeners, one with TLS, 3 sockets of 2 addresses, 2 slots, 1 per address |
| `setup` | Useless and silent connections end in bounded time, live ones and promised windows are respected | 2 routes, windows of 2 (media), 4 (setup) and 5 (authorization) |
| `client` | The byte stream is intact, acknowledgements add up and never stall a server, roles and errors are the present session's, deadlines hold, no resolver wake-up is lost | 3 callers, resolver queue of 1, sockets of 2 units, window 1, TLS |
| `messages` | What is relayed, cached, dropped, detected, negotiated and delivered is what the message was built to say | limits of 2 to 9, 2 messages per behaviour |

Why these bounds. Each limit is small enough to be reached from below and
exceeded, and each pair of actors that can meet does: in `session_routes` every
claim can meet a contender and every push a full queue; in `init_cache` the
bytes and the entries can each be what makes room necessary; in `fan_out` the
audience of one route alone exceeds the budget and the other one's does not, and
a route's frames can wait in a requeued, an orphaned and a fresh place at once.
Three messages let a header be inherited from an inherited one. `setup` keeps
the code's order of its windows (2 s, 10 s, 15 s). In `client` a message never
fits the socket whole, so that every blocking call can be cut. `RR_WRAP` stands
for 2^64; the offset is taken modulo the number of queues, so it divides evenly.
Inputs of `messages` are the tags, commands and bodies of `MCMessages`: every
header form with every wrapper, each also cut short or malformed; `Later`
limits what may follow another message. Connections, routes and chunk streams
are symmetric where no constant tells them apart and no liveness is checked.
Several properties are conjunctions whose parts are named and commented where
they are defined: `CapsHold` is `SlotsBounded` and `AddrsBounded`, `ResultIsOwn`
is `RoleGranted`, `ErrorIsOwn` and `DeliveredFirst`, and so on.
`CHECK_DEADLOCK FALSE` stands where the bounded inputs, or the end of a
connection, let the system stop.

Time. `player_link`, `setup` and `admission` count steps of time and keep ages
instead of instants; the host polls at least once per step. "Within bounded
time" is therefore a safety property over a history counter, and needs no
fairness.

Fairness. `media_wire` assumes that the fan-out sends what it staged, that the
socket accepts queued bytes and that the receiver reads and handles them: both
poll loops do so on every tick. `RequestsEnd` assumes that a request that waits
is eventually reaped and that a sealed connection is removed:
`process_connections_impl` does the first at the start of every tick once
`pending_auth_timeout` has passed, and the second before the tick ends. Nothing
is assumed of peers or of the host. The two properties are the only ones under
fairness.

What the properties do not say.

- `RelaysOwnClaim` and `LeftFramesMarked` are checked with the relay key left
  alone and without deferred relaying: a host that moves the key of a running
  publisher puts frames under a route nobody claimed until the next claim, and a
  denial that cannot be sent leaves the new route claimed under the old name.
- `WithinSendBudget` (in `BudgetsHold`) lets one frame go to its whole audience, as the code does.
- `RelayOrder` orders one publisher's frames. After a handover of a route to an
  older connection the new publisher's frames can go first, see below.
- `UselessDropped` counts as useful a player that is not paused and was ever
  sent media of its route, and a connection that waits for the host.
- `RoleWasGranted` with reused ids holds as long as the ring of resolved ids
  reaches back to the answered question, as it does in `session`.
- `UnpackedAlike` (in `ReadersAgree`) leaves out messages a budget cut short, and for the
  dispatcher wrapped, multitrack and empty sub-tags.

### Where comments and code differ

None of these contradicts a property above.

- `chunk/reader.rs:31` promises that `Ok(0)` leaves the cursor where it was; an
  incomplete message also returns `Ok(0)`, after its chunk was consumed.
- `chunk/media_out.rs:101` says the library's reader rejects formats 2 and 3
  after a zero-length message; it accepts them.
- `session/conn.rs:308` calls `active_stream_count` the number of allocated
  streams; a stream published again after `deleteStream` is not counted.
- `types.rs:144` says a reused id is refused; only the last eight are remembered.
- `server/mod.rs:1398` says no cache eviction is pending when a completion
  arrives between ticks. One is, if the host completed another publisher's
  request since the last tick and that publisher left a route by it; the player
  is then replayed what the next tick evicts. `ReplayNotAbandoned` is therefore
  about replays inside a tick.
- `server/mod.rs:3401` says that a handoff cannot emit the new publisher's media
  first. Queues are concatenated in the order of connections, so it can when the
  new publisher is the older connection and the frames of the other one waited
  for budget.
- `client/mod.rs:261` says a terminal error is deferred until staged messages
  are delivered. It is when nothing is left to write (`DeliveredFirst`, in `ResultIsOwn`); a
  failing write is reported at once.

## Proofs

Eight modules hold theorems, each for every value of the constants that the
component's `ASSUME` allows: any number of streams, connections, names, routes,
sockets, listeners or callers, and any limits, sizes and timeouts. Each ASSUME
gives the constants their types and the order the code's own constants have,
makes finite what is summed or counted, and keeps `None` apart from the values
it stands beside.

**ChunkReaderProofs**: `IInv`, `NoDesync` and `WholeMessage` always hold. `IInv`,
the inductive invariant, is the conjunction of `TypeOK`, `MidMessage`,
`ByteAccounting`, `ActiveAccounting` and `WithinLimits`. They need each other:
that the bytes a stream gives back are bytes it was charged for needs
`MidMessage`; that no saturating subtraction ever saturates needs both counters
to be exact; that growth stays within the budget needs the byte count to be
exact and the check before the chunk to have used the same length as the read
after it. The sum over streams is the cardinality of the set of (stream,
position) pairs, so that changing one stream changes the sum by the difference,
which avoids induction. `NoDesync` and `WholeMessage` follow from the invariant
and the step.

**SessionProofs**: `NoLeakedRoute`, `StateMatchesRole` and `RelayApproved` always
hold, and `RoleWasGranted` when `HostReusesIds` is false. `StateMatchesRole` and
`WholeMessage` are only proved; no run repeats them.

- Routes. `RouteInv` adds to `NoLeakedRoute` that a connection without an app has
  no stream, claim or waiting request, and is without one exactly when it is new
  or closed. A route is named by the app as well as the name: `connect` may set
  the app only because nothing is owned yet. A claim with its rollbacks is treated
  once, as a statement about the table it leaves (`Holds`), which the lemmas on
  claiming and releasing establish and every action that claims cites.
- Roles. `RoleInv` follows the approval of relaying through play, where relaying
  stays switched on without a publisher, and lets the state of the connection
  keep the two roles apart.
- Grants. `GrantInv` says that a waiting request is among the questions put to
  the host for the present stream, and that no two questions of a connection and
  role share an id. Then an answer that is applied is the answer to that request.
- Claims. `RelaysOwnClaim` always holds while the host pins no relay key, answers
  at once and defers no relaying (`RequestId` and `PinnedKeys` empty,
  `defer_media_relay` false; the reasons are above). `OwnClaimInv` is the property
  and that no question was put off; the roles of `RoleInv` are what it rests on.

**BacklogProofs** continues it: under the same conditions `LeftFramesMarked` always
holds. A queue that is full drops a key or a frame, so the property cannot be
proved queue by queue. `Covered` says of a backlog as a whole that each queued
frame is under the route claimed, under a key queued for eviction or under a
marked one. `MarkInv` adds that a claim is the live relay key, which is what a
rename moves away from, and that a connection without an app has queued nothing,
so that `connect` may set the app. Noting a key, noting it when evictions are
full and dropping the frames of the key that falls out are treated once, as
statements about the backlog they leave.

**ListProofs** is about Lists: what `retain`, appending and concatenating leave in
a list, by induction over its positions. SessionProofs, BacklogProofs and
InitCacheProofs cite it.

**SetupProofs**: `DroppedForCause` (`LivePublisherKept` and `PromiseKept`),
`SilentPublisherDropped` and `UselessDropped` always hold, for any three timeouts
of which the media window is not longer than the setup window. `Base` ties the
code's counters to the histories and the route to the role. `Room` says that what
is left of a promised window is left on the timer. `Silence` and `Idleness` are
the two bounds made inductive: the time without use runs ahead of the timer by
less than a window, and not at all while a grace can still be earned, because
only earning one sets the timer back. A poll that is due may find one step more.

**LimitsProofs**, accepting: `CapsHold`, `NewConnsServed` and
`ListenersTakeTurns` always hold. While handshakes are taken out of the list the
code's count is too low; the caps hold because a handshake that ends then turns
into a connection, so the union they are about does not grow. For the turns,
`Turns` bounds how often a listener was passed over by its distance from the
rotating origin, `Walked` says that the listeners a sweep has gone by were empty,
and `WaitersOnly` that only waiting listeners are counted.

**LimitsProofs**, the resolver: `WakeupsKept`, that is `NoLostWakeup` and
`WorkerWakes`, always holds. The invariant adds that whoever waits on `not_full`
is still enqueueing; each caller that leaves without a slot passes its wake-up
on, which is what keeps the number of free slots below the number of threads
awake.

**PlayerLinkProofs**: `DroppedExactly`, `InitFramesTimely` and `GapClosedByResync`
always hold, for any sizes, limits and timeouts with `PING_INTERVAL <
PING_TIMEOUT` and the soft limit below the hard one.

- Gaps. `GapCongested`: after a skipped frame the player stays congested until a
  resync point is queued.
- Replays. `OwedRequested`: whoever waits for init frames has a request on record
  at least as old, which is still in its cooldown when a poll has looked at it.
- Deaf peers. `DeafSince`: the stall timer runs exactly as long as the peer has
  taken nothing of what is queued.
- Dead peers. The bound is four times `PING_TIMEOUT - 1` and a last interval: one
  timeout until silence counts, one for a ping to leave the buffer, one for its
  answer, and one for a later ping that hides it while it is queued. `PingInv` is
  this sum made inductive: a bound on the silence for each of the states a ping
  can be in (queued, in flight, none), in terms of the ages of the pings, and what
  a poll that ends has looked at. `QuietSince` ties the silence to the code's two
  progress timers.

**InitCacheProofs**: `WithinByteCap`, `EntriesTracked`, `PeersKept` and
`KeyframeDiscarded` always hold. `SoundCache` is the invariant: entries have
trackers and are not empty, and both caps are kept. `PeersKept` needs the cap on
entries: a refusal evicts nothing because an eviction under the publisher's own
cap leaves an entry free, so that the cap on entries cannot refuse after it.
`Reserved` states what `reserve_stream_cache_storage` leaves, whichever keys its
two kinds of eviction choose. The bytes are a sum over routes of sums over
tracks. That such a sum exists, and how it changes when one route does, is proved
by induction over the subsets of a finite set (`SubsetInduction`). It is stated
for a set of good subsets, as `UpToInduction` of ListProofs is for a set of good
numbers: the library's induction theorems take an operator, which the provers
cannot instantiate.

Only model-checked:

- `RequestsEnd` of Session and the fairness part of `ImplementsChannel`: liveness,
  which is beyond the prover.
- Everything about Messages and the codecs below it: they are recursive operators,
  which the prover's main backend does not accept.
- FanOut's `ExportExact`, `BudgetsHold` and `PublisherOrder`: its steps are folds
  over queues, and each would need an induction of its own.
- MediaWire's `InSync` and the safety part of `ImplementsChannel`, RelayTick's
  `ReplayNotAbandoned` and `TrackedByOwner`, Client's `WireIntact`, `AcksExact`,
  `NobodyStuck`, `ResultIsOwn` and `DeadlineHolds`: not out of the prover's reach
  in principle, but they need long invariants and no proof of them is kept here.
  For `InSync` that is what the reader will remember once each chunk on its way
  has arrived; for RelayTick, what every phase of a tick still has to evict; for
  Client, how messages cut at any unit join up again.

## Not modelled

- **The poll loop in one module.** Its parts meet in RelayTick (routes, cache,
  replay), FanOut (frames, budget), PlayerLink (one player), Admission and Setup;
  one module with all of them is out of TLC's reach. Two things fall between them:
  a deferred publisher's queued frames of a route it left are dropped from the
  queue (`drop_stale_pending_relay_for_abandoned_routes`), while FanOut relays for
  publishers that need no approval; and the acknowledgements the server sends are
  only bytes of a player's backlog.
- **Handshake digests.** Both ends' steps are in Client; the digest, its two
  offsets and the key derivation are a hash function. A handshake message is well
  formed or the peer hangs up. Handshake bytes do not count towards
  acknowledgements, in the code as in the model.
- **Commands without effect on roles.** `seek`, `receiveAudio`, `receiveVideo` and
  `getStreamLength` only answer or log.
- **AMF3** beyond integers and strings: the library never calls it.
- **The FourCC registry** in full: the members that are treated differently are in
  MediaTags, one FourCC stands for those that are unknown.
- **Transport**: TLS contexts, certificates, socket options, dialling. What the
  callers see of it (short reads and writes, would-block, plaintext held inside
  the TLS layer) is in Client and Admission.
- **Buffer growth and compaction, logging, the C ABI's pointer checks**: memory
  management and wrappers without protocol state.
- In Messages, a shared object in AMF3 form always carries the leading marker, a
  frame callback is installed, `width` stands for the numeric metadata fields that
  are read alike, and keys of script tags are shorter than 256 bytes.
