# ARK_esp_backend in TLA+

A verification project for the relay (`backend_go`) and the backend
(`backend_python`): TLA+ modules translated from the source, TLC runs over small
instances, and theorems checked by TLAPS. Paths below are relative to `src/`;
`hub.go` stands for `backend_go/internal/hub/hub.go` and so on.

## The system

Game clients report what they see. The **relay** (Go, QUIC) fans each report
out to the other members of the reporter's sharing group on the same game
server, keeps a live view in Redis, and adds deduplicated facts to Redis streams.
The **backend** (Python, FastAPI, one uvicorn process) owns Postgres: accounts,
keys, sharing groups; it consumes the streams, and it mirrors into Redis what the
relay has to know. The two processes share nothing but Redis: keys, one Pub/Sub
pattern, three streams.

| component | state | operations | hard because |
|---|---|---|---|
| relay hub (`hub.go`, `client.go`) | rooms of live connections, per-client send channel, `lastSeq` | Register, Unregister, Broadcast, RevokeAccount, read and write pumps | snapshots are used after the lock is released; full buffers; teardown needs both pumps |
| admission and revocation (`server.go`, `revocation.go`, `store/group.go`) | handshake progress, subscription | ActiveGroup, IsMember, Register; Watch | check then act against a mirror; Pub/Sub is at most once |
| sharing groups (`sharing_service.py`, `group_cache.py`, `sharing_repo.py`) | four tables, two kinds of Redis keys | create, invite, join, leave, remove, switch, delete | several commits and Redis calls to a request, a pool of threads |
| stream producer and consumer (`streamproducer.go`, `redis_stream.py`, `main.py`) | stream, consumer group, pending list | XADD with trimming; claim, read, handle, acknowledge | lost replies, crashes, Redis restarts, entries that always fail |
| dedup gate and live store (`client.go` maybeStream, `dedup/hash.go`, `store/redis.go`) | per-entity hash with an expiry, last published content hash | Upsert, LastHash, SetLastHash, keyframe, vanished | two reporters race on one key; the hash outlives a removal |
| ingest of structures, dinos, players (`services/*_sighting_service.py`, `ark_structure_repo.py`, `server_repo.py`, ...) | Postgres rows | upsert by key, delete by hash, get-or-create of servers and tribes | messages are redelivered and reordered; several sessions create the same rows; a rollback takes more than it should |
| telemetry snapshots and flush (`routers/v1/telemetry.py`, `structure_store.py`, `structure_flush.py`, `idempotency.py`) | Redis cache with a dirty flag, processed-snapshot marks, rows with a status | accept a snapshot, flush dirty entries, mark stale rows | the flag is cleared after a newer write; retries; entries that expire |
| queries (`structure_query_service.py`, `pagination.py`) | a cursor in the client's hands | one page | rows move while somebody walks through them |
| api keys (`api_key_service.py`, `api_key_cache.py`, `apikeycache/cache.go`) | rows, two Redis keys per key | create, revoke, resolve | the process may end between the three writes |
| accounts, administrators, activation keys (`account_service.py`, `activation_key_service.py`, `password_reset_service.py`, `account_auth.py`, `admin_auth.py`) | accounts, keys, reset tokens, lockout counters | issue, edit, delete, register, log in, change, reset | one-time secrets used twice; read-modify-write counters with argon2 in between |
| dino density (`dino_density_service.py`) | counts per area | periodic pass over the live view | creates tribes beside the consumers |

What makes each correct, in one line: the hub's registry is exact, nothing
crosses rooms, order is kept, closed connections end; whoever is connected is a
member or has a revocation coming; tables, mirror and live connections agree;
entries are handled at least once; what is held back is known and
rows converge to the world; a tribe has one row and what is acknowledged is
stored; accepted observations reach Postgres and a walk through the pages misses
nothing; a one-time secret is used once, a lockout stays, a revoked key dies.

## Modules

| module | stands for |
|---|---|
| `RoomBroadcast` | the abstract promise of a relay room |
| `RelayHub` | the hub and the two goroutines of each client; refines `RoomBroadcast` |
| `RelayHub_proofs` | theorems about `RelayHub`, the refinement among them |
| `MCRelayHub` | instances: three clients in two rooms; two clients in one |
| `SharingService` | the requests of `sharing_service.py` over Postgres and Redis |
| `SharingService_proofs` | theorems about its tables and its mirror in Redis |
| `MCSharingService` | instances without a relay |
| `GroupAccess` | `SharingService` composed with the relay's handshake and Watch |
| `GroupAccess_proofs` | theorems about revocation |
| `MCGroupAccess` | instance with symmetry |
| `AtLeastOnce` | the abstract promise of the durable path |
| `StreamConsumer` | producer, Redis stream and consumer; refines `AtLeastOnce` |
| `StreamConsumer_proofs` | theorems about `StreamConsumer`, the refinement among them |
| `DedupGate` | maybeStream and streamVanished over one entity, down to its row |
| `DedupGate_proofs` | theorems about `DedupGate` |
| `MCDedupGate` | two connections; a structure, a player, a wild dino |
| `Registry` | get-or-create of servers, tribes and lookups by concurrent sessions |
| `SightingIngest` | the three handlers and the density sampler, on `Registry` |
| `SightingIngest_proofs` | theorems about both |
| `MCIngest` | messages of one tribe in seven workloads |
| `SnapshotBuffer` | snapshot requests, the Redis cache, the flush job and stale marks |
| `StructureQuery` | a reader's pages beside `SnapshotBuffer` |
| `StructureQuery_proofs` | theorems about both |
| `MCSnapshot` | snapshots in six workloads |
| `AccountAccess` | accounts, administrators, activation keys, reset tokens |
| `ApiKeys` | API keys across Postgres and Redis, on `AccountAccess` |
| `ApiKeys_proofs` | theorems about both |
| `MCAccess` | seven workloads of routes that meet in the same rows |

Operators under a comment that begins "Deviation:" are not part of any
specification. Each is one definition with a plausible mistake in it, kept next
to the definition it deviates from, to confirm that the properties notice.

### RelayHub and RoomBroadcast

A member of `Clients` is one `*Client` object, which serves one connection and is
not reused. `Hub.mu` makes Register, Unregister and the two snapshots (Broadcast's
and RevokeAccount's) single steps; the loops after the snapshots run outside the
lock and take one step per target, so every interleaving with other goroutines
is there. `reader` is the place readPump has come to: reading, inside
handleSighting before the snapshot ("storing"), handing out ("fanout"), ended.
`send` is the buffered channel. A frame is dequeued and written in one step: a
write that fails drops it and ends the pump. `got` records what reached
the peer. Redis writes in `handleSighting` do not touch the hub and are left to
`DedupGate`. `ReadEnds` covers a failed read, a read deadline, a
frame that does not decode and a sighting that does not validate, because
readPump does the same for all: it returns. Bound: sequence numbers 0..MaxSeq.
RoomBroadcast has no goroutines, queues or snapshots: a shared batch is owed to each peer
in the room, is delivered oldest first, and is cancelled only by cutting the peer off. The
mapping is present <- clients between Register and Unregister, cut <- closed, pending <- the
reporters in handleSighting, owed <- `Owed`: what lies in the buffers of, or is yet to be
queued for, connections that are not closed. A client that leaves the registry between the
snapshot and its turn is closed by then, and is owed nothing.

### SharingService

One worker is one thread of the pool that runs the `def` routes. `req[w]` holds
the request's place and its local variables (`todo`: the member list of
delete_group, `clear`: the accounts listed as active, `n`: the count a join has
read). Each commit and each Redis call is one action. SQLAlchemy facts the steps
rest on: READ COMMITTED; attributes expire at commit and are read again when
used (`ReadCount`, `ReloadInvite`, which fail if the row is gone); DELETE of a
row that is gone only warns; the foreign key refuses an `active_group_id` of a
deleted group; ON DELETE SET NULL clears it; the cascade reads the members
before the commit, and a member added since makes the DELETE of the group fail
(`DeleteRowsFails`). `_set_active_group` reads the account by primary key and
writes one column, whatever it held, so its read and its write are one step. A refused
request changes nothing and has no action. Bounds: one invite to a group,
MaxRequests requests, at most one request cut short (`Abort`); an invite's expiry
by time is left out, since expiry by use takes the same branch. `admitted`,
`overlapped` and `abandoned` are history variables: only properties read them,
and no guard does except `Abort`'s bound.

### GroupAccess

Extends SharingService with connections: `ResolveGroup`, `CheckMember`,
`Admitted` are the three awaits of `handshake` and the registration; `Revoke` is
one turn of Watch's loop. It closes a connection in one step here; what RevokeAccount does
step by step, and that a closed connection is torn down, is RelayHub's subject.
`Track` records the connections a revocation was published for while no
subscription existed, and `CheckMember` those that get in by a members key which
outlives the revocation (`KeyOutlives`): delete_group publishes first and deletes
the key afterwards. That a token resolves to an account is taken as given.

### StreamConsumer and AtLeastOnce

Entries are numbered as Redis numbers them. `delivered` is the group's
last-delivered-id, `pel` its pending list, `stale` the pending entries idle for
`claim_idle_ms`. `task` is where `run_consumer` is; "dead" is the asyncio task
ended by an exception that nobody awaits. Every call may fail before it takes
effect or after it (`ClaimFails`, `ReadFails`, `AckFails`). `Publish` may trim
down to MaxLen entries, as approximate trimming may. `Reset` is Redis coming back
without data; the group is created again by `EnsureGroup` only, which runs once
per process. A shutdown cancels the task and is the same as a crash for the
stream. AtLeastOnce has five variables and says: an entry is finished only
after a handler call succeeded on it, once, and is given up only if the stream
grew by MaxLen since or was started afresh. The mapping is published <- produced,
done <- acked, lost <- the entries that are gone from Redis and not in hand.

### DedupGate

One entity of one room, seen by several connections. `handler[c]` is the place
of `handleSighting` between its Redis calls: Upsert, LastHash, XADD, SetLastHash.
`gate` holds the three fields of the live hash that matter: the content hash (here
the cell, since the hash covers class, name and position and leaves the owner
out), whether `streamed_at` is older than the keyframe, and whether the hash has
a TTL: `SetLastHash` is an HSET without EXPIRE, so it may bring a hash back that
never expires again. A failed lookup publishes. A removal is published without
a look at the gate. The backend's side is one row: `Deliver` applies the next
entry, and an entry whose handler failed or whose acknowledgement was lost is applied
again behind newer ones (`Reclaim`). `Apply` gives the row the place of the sighting,
and its owner if it names one: an entity that no tribe owns (`NoTribe`) leaves the owner
of an existing row as it is (ark_structure_repo.py:49-50). Time is not counted: a keyframe passes, a hash
expires. Wild dinos and players without a stable id never reach the stream.
Bounds: MaxChanges of the world, MaxStream entries of backlog, MaxFailures. `sent`
(the sightings published) and `lingers` are history variables.

### Registry and SightingIngest

`Registry` is the part that the handlers share: each worker has a session of
Postgres, and each SELECT and INSERT of get-or-create is a step. An INSERT waits for
an uncommitted row of the same unique key; on a conflict the code rolls the whole
session back (`RolledBack`), which loses rows the caller had flushed: their objects stay,
and the commit is then refused by a foreign key (`CommitRefused`). Renames and
backfills of a tribe are flushed with the commit. Lookup tables have one writer each,
so their get-or-create is one step. `SightingIngest` adds the handlers of
structures (two commits if there is a turret), dinos (nearest row of the same hash
within `_MATCH_RADIUS`) and players, and the sampler, which resolves the server once
and then writes cell after cell in one session. A message is dropped where
`parse_sighting` gives None or there is nothing to store. `inbox` holds what is not
acknowledged, which StreamConsumer refines: an entry that failed is claimed
again behind the rest (`tried`). `Redeliver` is a lost acknowledgement, `ProcessEnds` a
crash. Positions have one dimension; a cell of the density grid and its window
are one per tribe.

### SnapshotBuffer and StructureQuery

A request is a coroutine that writes item after item, each by one MULTI, and stamps it
with a time taken before it awaits that MULTI (`TakeTime`; nothing in the code bounds the
wait), so an older stamp may be written over a newer one and a row go back; the flush
job runs beside it, one at a time (`max_instances=1`). The job's HGETALL, its
transaction in Postgres and its HSET are three steps, which is where a newer
observation gets lost.
The HSET of a hash that expired meanwhile leaves `Bare`. `Grid` rounds half to even as
Python does. The map is read off the key. Time is counted in parts of a day: every
TTL and the stale threshold are one day. Failing calls and a crash are bounded by the
workload. `StructureQuery` adds a client: a page is one SELECT ordered by
`last_seen_at` and id, and the cursor is the key of its last row. `newest`, `missed`,
`items` and the walk's `start`, `touched` and `back` are history variables.

### AccountAccess and ApiKeys

One thread is one thread of the pool. A step ends where another session can see or change
what this one goes on to use: at a commit, at a wait for a row lock or for the
unique index, and between a read and the write computed from it (the login reads
`failed_attempts`, runs argon2, and writes the columns it changed).
Registration locks the activation key, inserts the account and redeems the key in
one transaction; delete reads the key's status without that lock; PATCH writes only
the columns it changes. `ApiKeys` adds `post_api_key`, `delete_key` and the
mirror: `token` is the key the relay's `Resolve` reads, `index` the one by which a
revocation finds it. Both have a TTL always, of 30 days if the key has no
`expires_at`; a TTL is reckoned before the SET and runs from it, so a key that has
expired in Postgres resolves until Redis drops it. A row read for the claims is read
again by `change_password`, since the session holds it by a weak reference. `torn` is a history variable. Workloads bound which routes
meet; MaxRequests and MaxCrashes bound how many.

## Runs

| run | instance | shows |
|---|---|---|
| `hub` | 3 clients, 2 rooms, buffer 1, 1 sequence number | TypeOK, RegistryMatchesRuns, SightingsStayInRoom, FinishedIsClosed |
| `hub_live` | 2 clients, buffer 2, 2 sequence numbers, fair | BatchesInOrder, ClosedIsUnregistered, BroadcastNeverBlocks, KeepsFanOut |
| `hub_read_side` | 2 clients, buffer 1, fair | violation of EitherSideEndsRun |
| `group_access` | 2 accounts, 2 groups (one unborn), 2 workers, 3 requests, 1 abort, 2 connections, 1 lost subscription | AccessTypeOK, MirrorAgrees, TablesConsistent, RevokedIsOut, DeletedIsOut |
| `invite_limit` | 3 accounts, one-time invite, 2 workers | violation of InviteWithinLimit |
| `mirror_race` | 2 accounts, 2 workers, 3 requests | violation of MirrorKeepsUp |
| `stream` | 4 entries, MaxLen 2, batches of 2, 1 entry that always fails, 2 errors, 1 crash, 1 reset, fair | TypeOK, NothingForgotten, AckedWasApplied, KeepsPromise, EventuallyAcked |
| `stream_loop` | 2 entries, 1 error | violation of LoopEndsOnlyOnStop |
| `gate` | 2 connections, 2 owners and none, 2 cells, 2 changes of the world, backlog 2, 1 failure, fair | GateTypeOK, SuppressedIsKnown, EventuallyCurrent, EventuallyGone |
| `ingest` | 4 workers, 1 server, 1 tribe with 2 names, up to 5 messages, 1 redelivery, 1 crash, fair | IngestTypeOK, OneRowPerTribe, AckedIsStored, EventuallyStored |
| `snapshot` | 2 requests, up to 3 items, page of 1, a day of 2 parts, up to 2 failures and 1 crash, fair | SnapshotTypeOK, NothingForgotten, AcceptedWasWritten, PagesComplete, StaleOnlyIfUnseen, EventuallyFlushed |
| `access` | 3 accounts, 2 admins, 3 activation keys, 2 resets, 1 API key, threshold 2, 2 threads, 4 requests, 1 crash, fair | AccessTypeOK, RegistrationAtomic, MirrorOfKeys, AuditLostOnlyByOverlap, ResetOnce, LockoutKept, RevokedKeyDies, RequestsAnswered |

Why the bounds are enough. `hub`: three clients are the fewest with two rooms, a
peer, and one account in both rooms; a buffer of 1 is full after one frame. The
order property needs two sequence numbers and a buffer of 2, which `hub_live`
has. `group_access`: three requests by two threads are enough for two to overlap
and a third to follow; two connections let a handshake and an open connection meet
one revocation; the unborn group gives the account somewhere else to be active.
`stream`: with MaxLen 2 and four entries both pending and undelivered entries
are trimmed; batches of 2 leave a rest.
`gate`: two connections are enough for a hash recorded in the wrong order, two
changes for an entity that goes and comes back, or is taken over and abandoned, one entry behind another for a late
claim. `ingest`: three tribe rows are one more than two sessions can insert for two
names; two messages of one stream and one of another, with the sampler, meet in
every order; one crash and one redelivery meet each of them. `snapshot`: two
requests are a first attempt and its retry, or two that stamp one cell and write in the
other order, three rows in pages of one have rows before and behind the cursor, four parts of time let a row age a day and be seen again.
`access`: two threads overlap in every pair of routes of a workload, and two more
requests follow; a threshold of 2 lets a failure precede the one that locks.
Deadlock checking is off in the runs
whose bounded requests come to an end, and in the stream runs, where a dead task
really stops.

### What the violations show

* `hub_read_side`: `readPump` returns on a bad frame or on silence without
  closing the connection (client.go:158), `writePump` returns only if a write
  fails. As long as the peer takes pings the client stays registered, although
  Run's comment promises an end when "either side ends the connection".
* `invite_limit`: `insert_member` commits, which releases the invite's row lock
  before `uses_count` is incremented (sharing_service.py:152-154). Two joins at
  once both pass the check of a one-time invite.
* `mirror_race`: the SADD of a join comes after its commit (line 159); a leave
  or a removal of the same account may come in between, and its SREM comes first.
  The account stays in the Redis set without a row.
* `stream_loop`: the XACK at redis_stream.py:126 is outside every `try`; one
  network error there ends the consumer until the process is restarted.

### What the passing runs excuse

Each exception is written into its property and was needed: without it TLC finds
a counterexample.

* MirrorAgrees speaks of accounts that no two requests dealt with at once and
  whose requests ran to the end: the violations show why.
* RevokedIsOut and DeletedIsOut excuse the connections a revocation could not reach
  (`slipped`): those between IsMember and Register when it was handled, those it
  was published for with no subscription, and those that were checked against the
  members key after the revocation of a deleted group. The last gap is the order of
  `delete_group` (group_cache.py:77-79), whose comment calls it the safer one in both
  directions; with the key deleted first there would be no such connection.
* EventuallyAcked excuses entries the handler always refuses, trimmed entries,
  resets of Redis, and a dead task.
* EventuallyGone excuses a removal that could not be published (client.go:350
  logs and forgets it) and a sighting that the backend claims after the removal
  (`lingers`). Other sightings that follow a removal do not leave the row behind for
  good, because the removals of the other connections come after them.
  EventuallyCurrent asks for the owner only of an entity that has one: `upsert_structure`
  assigns a tribe only if it was given one (ark_structure_repo.py:49-50), so a structure that
  was abandoned keeps its last owner for good, although server_repo.py:80-82 says that such
  ownership stays NULL. Without the condition TLC shows just that.
  EventuallyCurrent says "in the end": until the keyframe, a change of owner
  is held back (the gate compares the hash and nothing else, client.go:292, where
  hash.go:34-36 and docs/telemetry-api-v1.md:585-586 call such a change a new fact, "not the
  same thing again"), a structure that came back stays without a row, and a claimed entry may
  take the row back, last_seen_at included, where the docstring of
  ark_structure_repo.py:36-38 speaks of moving it forward.
* OneRowPerTribe excuses an id that one session committed while another had looked
  for it in vain (`raced`): under two names both insert a row, and from then on
  the lookup by id raises. EventuallyStored names what is then retried for ever
  (`Blocked`), along with a rename onto a name in use and an address without a port. A
  reporter that is no UUID (structure_sighting_service.py:115) would be retried for ever as
  well; no message has one here, since the relay fills that field in from the token.
* NothingForgotten and StaleOnlyIfUnseen excuse an observation written between the
  job's HGETALL and its HSET, and a hash that expired before the job came
  (`missed`); the last observation is the one written last, whichever stamp it bears.
  PagesComplete lets a row be returned again if its `last_seen_at` went back during the walk
  (`back`): of two overlapping requests on one cell the older stamp was written last.
  AcceptedWasWritten excuses the retry of a snapshot that had rejected
  items: it is told that all of them were accepted (telemetry.py:62-63 and 107),
  unlike the first answer.
* AuditLostOnlyByOverlap: a DELETE of an activation key that read it as issued removes it
  after a registration redeemed it, although activation_keys.py:135-137 says
  that a redeemed key is not deleted.
* MirrorOfKeys excuses keys revoked while they were created and requests cut short
  (`torn`), keys that expired in Postgres and that Redis has yet to drop, and keys of an
  account suspended or deleted since: account_auth.py:173-175 asks for the account's
  state, the relay's `Resolve` (cache.go:59-67) does not, and nothing removes the key from
  Redis. RevokedKeyDies shows that all of these die with their TTL, which for a disabled
  account may be 30 days later.
* LockoutKept excuses a log-in that had read the row before the lockout began; that
  concurrent failures count once is in the model and no property denies it.

## Fairness

* RelayHub: a goroutine that can run does. Reads on a closed stream return, a
  write returns within `writeWait`, a ping tick comes within `pingInterval`, so a
  writer finds out that its stream is closed. No fairness on what peers do:
  sending, pinging, disconnecting.
* StreamConsumer: the container is restarted (`restart: unless-stopped` in
  docker-compose), the event loop runs a task that can run, and pending entries
  grow stale as time passes. Errors, crashes and resets are bounded, not fair.

* DedupGate: a handler goes on, a client that sees the entity reports it again, the
  backend consumes. A keyframe passes if it can again and again: handlers last
  seconds, the keyframe minutes. The hash need not expire.
* SightingIngest, SnapshotBuffer, AccountAccess: threads and coroutines go on, the
  scheduler starts its job again, waits for locks end with the transaction that holds
  them. A message is claimed again as long as it is not acknowledged. Failing calls
  and crashes are bounded, not fair. In ApiKeys the TTL of a key comes to its end.

## Proofs

`RelayHub_proofs`, under `HubAssumption` only (finitely many clients, a room
for each, a buffer of at least 1, Pong is not a sighting):

| theorem | says |
|---|---|
| HubTypeCorrect | Spec => []TypeOK |
| HubRegistryCorrect | Spec => []RegistryMatchesRuns |
| HubRoomIsolation | Spec => []SightingsStayInRoom |
| HubOrder | Spec => []BatchesInOrder |
| HubTeardown | Spec => []FinishedIsClosed |
| HubKeepsFanOut | Spec => KeepsFanOut, that is RoomBroadcast's Spec under the mapping |

All six follow from one inductive invariant, `IInv`: TypeOK, PumpInv,
RegistryMatchesRuns, SightingsStayInRoom, QueueInv, BatchesInOrder, FreshInv. PumpInv ties the
places of the pumps to the snapshots (a target list is non-empty only during
fan-out and names clients of the reporter's room, other than the reporter): room
isolation needs it because the list outlives the lock. QueueInv says that
whatever is queued or received from d was accepted from d, and that the batch d
is handing out is newer than anything its remaining targets have: order needs it,
since a send appends that batch. RegistryMatchesRuns is inductive given TypeOK:
`WithRoomFacts` describes the map after an update once for both uses. Each
conjunct has a lemma that a step preserves it (TypeStep, PumpStep, RegistryStep,
RoomStep, QueueStep, OrderStep, FreshStep), with one case per action; QueueSplit and
QueueAppend say what Tail and Append do to the elements of a queue.

For the refinement, `StepFansOut` has one case per action. A batch moves from a target
list to a queue without RoomBroadcast noticing (`QueueingKeepsWay`); the head of a queue
is the oldest batch its reporter owes that peer, and the only copy of it, which takes
BatchesInOrder for the queue and QueueInv for the snapshot (`HeadIsOldest`). Each of the
three ways to close a connection is Cut the first time and nothing afterwards
(`ClosingIsCut`); FreshInv is there because a connection can only be cut once Register has
seen it. Without PumpInv a sighting read during a fan-out would change what is owed.

`StreamConsumer_proofs`, under `StreamAssumption` only (MaxLen and BatchSize at
least 1, the bounds natural numbers):

| theorem | says |
|---|---|
| StreamTypeCorrect | Spec => []TypeOK |
| StreamForgetsNothing | Spec => []NothingForgotten |
| StreamAcksApplied | Spec => []AckedWasApplied |
| StreamKeepsPromise | Spec => KeepsPromise, that is AtLeastOnce's Spec under the mapping |

The inductive invariant is TypeOK, NothingForgotten, AckedWasApplied and
GroupInv. GroupInv says that the entry about to be acknowledged was handled;
that what is in hand or pending is not acknowledged, and was delivered since the
fresh start, so that an acknowledgement finishes an entry that is neither
finished nor lost; and that only growth by MaxLen or a fresh start
trims. `DeliverFacts` is what XREADGROUP does to the cursor, `ClaimFacts` what
XAUTOCLAIM does to the pending list. For the refinement, `LostGrows` shows that no
step takes back what is lost and `GiveUpStep` that whatever is lost may be given up;
`StepRefines` then has one case per action: XADD is Publish, a reset or a new group
is StartAfresh, a successful handler is Apply, an acknowledgement is Finish, and
every other step abandons the entries that leave the task's hands, or none.

`DedupGate_proofs`, under `GateAssumption` only (an entity's forms are values, None is
not a cell, the bounds are natural numbers):

| theorem | says |
|---|---|
| GateTypeCorrect | Spec => []GateTypeOK |
| GateHoldsBackKnown | Spec => SuppressedIsKnown |

The inductive invariant is GateTypeOK, SightingInv and KnownInv. A lookup compares with a
hash that another connection may have recorded long ago, so the property is not
inductive: KnownInv says that for a hash younger than the keyframe a sighting with it was
published, and that what a handler is about to record was. SightingInv says that handlers deal
with values. `OutsideStep`, `HandleStep` and `TimeStep` preserve the
invariant, `GotoFacts` says what a move of one handler changes, and `SuppressStep`
shows that a handler leaves a lookup for good only by LastHash.

`SharingService_proofs`, under `SharingAssumption` only (None is no account, group or
invite; the founder of a group is an account or None; the bounds are natural
numbers):

| theorem | says |
|---|---|
| SharingTypeCorrect | Spec => []TypeOK |
| SharingTablesConsistent | Spec => []TablesConsistent |
| SharingMirrorAgrees | Spec => []MirrorAgrees |

`TablesInv` is TypeOK, TablesConsistent and what a request relies on between two
steps: a request names a group and an account (ReqInv), nobody but its creator deals with a
group before its owner is a member (CreateInv), whoever leaves is not the owner
(LeaveInv), and delete_group comes to Redis only after the deletion is committed
(DeleteInv). There is a lemma for each step of a request and each way a
request begins; `QuietStep`, `MoveStep` and `ConsistentStep` hold what many of them share.

MirrorAgrees speaks of accounts at rest, so it says nothing that an induction could
start from while a request is under way. `AccountInv` does: place by place, which of
the three agreements (sets, key of the active group, membership in it) holds
of an account that one request deals with, and what that request has still to write.
`OverlapInv` says that a second request makes the account overlapped, so that at most
one request has to be considered. `FrameStep` is the general step: an account outside
the request keeps what was true of it.

`GroupAccess_proofs`, under the same assumption and `AccessAssumption` (every
connection has an account, MaxDrops is a natural number):

| theorem | says |
|---|---|
| AccessTypeCorrect | AccessSpec => []AccessTypeOK |
| AccessRevokedIsOut | AccessSpec => []RevokedIsOut |
| AccessDeletedIsOut | AccessSpec => []DeletedIsOut |
| AccessLeavesMirror | AccessSpec => [](TablesConsistent /\ MirrorAgrees) |

The inductive invariant is MirrorInv, AccessTypeOK, RoomInv and WaitInv. Both properties
speak of open connections; WaitInv starts at the membership check, since a connection
that passed it registers whatever happens in between. For a live group WaitInv goes by
the set in Redis, which the check reads; for a deleted one by the row, and there
AccountInv is needed: whoever is in the set is on the list that delete_group revokes.
`Seen` is all that the relay notices of a step of the backend; each backend step is shown to
be one (`StepSeen`), and `WorkerStep` needs nothing else.

`SightingIngest_proofs`, under `RegistryAssumption` and `IngestAssumption` (the four
workers; the fields of a message, with None for what is missing; ids of tribes are
positive; None is no row; the bounds are natural numbers):

| theorem | says |
|---|---|
| IngestTypeCorrect | Spec => []IngestTypeOK |
| OneRowOfATribe | Spec => []OneRowPerTribe |
| AckedIsKept | Spec => []AckedIsStored |

OneRowPerTribe is about rows, and what keeps it true is in the sessions, so the inductive
invariant `RegInv` says of each session what it may still rely on, however the others
commit meanwhile. `JobOK` and `HoldsOK` go by the stage. `KnowsOK`: a row that was found
stays, on the same server; the name of a row about to be inserted is not in use. `VainOK`: a
session that looked for an id in vain can go on unless somebody committed that id since, and
then the id is in `raced`. `InsertsApart`: no two sessions hold one new row or one new name,
which is what the wait for the unique index is for. A commit is the only step that writes, so
the lemmas split there: `CommitTribes` is what it changes, `CommitKeepsApart` that its row
stays apart from every other (one case per change), `CommitOthers` that the other sessions
keep what they rely on, and `GotoReg` stands for every step that writes nothing.

`StoredInv` is what the rows owe to the messages that are done, in the inbox or not: a
redelivered message may be handled again and nothing it left is taken back. Its last
conjunct says that the row a turret is written to is there, between the two commits.
`StoredFrame`, `StructureWritten` and `RowsWritten` carry it over a step; each handler has one
lemma. That CommitRefused refuses what `RolledBack` lost is where AckedIsStored needs
the foreign keys.

`StructureQuery_proofs`, under `SnapshotAssumption` and `QueryAssumption` (a radius, a day
and a page of at least 1; finitely many snapshots, each a sequence of items; ids
of rows are totally ordered and differ; None is no row and no observation):

| theorem | says |
|---|---|
| SnapshotTypeCorrect | Spec => []SnapshotTypeOK |
| NothingIsForgotten | Spec => []NothingForgotten |
| AcceptedIsWritten | Spec => []AcceptedWasWritten |
| PagesAreComplete | Spec => []PagesComplete |
| StaleIsUnseen | Spec => StaleOnlyIfUnseen |

`DataInv` follows one observation through its four copies, the last one accepted, the
hash, what the job has read of it, the row, each equal to the one before or on the way to
it; as long as the cell is not in `missed` the hash stays dirty until the job has written what it read.
`AnswersInv` says how far a request is in its snapshot, and that a snapshot marked as
processed had every item written or refused, which is what a retry's answer rests on.

`WalkInv` says where the rows stand to the cursor: those returned are not below it, those
that were there and have not moved are returned or below it. It needs that the order
by `last_seen_at` and id is total (`BelowIsOrder`), that rows stay, and that those written
meanwhile move ahead of the cursor or are in `back` (`RowsStay`), and that a page is exactly the next rows: the
model numbers the rows still to come by how many precede them, and `PlacesAreNumbered` shows
by cardinalities that the numbers are 1 to n, each once, for any finite set of rows.

`ApiKeys_proofs`, under `AccountAssumption` and `ApiKeyAssumption` (accounts and
administrators are apart, the first of each exists, a threshold of at least 1, None is no
value, the bounds are natural numbers):

| theorem | says |
|---|---|
| AccessTypeCorrect | Spec => []AccessTypeOK |
| RegistrationIsAtomic | Spec => []RegistrationAtomic |
| MirrorOfKeysHolds | Spec => []MirrorOfKeys |
| AuditLossIsOverlap | Spec => AuditLostOnlyByOverlap |
| ResetTokenOnce | Spec => ResetOnce |
| LockoutIsKept | Spec => LockoutKept |

`AccountInv` has the tables (`RowsOK`: an activation key and the account it admitted name
each other), what a request may rely on when it writes (`JobOK`: from the row lock on
the key stays issued, from the INSERT on the login is the transaction's own), and what two
requests at once cannot both hold (`Apart`: a new row, the lock of a key or of a token, a
login not yet committed). `TurnStep` is the general step: one request goes on, the others
keep what they have. `ApiInv` adds `KeyOK`, which says of a key that is not torn how far its
creation has got, and that a key in the mirror has its index until a revocation takes it.
The three action properties follow from the invariant by a case for each action:
`UserWriters` names those that touch the rows of users.

Two guards are bounds of the model that the proofs rely on: a new account or a new tribe
needs a row that nobody has (`FreeAccounts`, `FreeRows`), where Postgres generates an id.

Only model-checked: all liveness (EventuallyAcked, EventuallyCurrent, EventuallyGone,
EventuallyStored, EventuallyFlushed, RevokedKeyDies, RequestsAnswered, ClosedIsUnregistered,
BroadcastNeverBlocks), because fairness and ENABLED are out of the prover's reach. The
violations are counterexamples of TLC. Every safety property of a passing run is a theorem.

## Not modelled

* Wiring, configuration and certificates (`cmd/relay/main.go`, `config`, `devcert.go`),
  logging, deployment, schemas: no behaviour the properties tell apart.
* Hashing, token formats, JWT signatures: a secret matches or not. The content hash is
  modelled by what it covers.
* QUIC framing and the wire protocol (`frame.go`, `message.go`): sequential and
  without state; a frame that does not decode or validate ends the read side.
* Single reads: status, lists of keys, groups and accounts. The list of active groups
  that the sampler walks, and the values of the live view's fields.
* Field maps of the streams, label parsing, coordinates: data.

## What is left

An abstract specification for the ingest, in the way AtLeastOnce is one for the consumer
and RoomBroadcast one for the hub, with its refinement proved.
Starvation of healthy entries behind as many failing ones as a claim returns is known
from the code (redis_stream.py:46-52) and has no run of its own.
