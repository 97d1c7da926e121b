# Vehicle Tracker Platform: specification and proofs

TLA+ models of the platform's own logic, the TLC runs that check them on small
instances, and theorems about them checked by TLAPS. `src/` is the repository;
line numbers are those of this commit.

## 1. The system

GT06 trackers hold TCP connections to the **gateway**, which decodes frames,
keeps a registry of sessions, publishes messages to the Redis stream
`tracker:events` and acknowledges frames. The **worker** consumes the stream as
a consumer group, writes PostgreSQL and a session cache, and keeps a dead-letter
stream. The **backend** (FastAPI) is the back office: customers, vehicles,
trackers, installations, users. The **frontend** (Next.js) is its user interface.

    device --TCP--> gateway --XADD--> tracker:events --XREADGROUP--> worker
      ^  ACK, commands |                                  |  commit, XACK
      +----------------+                     PostgreSQL <-+-> tracker:session:{imei}
                                                 ^             tracker:dead-letter
    browser --HTTP--> frontend --HTTP--> backend-+

### Inventory

| component | state | operations | hard behaviours | what makes it correct |
|---|---|---|---|---|
| gateway TCP server, GT06 loop, session registry (`gateway/app/server.py`, `protocols/gt06/base.py`, `sessions/manager.py`) | permits of the semaphore, sessions, IMEI index, per-connection buffer | accept, detect, frame loop, bind, publish, ACK, finally block, route a command | reconnection before the old connection ended, XADD failing or its reply lost, idle peers, restarts | permits are conserved, the index names the open session, an ACK follows the XADD, each connection's messages are in order and end with its disconnect |
| GT06 framing and codec (`protocols/gt06/codec.py`, `parser`) | the bytes not yet framed | extract_frames, decode, encode | frames split anywhere, garbage, corrupt lengths, damaged bytes, fields that look like frames | frames do not depend on how the bytes were cut; what is decoded is what was sent |
| learning mode (`protocols/unknown`, `learning`) | a session's capture, appended files | read, classify, store | every way to end, writes that fail, crashes | never publishes, ends on the idle timeout; a capture is the whole story of its connection, and what is stored is found |
| command engine (`gateway/app/commands`) | records, queue, history | dispatch, retries, correlate replies | ACK racing the timeout, late ACKs, two commands in flight | outcomes are final, every dispatch ends, an acknowledged command is not resent |
| stream publisher and health thread (`publisher`, `main.py`) | the Redis client | XADD, ping | two event loops over one client | see the gateway |
| worker (`worker/app`) | group cursor, pending list, batch, attempts, transaction, cache | read, retry, persist, XACK, dead-letter | crashes between steps, lost replies, two consumers, trimming | nothing acknowledged is lost, one effect per dedup key, order |
| installations and tracker stock (`domains/operations`, `domains/devices`) | trackers, tracker_assignments | create, edit, finish, status, delete | check-then-act in concurrent transactions, stale rows | a tracker is on one vehicle, a vehicle has one PRIMARY |
| customers, vehicles, users of customers (`domains/crm`, `domains/fleet`) | rows with soft deletion | create, update, status, delete | uniqueness checked by a read | one live row per document, plate, chassis |
| identity (`domains/identity`) | refresh tokens, login counters | login, refresh, logout, rate limit | concurrent refreshes, INCR without EXPIRE | a refresh token is used once, a lockout ends |
| path of a report (`domain/mapper.py`, `contracts`, `services/persistence.py`) | contracts, stream entries, dedup keys, positions | map, serialize, parse, deduplicate, update the device | retransmissions over other connections, stamps before the XADD, optional fields | each report is stored once and as it was sent; the places shown agree |
| monitoring and device health (`domains/monitoring`, `devices/health.py`) | none (queries over last_seen_at) | list, count | thresholds agreeing between Python and SQL, several queries per answer | no device is left out, the list shows what was asked for |
| gateway intelligence (`intelligence`) | last report, last clusters, promoted files | profile, cluster, suggest, report, promote | analyses and promotions out of step | a report adds up, a proposal stands for all its sessions |
| device knowledge base (`knowledge`) | profiles, history, versions, snapshots | resolve, upsert, observe, snapshot | snapshots without the lock, restarts | a snapshot has what its versions say, the majority is recommended |
| replay tools (`tools/replay`) | a replay's buffer and counts | replay a capture | reads that cut frames | judges as the gateway does |
| migrations (`alembic`) | schema and rows | upgrade, downgrade | any sequence, with the application used in between | the schema follows the version, models and rows fit it |
| observability | counters, log lines | - | - | one close reason per connection |
| frontend | tokens in the browser | login, refresh, logout | - | - |
| docker, scripts, seed | - | deployment | eviction policy, restarts | - |

Components interact only by these calls: gateway to worker through the stream,
worker to backend through PostgreSQL, frontend to backend over HTTP. The session
cache the worker writes has no reader in the repository.

The complete list, with what is left out of each component and why, is
`PROJECT.json` (`components`); what in this code is hard to test, at its line and
with the properties that watch it, is under `hazards`.

## 2. The modules

| module | models | composes |
|---|---|---|
| `TelemetryWorker` | worker: consumer loop, retry, transaction, cache, dead letters, with the stream and the consumer group as Redis keeps them | refines `AtMostOnceDelivery` |
| `AtMostOnceDelivery` | what a consumer group without a second reading of the pending list promises | - |
| `GatewaySessions` | gateway: the life of every TCP connection, the registry, publishing and ACKs | - |
| `CommandEngine` | gateway: dispatch, retries, correlation of answers | - |
| `GT06Frames` | gateway: where a frame begins and ends, `extract_frames` | used by `GT06Framing`, `GT06Codec`, `Intelligence` |
| `GT06Framing` | gateway: detection and the reads of a connection, byte by byte | in `MCParts` |
| `GT06Codec` | gateway: encoding and decoding, the checksum, IMEI and GPS fields | used by `Replay`; `MCParts` gives its checksum to `Intelligence` |
| `Replay` | device, gateway and the replay lab over the same bytes | in `MCParts` |
| `SessionCapture` | gateway: learning mode, recorder, store, close reasons; the readers of the file | in `MCParts` |
| `Intelligence` | gateway: analysis of captures and promotion | in `MCParts` |
| `Knowledge` | gateway: the device knowledge base | in `MCParts` |
| `Pipeline` | gateway, stream, worker: one report from the frame to the device's row | in `MCParts` |
| `DeviceHealth` | backend: health, the dashboard's counts, the filtered list | in `MCParts` |
| `Migrations` | backend: the fourteen migrations, up and down, and the rows | in `MCParts` |
| `Installations` | backend: installations, tracker status, deletion of trackers and vehicles | refines `TrackerCustody` |
| `TrackerCustody` | a tracker is on one vehicle at a time and moves through the stock | - |
| `AuthTokens` | backend and browser: rate limit, login, refresh, logout | in `MCParts` |
| `Catalog` | backend: customers, vehicles and users with unique keys and soft deletion | in `MCParts` |
| `TelemetryWorkerProofs`, `GatewaySessionsProofs`, `CommandEngineProofs`, `InstallationsProofs`, `AuthTokensProofs`, `PipelineProofs` | theorems about the module of that name | each extends it |
| `ProtocolProofs` | theorems about `Knowledge`, `SessionCapture`, `GT06Framing` and `Intelligence` | extends the first, instantiates the others |
| `BackOfficeProofs` | theorems about `DeviceHealth`, `Catalog` and `Migrations` | extends the first, instantiates the others |
| `MC...` | constants for TLC | one per module; `MCParts` runs the twelve parts, one in a behaviour |

### TelemetryWorker

The variables are the stream (every entry ever added, an entry named by its
position), how many of the oldest were trimmed, the group's cursor and pending
list, what was acknowledged, the dead letters, the tables `processed_events` and
`trackers` as far as they matter, the session cache, and per worker the position
in its batch, the attempt and a program counter. An action is what happens
between two calls to Redis or PostgreSQL:

| code | actions |
|---|---|
| `RedisEventPublisher.publish` (XADD MAXLEN ~) | `Publish` |
| `StreamConsumer.run`: group creation, XREADGROUP | `Start`, `ReadBatch` |
| `_process_message`, `_process_with_retry` | `SkipUnparseable`, `Retry`, `Duplicate`, `Handle`, `HandleRaises` |
| `TelemetryPersistence.process`: commit or roll back | `Commit` |
| `_ack` in the normal path, in an except branch | `Ack`, `AckInHandler` |
| `DeadLetterQueue.send` | `SendToDlq` |
| SIGKILL, deploy, cancellation | `Crash` |
| Redis TTL and eviction | `CacheExpires` |

Each call may fail, with or without having taken effect, when its kind is in
`Faults`. `_process_with_retry` retries a `PersistenceError` only, and the only
one raised before `DuplicateEventError` is "no session factory"; the constant
`Uninitialised` names the workers for which that happens (the shipped `main.py`
starts none), so that the retry loop is exercised. Registered or not is a choice
made for each message, for a tracker may be registered or deleted at any time.

### GatewaySessions

One coroutine per connection; an action is what it does between two awaits that
suspend it (a read, the XADD, `wait_closed`): the registry's lock never suspends.
`permits` is the semaphore, `sessions`, `imei`, `active` and `index` are
`SessionManager`, `inbox` holds frames received and not yet processed, `closing` the
writers the server closed. `FinishAt` is the `finally` block of the loop up to its
first await, `Announced` and `Release` are the rest of it. Commands are routed at any
moment (`SendCommand`). Frames are abstract: what a frame does depends on its type
only. A restart (`Crash`) drops everything in memory and announces nothing.

### CommandEngine

A record per command, a program counter per dispatch, the deadline as a number of
polls of 0.05 s, the answers on their way. Every answer reads "OK", which
`_generic_ack` accepts for any command, so `HandleRx` credits the command of that
device sent last that is still SENT. The server does not call the engine yet; it
is modelled as its tests use it.

### Installations

A request is two actions: what it reads and checks (`Begin...`), what it writes
and commits (`Commit...`). The transactions run READ COMMITTED, take no row lock
and no constraint covers `tracker_assignments`, so anything may be committed in
between; SQLAlchemy sends only the columns that differ from what was loaded,
which `Write` models. A failure before the commit is `Rollback` (`get_session`). A
refused request changes nothing and is no step. `CreateTracker` and `DeleteVehicle` are atomic:
what they read does not matter to another request.

### GT06Framing, AuthTokens, Catalog

`GT06Framing`: a read of up to `MaxRead` bytes of a stream of segments; `ExtractFrames`
(in `GT06Frames`) is `extract_frames` with its loop as a recursive function of the offset.

`AuthTokens`: the login counter (INCR, then EXPIRE: two actions), refresh tokens by
row, and the browser: a cookie shared by its tabs and an access token for each.
Refresh and logout are two actions each. A refusal leaves the cookie as it was,
for FastAPI answers an `HTTPException`, and the logout route's own response,
without the deletion set on the injected one. A client without an address, and a
deployment without Redis, skip the rate limit and are left out.

`Catalog`: rows with a kind, one key each (plate or chassis stand for one another),
a status and a deletion mark, under the same two-step requests as `Installations`.

### SessionCapture, GT06Codec, Replay, Intelligence, Knowledge

`SessionCapture` follows up to two connections from `accept` through detection and
learning to the line in the day's file. `Left` is what an append can leave (nothing, a
part of the line, the line without its end, all of it), by an exception or by a crash. From the
end of a capture to the close the event loop is not given back, so `EndAppend` is
one step. `LoadSessions` and `LoadJsonl` are the two readers: one skips what does not
decode, the other refuses the file.

`GT06Codec` computes frames and their checksums bit by bit. `Replay` starts from a
sending of a device, maybe with one byte changed on the way: `accepted` is what the
gateway makes of it, `expected` the recorded TX events (the true ones, or recordings with a
TX too many, too few or altered), and `Rx` feeds the runner the bytes in reads of any
of `ReadSizes`.

`Intelligence` works out each session's profile once (`signature`), for it is a function of
the session. An analysis is three steps, for `_last_report` and `_last_clusters` are
assigned one after the other while `promote_cluster` reads them without the lock. Clusters
of equal size are ordered by the text of their keys; here any order is taken. Whether a
checksum fits is a parameter, `ChecksumFits`: `MCParts` passes that of `GT06Codec`, and the
proofs hold for any.

`Knowledge`: an upsert or an observation under the lock is two steps (the data, then
the version), and `save_snapshot` is three (name, versions, profiles) that may
fall between them. A restart loses everything but the snapshot.

### Pipeline, DeviceHealth

`Pipeline` is one device on up to two connections: `Receive` maps and stamps a frame,
`Publish` is the XADD after the await, with every field as text, `Process` is one
committed message of the worker. Faults are left to the modules of the
gateway and the worker. `registered` remembers how many entries came before the tracker
was registered: those are marked as processed without effect.

`DeviceHealth` takes every query of a request as a step, with the time its conditions
were built, and lets the clock, the worker and the back office act in between. `touched`
are the devices something happened to since the request began.

### Migrations

A schema is a set of triples table, column, kind (required, filled by the server,
nullable, unique, unique among live rows). `Upgrade` and `Downgrade` apply one
migration, in any sequence. A migration that fails changes nothing (`env.py` runs
it in a transaction) and is no step. `LegacyRow` is what the application of 002 to 006 puts into the tables;
`Operate` is the back office at the head, one whole request at a time: vehicles created, edited and
deleted, trackers created, given another IMEI or status, deleted, and installations begun or
concluded at once (`Install`), edited to any of the five statuses (`EditInstallation`, the branches of
`_apply_status_change`) and finished. `assign_tracker` and `unassign_tracker` have no route and are
left out, and so are the deletion of a customer and the type of an installation. A column that the version does not have
is `None` or FALSE.

That an installation is over is in two columns. `RowsFitSchema` asks that REMOVED and CANCELLED come with
`removed_at`, and no more: requests that overlap can leave INSTALLED over a row that has it
(`CommitFinish` in `Installations`), and the same holds of those (`ClosedIsMarked`).

## 3. What the runs check

Every run ends within its bounds; none uses a state constraint.

| run | instance | shows |
|---|---|---|
| `worker_one` | one worker, four messages, three entries, batches of two, stream bound of two, every fault | the deployed configuration: `CacheIsSound` (its two halves: ahead of the database only by what is on record, never behind it), `DeviceIsNewest` |
| `worker_two` | two workers, two messages of one dedup key, every fault but the loss of the cached positions (`expiry`) | `AckedIsAccounted`, `OneEffectPerKey`, `OneOwner`, and the refinement `DeliveredAtMostOnce` |
| `worker_live` | two workers, one without a session factory, database failures, fair | `EveryEntryAccounted`, `DlqHadNoEffect` |
| `gw_sessions` | two connections of one device, a frame of every type, three frames, a command, every fault | `RegistryIsExact` (`PermitsBalance`, `OpenIsIndexed`, `RouteReachesDevice`), `AckedIsPublished`, `StoryInOrder` |
| `gw_live` | three connections, two permits, fair | `SlotReclaimed`, `EndIsAnnounced` |
| `commands` | two commands of one device (two retries, none), one that cannot be encoded, fair | `TriesBounded`, `OutcomeStands`, `AckReported`, `EveryDispatchEnds` |
| `install_serial` | one request at a time, two trackers, two vehicles | `StockIsConsistent` (`OnePrimaryPerVehicle`, `DeletedIsFree`), and `KeepsCustody`: the refinement, and that what goes back to the stock is released |
| `parts` | one of twelve parts, which share no state but the two instances of the tables; a behaviour takes one of them | see the next table |
| `find_restart_loss`, `find_no_retry`, `find_double_booking`, `find_replay` | see section 5 | violated, as a finding says |

| part of `parts` | instance | shows |
|---|---|---|
| framing | streams of up to three of ten segments, reads of up to four bytes | `FramesArrive`: every well-formed frame once and in order, however the bytes are cut |
| identity | two tabs, three refresh tokens, one login a window, Redis and replies failing | `SessionsAreBounded` (`WindowLimit`, `RotationBounded`, `LogoutIsFinal`), `LockoutRunsOut` |
| records | two requests, three rows, two keys | `DuplicatesBounded` |
| stock | two requests at once, one of which may create, one tracker | `OneActivePerTracker`, `ClosedStaysClosed` |
| schema, shared | one vehicle, and two trackers, two IMEIs and one installation, or one tracker with two installations; every sequence of migrations and requests | `MigrationsFit`: the schema follows the version, the models fit the head, the rows fit the schema |
| capture | two connections, two reads each, every end, crash and failing write | `CaptureIsFaithful`, `StoredIsFound` |
| replay | fourteen sendings, each byte damaged in turn, four protocols, reads of 1 and 31 bytes | `ReportsSurvive`, `ClassicReplayIsExact` |
| analysis | three captures out of six sessions, one promotion | `ReportAddsUp`, `ProposalSpeaksForAll` |
| advice | one device, three versions, two profiles to upsert, restarts | `KnowledgeIsSound` |
| reporting | two connections, seven frames, three entries | `ReportsArrive`: each report once and as sent, and the two places shown agree |
| health | one device, six ticks, windows of one and two | `HealthIsConsistent` |

The parts share one run because their state spaces add up and do not multiply: the part is
chosen in `Init`, and the variables of the others are 0.

`CHECK_DEADLOCK FALSE` stands in every configuration: entries, frames, requests and
commands are bounded, so every model comes to its end.

**Bounds.** Three entries in batches of two give a full batch, a part batch and a
cursor that trimming overtakes; the messages are a position, its retransmission
after a reconnection (the same dedup key), a heartbeat and the disconnect that may
come between them. Two workers are what a duplicate needs. Two connections of a
device are what superseding needs, and the third of `gw_live` waits for a permit.
Two installations and two requests show every pair of operations that interleave.
Streams of three segments cut into reads of up to four bytes cover a cut inside a
marker, a length, a payload and between frames; the segments include payloads
that contain markers or stop bytes, wrong lengths and wrong ends. Three refresh
tokens cover a login, its rotation and a concurrent second one, or two logins. Two
captures show one that spoils the next; three sessions a cluster of two and one
beside it, in either order; two reads one byte that decides nothing and one that does. Three entries hold a report, the one
that overtakes it, and its retransmission. One device is enough for the health counts, since
no query relates two devices (two devices and five ticks were also run: nothing new).

**Fairness.** `Step`/`Run` of a coroutine is weakly fair because the asyncio loop
resumes a coroutine whose await has completed. In the gateway the reads end by
data, EOF or the idle timeout (`connection_idle_timeout`), and waiting for a permit
ends after a second; in the command engine the drain of a dead connection raises
and naps end. `Start` of a worker is fair because the container restarts
(`restart: unless-stopped`). No fairness is given to devices, to failures (a fault
never has to happen), or to a crash. `EveryEntryAccounted` assumes Redis answers and
processes stay up: without that it fails, which is the finding
`find_restart_loss`.

## 4. What is proved

Every invariant that is checked of the worker, the gateway's sessions, the command engine and the
installations is a theorem, and so are both refinements and what `parts` checks of framing,
the back office's sessions, the catalogue, the rows under migration, captures, the knowledge base, the path
of a report and health. A theorem holds for every value of
the constants that satisfies the module's assumption and the hypothesis it names.
The inductive invariants were checked by TLC first; where a property needs a hypothesis, a run
or a finding shows what happens without it.

`TelemetryWorkerProofs`: any sets of workers, devices and messages, any batch size, retry
count and stream bound, any subset of the faults, any uninitialised workers.

| theorem | states | argument |
|---|---|---|
| `TypeCorrect` | `[]TypeOK` | not inductive alone: the cursor only grows over what exists because a worker runs only once the group exists (`GroupInv`), dead letters and effects were handed out because the entry a worker is at lies in its batch (`BatchInv`) |
| `AckSafety` | `[]AckedIsAccounted` | `AboutToAck`: where an XACK comes next the entry is committed, a duplicate, not parseable, or dead-lettered. Accounts only grow |
| `Idempotence` | `[]OneEffectPerKey` | the UNIQUE column keeps it: `KeyIsFree` in `Commit`, not the check in `Duplicate` |
| `EntriesHaveOneOwner` | `[]OneOwner` | `OwnerInv`: no two workers hold one entry, and of what a worker has not begun to settle nothing became; XREADGROUP hands out above the cursor only |
| `ImplementsAtMostOnce` | `DeliveredAtMostOnce` | each step is a step of `AtMostOnceDelivery` or a stutter, from `OwnerInv` and the invariants above |
| `DeadLettersHadNoEffect` | `[]DlqHadNoEffect`, without the faults `redis` and `dbReply` | `DlqInv`: an entry on its way to the dead letters has no row. A lost reply of a commit, or of an XACK, sends an entry with an effect there, which is why the two are excluded |
| `CacheStaysSound` | `[]CacheIsSound`, for one consumer | `CacheInv`: what a worker has yet to handle is in no key, and a key that holds the entry at hand says how far it got; with `NewestInv` for the other half |
| `DeviceStaysNewest` | `[]DeviceIsNewest`, for one consumer | `NewestInv`: rows come before the entry at hand (`OrderInv`), so what the tracker took last is the newest |

One consumer is what `docker/docker-compose.yml` deploys. With two, batches are processed out of order, and neither
is promised.

`GatewaySessionsProofs`: any connections, frames and devices, any number of permits, any
faults but where said.

| theorem | states | argument |
|---|---|---|
| `TypeCorrect`, `PermitsAlwaysBalance` | `[]TypeOK`, `[]PermitsBalance` | `TypeInv`: a connection is a session exactly while its coroutine serves it (`SessionInv`), it publishes its own messages (`MsgInv`), permits and those who hold one add up (`PermitInv`) |
| `OpenStaysIndexed` | `[]OpenIsIndexed` | `OpenInv`: nobody is bound before it is accepted; whoever takes an IMEI over closes the one before |
| `RegistryStaysExact` | `[]RegistryIsExact`, each connection logging in for one device | `RouteInv`: a connection is bound to what it logged in as (`LoginInv`). A connection that changes its IMEI leaves an index entry behind |
| `AcknowledgedWasPublished`, `StoryStaysInOrder` | `[]AckedIsPublished`, `[]StoryInOrder` | `StoryInv`: until its end a connection said no disconnect, what it is about to say is newer than all it said, what it awaits the reply to it said |
| `EndsAreAnnounced` | `[]EndIsAnnounced`, without the faults `crash` and `redis` | `EndInv`: a bound connection closes after its disconnect is in the stream. A restart announces nothing and a failed XADD of a disconnect is only logged |

`CommandEngineProofs`: any commands, devices, retries (negative ones included) and deadline.

| theorem | states | argument |
|---|---|---|
| `TypeCorrect` | `[]TypeOK` | with `Counters`, the types of `written` and `answered` |
| `RetriesAreKept` | `[]TriesBounded` | `Progress` ties `written`, `attempts` and the status to where the dispatch is: a payload is written at most once per attempt |
| `OutcomesStand` | `OutcomeStands` | by `Progress` a dispatch that is over is no longer SENT, so `handle_rx` never picks its record |
| `AcksAreReported` | `AckReported` | `Waiting`: a SENT record has its dispatch in the wait, an ACKNOWLEDGED one there or over |

`InstallationsProofs`: any trackers, vehicles, requests in progress and rows.

| theorem | states | argument |
|---|---|---|
| `TypeCorrect` | `[]TypeOK` | `RequestInv`: what a request holds between reads and writes exists |
| `HistoryStands` | `ClosedStaysClosed` | `RowInv`: a row without `removed_at` has an active status. Every step is `Kept`: it takes no stamp away, not even a commit that loaded the row before it was closed |
| `ClosedIsMarked` | `[]ClosedHasMark` | from `RowInv` |
| `OneCreationOneBooking` | `[]OneActivePerTracker`, at most one request that creates | `Booked`: the tracker of a creation in progress has no active row. Without the hypothesis `find_double_booking` refutes it |
| `StockStaysConsistent` | `[]StockIsConsistent`, one request at a time | `CustodyInv`: what the request has checked still holds (`Checked`), only trackers of the catalogue were installed (`Registered`), `OnePrimary`, `DeletedIsFree` |
| `ImplementsCustody` | `KeepsCustody`, one request at a time | each commit is a step of `TrackerCustody` or a stutter, from `CustodyInv` |

`AuthTokensProofs`: any tabs, logins and tokens, and limits that are positive (`PositiveLimits`,
as the settings have them).

| theorem | states | argument |
|---|---|---|
| `TypeCorrect`, `RevokedStaysRevoked` | `[]TypeOK`, `[][Kept]_vars` | tokens that requests hold exist; a stale commit writes only what makes a token less valid |
| `LimitHolds` | `[]WindowLimit` | `WindowInv`: the passwords checked, and the logins of the window that may still check one, are no more than the counter and than the limit |
| `LockoutsRunDown` | `[][LockoutRunsDown]_vars` | `KeyInv`: a counter without a time to live has the one login that set it in progress, or is stuck |
| `RotationHolds` | `[]RotationBounded` | `RotationInv` counts: the live tokens that no refresh holds, with the refreshes in progress, are at most one more than the overlaps |
| `LogoutHolds` | `[]LogoutIsFinal` | `AloneInv`, `OutInv`: nothing is on its way that could undo a logout that was alone |
| `SessionsStayBounded` | `[]SessionsAreBounded` | the three together |

`BackOfficeProofs` has three parts that share no state. Health: any devices, windows, filters and clock
(`HealthAssumption`: the online window is the shorter one). The catalogue: any keys and rows, and
finitely many requests. Migrations: any vehicles, trackers, IMEIs and assignments
(`NullAssumption`: NULL is none of the statuses, and a tracker is given one of its own).

| theorem | states | argument |
|---|---|---|
| `TypeCorrect` | `[]TypeOK` of `DeviceHealth` | `RequestInv`: a count and a list have their fields, and no query is asked in the future |
| `CountIsComplete` | `[]NoneLeftOut` | `CountInv`: an untouched device the first k queries did not find is older than the k-th asks for, and one that a query found is old enough for it; both stay true as time passes |
| `ListIsRight` | `[]ListFits` | `ListInv`: what was fetched fits the conditions of the time they were built |
| `HealthHolds` | `[]HealthIsConsistent` | both |
| `CatalogIsTyped`, `DeletedStaysDeleted` | `[]TypeOK` of `Catalog`, `[][Kept]_vars` | a request is about a row that exists, of its kind (`FormInv`) |
| `DuplicatesStayBounded` | `[]DuplicatesBounded` | `PlaceInv`: the live rows with a key, and the requests that found it free and are about to take it, are no more than the requests; `IndexInv` for users |
| `RowsAlwaysFit` | `[]RowsFitSchema` of `Migrations` | `RowsInv`: each of its conjuncts, with the types and with what a downgrade needs of the version before: below the migration that lets a deleted tracker's IMEI be used again, no two rows share one (`ImeisDiffer`). One lemma for each migration that touches rows, in each direction, and one for each request: it leaves every row of every table as `RowsInv` asks (`VehiclesDone`, `TrackersDone`, `AssignmentsDone`) |

`PipelineProofs`: any connections, frames (`PipelineAssumption`: each has a serial number), clock and
number of entries, given `Numerals`: no two numbers are written alike, and none as no text.
TLC evaluates both on the run's instance.

| theorem | states | argument |
|---|---|---|
| `TypeCorrect` | `[]TypeOK` | `WayInv`: what is in the stream is the text of a contract or of a disconnect; `ReadAsWritten`: the worker reads of it what the gateway wrote |
| `ReportsAreStoredOnce` | `[]EachReportOnce` | `KeyInv`: the keys committed are those of the entries consumed, and of two reports only those of one frame agree in their key (`KeyIsHash`). `StoredInv`: the rows of a kind are one for each frame that is `Due` |
| `PlacesStayAgreed` | `[]PlacesAgree` | `StampInv`, `StreamInv`, `OrderInv`: a connection has one contract under way, so what it says of positions is in the order of its stamps, in the stream and in the table. `PlaceInv`: the row has the last place stored |
| `ReportsDoArrive` | `[]ReportsArrive` | both |

`ProtocolProofs` has four parts that share no state: the knowledge which protocol a device speaks, for any
devices, profiles, observations and number of versions (`KnowledgeAssumption`); the captures, for any
connections and reads; the frames in the bytes of a connection, for any streams of bytes and any size of a read
(`ByteStreams`); and the analysis of captures, for any sessions and any checksum (`IntelligenceAssumption`).

| theorem | states | argument |
|---|---|---|
| `SnapshotsHold` | `[]SnapshotHasItsVersions` of `Knowledge` | `VersionInv`: the profiles have what each version tells of, also what the one being written will tell; `SavingInv`: what a save under way has read of the list is still how the list begins. The order of the reads, versions before profiles, is what makes it hold |
| `MajoritiesAreRecommended` | `[]MajorityIsRecommended` | the observations of a device add up over its protocols, so the first in the order of counts is that of the majority, for any history; then `resolve` case by case |
| `KnowledgeStaysSound` | `[]KnowledgeIsSound` | both |
| `CapturesAreTyped` | `[]TypeOK` of `SessionCapture` | from `CaptureInv` below |
| `CapturesAreComplete`, `ReasonsAlwaysAgree` | `[]CaptureIsComplete`, `[]ReasonsAgree` | `CaptureInv`: what the recorder holds of a connection is its reads so far, CONNECT first (`Learning`), and the whole story once it ended (`ConnInv`); a line of the file is of a connection that is gone, each of another one (`FileInv`); it was closed once, for the reason recorded (`ClosedInv`) |
| `CapturesAreFaithful` | `[]CaptureIsFaithful` | both |
| `StoredIsAlwaysFound` | `[]StoredIsFound` | a stored capture that is not found stands right behind a piece without an end: an injection from those that are missed into those pieces (`EachMissedHasItsPiece`) |
| `CutsNeverMatter` | `[]CutsDoNotMatter` of `GT06Framing` | `ExtractInTurn`: extracting from two pieces in turn, keeping what the first leaves, is extracting from both at once. `FramingInv` adds that before the protocol is known nothing was taken |
| `FramesAlwaysArrive` | `[]FramesArrive` | a frame behind bytes that say nothing is taken whole (`TakesFrame`), a beginning of one is waited for (`WaitsForFrame`), and so the frames of k segments are those of k - 1 and the k-th (`TakenInTurn`) |
| `ProposalsSpeakForAll` | `[]ProposalSpeaksForAll` of `Intelligence` | `AnalysisInv`: every cluster under way, published, chosen or on disk is all sessions of one key among the first n captured, with what its first session suggests (`Made`). Sessions of one key begin alike (`SameKeySameHeader`), and a known header is worth more points than all that can tell two protocols apart otherwise (`HeaderDecides`) |

What `extract_frames` computes is a recursion over the bytes, of which the provers know nothing: that the recursive
function exists (`ParserExists`) and is the one the model chooses (`ExtractIs`), and each induction
over an offset or a number of segments, is proved from the least counterexample (`LeastNat`, `EveryNat`).

Only model-checked: liveness, which is beyond the prover (`EveryDispatchEnds`, `SlotReclaimed`,
`EveryEntryAccounted`); what `GT06Codec` and `Replay` promise, for their checksum
needs the recursive operators of `Bitwise`; that a report adds up (`ReportAddsUp`), whose sums are folds over
sets in no order, which takes an induction over data; that the schema follows the version and the models fit the head, which
no constant enters, so that `parts` visits every case there is; and the type invariant of `GT06Framing`.

## 5. Findings

- **`find_restart_loss`**: a crash between XREADGROUP and XACK, or a read whose reply is
  lost, leaves entries in the pending list. The consumer reads `>` only and nothing
  claims pending entries, so they are never processed and never dead-lettered;
  `ARCHITECTURE_PRINCIPLES.md`, `dlq.py` and ADR-002 promise no loss.
- **`find_no_retry`**: a database error is not a `PersistenceError`; it takes the
  generic branch and the entry is dead-lettered at its first attempt, where
  `ARCHITECTURE_PRINCIPLES.md` promises retries first.
- **`find_double_booking`**: two creations for one tracker that read before either
  commits both succeed, where `test_installations_api.py` expects the second to be
  refused with 409.
- **`find_replay`**: `runner.py` says that it uses the gateway's parsers and its routine for
  frames. It does for `gt06`; for `gt06_v2` each read is one frame, so a session
  whose reads cut a frame is judged DIFFERENT although the TX events are the gateway's.

Properties that are checked under a restriction because the code does not keep
them without it: `OneActivePerTracker` with at most one creation in progress;
`StockIsConsistent` with one request at a time;
`RouteReachesDevice` for connections that log in for one IMEI; `CacheNotBehind` and
`DeviceIsNewest` with one worker; `LockoutRunsOut` but for a login
that fails between INCR and EXPIRE; `AckReported` but for an acknowledgement in the
last nap before the deadline; `StoredIsFound` but for the line after one without
its end; `CaptureIsFaithful` allows capture and log to differ on a shutdown; `ReportsArrive`
but for what was sent before the tracker was registered, and, for the places, but for a report that
overtook another; `HealthIsConsistent` but for devices something happens to meanwhile;
`ClassicReplayIsExact` for bytes without the marker of the other variant. The hazards list names the line for each.

## 6. What is not modelled

The fields of packets other than login, GPS and heartbeat; entropy, histograms and hints of the
offline intelligence, and the constant tables of the knowledge base; counters and log
lines; forms and maps of the frontend; the monitoring list and other single queries; the
odometer, which nothing calls; audit rows; passwords and permissions; start-up and the seed; the
types and foreign keys of the schema; the health thread's second event loop (its effect,
an unexpected exception out of `publish`, is the fault `foreign`); the eviction of the
stream by Redis. `PROJECT.json` says for each component what is left out.

What is modelled and not proved is at the end of section 4.

## 7. How it was built

Built, in this order: the worker, since everything the platform knows passes
through it; the gateway's sessions; installations; commands; framing, identity and
catalogue; the proofs about the worker and the commands, then those about installations; then migrations, captures,
codec and replay, analysis, knowledge base, the pipeline and device health; then
the proofs about the delivery of entries, the gateway's sessions, the custody of trackers, the back office's
sessions, the catalogue, health and the path of a report; last, those about the knowledge base, the captures, the
rows under migration, framing and the analysis of captures.

What deletion leaves behind (whose vehicle a row of `Catalog` is) has no property: nothing in
the repository says what should happen.
