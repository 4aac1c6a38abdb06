# Kubanfy: TLA+ models, checks and proofs

Kubanfy is a music service: a FastAPI backend (`src/apps/api/app`) over
PostgreSQL, Redis and an object store, a polling worker, and a React Native
client (`src/apps/mobile/src`) that works offline. This directory specifies the
parts of it whose correctness depends on the order in which things happen:
requests that share rows, a worker that shares jobs and tracks with requests,
a cache whose three stores never commit together, a device that keeps its
queues in values it reads and writes as a whole, a player that two programs
command, and a schema that several containers migrate at once.

Paths below are relative to `src/`; `app/` stands for `apps/api/app/` and
`mobile/` for `apps/mobile/src/`.

## 1. The system

### How the parts interact

* **One request, one transaction.** `get_db` (`app/core/database.py:66-76`) opens a
  session per request, commits when the handler returns and rolls back on any
  exception. `init_db` (44-54) sets `expire_on_commit=False`, `autoflush=False`;
  the isolation level is PostgreSQL's READ COMMITTED. So a request reads committed
  rows statement by statement, keeps what it read in memory, writes when a service
  calls `flush`, waits for row locks while it flushes, and shows its writes at the
  commit. An attribute assigned the value it had is not written. A rollback
  expires the loaded objects, and reading an expired one outside an awaited
  session call raises.
* **Jobs are rows.** `JobService.enqueue` inserts a row in the caller's
  transaction; worker processes poll with `FOR UPDATE SKIP LOCKED` and run claim,
  handler and completion in one transaction of their own.
* **Redis only coordinates** (`app/core/locks.py:3`): the single-flight lock of the
  audio cache, and rate limits that fail open.
* **The object store does not roll back.** Masters, derivatives and cached audio
  are put or deleted at once, whatever the transaction around them does.
* **The mobile client** keeps an event queue, a download list and a track index in
  AsyncStorage, each of them read, changed and written back as one JSON value,
  and talks to the API over a network that loses requests and answers.

### Inventory

| Component (code) | State | Operations | What is hard | What makes it correct |
|---|---|---|---|---|
| Sessions and devices (`app/services/session.py`) | `sessions`, `devices` rows | login's device and session, refresh rotation, revoke one / device / all, list, expiry | counts without locks, bulk UPDATE against uncommitted rows, lock waits and deadlocks, eviction at the limit | a revoked token never works again, logout-all is complete, limits fail only through known overlaps, every request is answered |
| Authentication (`app/services/auth.py`, `app/api/deps.py`) | `users` rows, JWTs | register, login, refresh, me | status checked once per request; access tokens outlive revocation | a suspended account gets no new session |
| Request transactions (`app/core/database.py`) | a session and a pooled connection per request | begin, commit, roll back | everything below depends on it | all or nothing |
| Job queue (`app/services/job.py`) | `jobs` rows | enqueue, claim, complete, fail, cancel | unique key races, rollback of the caller's work, stale cancel | one effect per job, enqueue atomic with its caller's work |
| Worker and handlers (`app/workers`) | a claimed job per process | poll, run the handler, complete | crashes, failing handlers, a handler registry and a factory bound at import | pending jobs settle |
| Artist upload and publication (`app/services/artist_upload.py`) | `tracks.status`, master and derivative objects | upload, transcode, publish | the transcode holds what it read for minutes | a takedown holds, a visible track has its master, job and derivatives |
| Administration, moderation, audit (`app/services/admin.py`) | reports, audit rows, flags, settings, `users.status` | suspend, resolve with takedown, flags, settings | races with the owner's requests | decisions of the administrator are not undone silently |
| Payments (`app/services/payment.py`) | `payment_orders` rows | create, submit, approve, reject, list | two administrators and the payer decide on stale reads | an order is paid out once per submission, an approval holds |
| Entitlements (`app/services/entitlement.py`) | `entitlements` rows | grant, expire on listing, revoke | granted together with the approval | paid access exists if and only if it was approved |
| Lock and single flight (`app/core/locks.py`) | a Redis key with a token and a TTL | acquire, release by token | TTL lapses, Redis fails, release before the commit | one holder at a time while no TTL lapses |
| Audio cache (`app/services/cache.py`, `music_engine.py`) | `cache_entries` rows, objects, the lock | look up, acquire, store, touch, expire, purge | three stores without a common commit; entries that share an object | a live entry has its object |
| Music engine and providers (`app/services/music_engine.py`, `app/providers`) | provider registry | search, preview, download, update | provider failures; the class ends at line 267, so what follows is dead code | see the audio cache |
| Analytics (`mobile/offline/analytics.ts`, `app/services/analytics.py`) | device queue, `analytics_events` | track, flush, ingest, ingest batch | lost updates, lost answers, crashes, a batch limit | what the server accepts is recorded; an event is lost only in known ways |
| Mobile downloads (`mobile/offline/downloadService.ts`) | job list, track index, files | queue, run | concurrent loops, lost updates, restart while running | a job ends, and a completed one is in the index |
| Mobile player (`mobile/store/playerStore.ts`, `mobile/player/*`) | the store, the engine's flags, the native player's queue and events | set up, play, pause, resume, stop, the notification's controls | chains of awaits that nothing numbers, events delivered late, two programs that command the native player | what is shown is what plays |
| Mobile authentication (`mobile/store/authStore.ts`, `mobile/api/client.ts`) | the user shown, the tokens stored | hydrate, login, register, logout, choose a mode | a logout does not wait, restarts between tokens and store, any error of hydrate clears the tokens, no refresh | the user shown is the one whose tokens are sent |
| Playlists and favorites (`app/services/playlist.py`) | `playlists`, `playlist_tracks`, `favorites` rows | create, rename, delete, add, remove | check-then-insert, deletion beside an addition, positions | what was added stays until it is removed, no track twice |
| Migrations and ORM models (`apps/api/migrations`, `app/models`, `scripts/entrypoint.sh`) | `alembic_version`, tables and enum types; what each runner is about | upgrade, downgrade, serve | runs of alembic that overlap, serving while the schema moves, revisions that must fit each other and the models | an API that serves has the schema of its models |
| Anti-abuse (`app/services/anti_abuse.py`) | Redis counters | rate checks | fixed windows, fails open | a limit per window |
| HTTP ranges (`app/services/http_range.py`) | none | parse, answer | edges of the body | the bytes sent are the bytes asked for |
| Discovery, roles, storage adapters, middleware, validation, seed, portal, load tests, infrastructure | tables, files, subprocesses | I/O and declarations | - | not modelled, see section 7 |

`PROJECT.json` lists the hazards of this code, each at its line, with the
properties that cover it.

## 2. Modules

| Module | Models | Notes |
|---|---|---|
| `Sessions` | sessions, devices, login, refresh, revocation, suspension | requests as programs over rows and row locks |
| `TaskQueue` | what callers rely on of a job queue | abstract; `JobQueue` implements it |
| `JobQueue` | the `jobs` table, enqueue, the worker loop, cancel | implements `TaskQueue` by refinement |
| `Publishing` | a track from upload to publication or takedown | composes an instance of `JobQueue` with the upload, the transcode handler, publication and takedown |
| `Payments` | payment orders and entitlements | commit log relates what a request saw to what it wrote |
| `AudioCache` | download, single flight, store, cleanup | bucket, rows and Redis lock as three separate states |
| `OfflineEvents` | the device's event queue and the server's ingestion | tasks on the device and requests on the server, joined by a network that loses both ways |
| `Downloads` | the job list, the loops of `processQueue`, the track index | one value each for the list and the index |
| `Player` | the player's store, its engine and the native player | calls as chains of awaits, the native player's events as a queue |
| `AuthStore` | hydrate, login, register, logout, modes, the stored tokens | calls as chains of awaits, with restarts |
| `Library` | playlists, their tracks, favorites | each request a read and a commit |
| `Revisions`, `Models` | what each migration creates and drops; what the ORM models declare | data: tables with columns, unique columns, foreign keys and enum types |
| `Migrations` | runs of alembic by containers and shells, and serving | composes `Revisions` and `Models` with the entrypoint |
| `HttpRange` | the parser of the Range header and the endpoint's answer | pure operators |
| `SessionsProofs`, `JobQueueProofs`, `PublishingProofs`, `PaymentsProofs`, `AudioCacheProofs`, `OfflineEventsProofs` | theorems about one module each | extend it and TLAPS; `PublishingProofs` is also an instance of `JobQueueProofs` |
| `MobileProofs`, `ServicesProofs` | theorems about `Downloads`, `AuthStore` and `Player`; about `Library`, `HttpRange` and `Migrations` | extend `MCMobile` and `MCServices`, whose joint specifications they end with |
| `MC*` | small instances for TLC | constants and symmetry |
| `MCServices`, `MCMobile` | parts that share no state, in one run | a behaviour is one of the parts; the others keep their initial state |

Definitions whose name ends in a suffix (`Claim_LockIgnored`) stand next to the
definition they vary: each is that definition with one plausible bug, used to show
that the property named in `PROJECT.json` depends on it. They are not part of any
specification.

### State and actions against the code

**Sessions.** A request inserts at most one session and one device, so row *r* is
the row request *r* inserts. Requests are numbered in the order in which their
transactions start, which is the order of `created_at`. `tx[r].pc` is the statement the
request is about to run; `tx[r].wants` the row locks its flush still waits for
(`Acquire` takes one at a time, in any order); `lock` the holders. `Login` →
`LookupDevice` → `CheckDeviceLimit` are `auth.login` and
`register_or_update_device`; `Refresh` → `CheckAccount` are `auth.refresh` with
`validate_refresh_session`; both end in `CountSessions` → `RevokeOldest` of
`create_session` and in `Commit`. A bulk UPDATE takes the rows of its snapshot.
`DeadlockVictim` is PostgreSQL's deadlock detector, `Crash` everything that makes
`get_db` roll back. `req[r].before` is history: who had committed when *r* began.
`Expire(s)` is the clock: a session passes its `expires_at` after those that were committed
before it was begun, and in any order with those that overlap it. The status EXPIRED, which `validate_refresh_session` flushes, is rolled back by the
error it raises next (`ExpireSession`, `Rollback`), so that no reachable state has it: an
expired session stays ACTIVE, and counted, until it is evicted or revoked.

**JobQueue.** Jobs are numbered in the order of `next_run_at`. A worker's claim is
a row lock only: `RUNNING` and the attempt it counts are written in the same
transaction as the completion, and whatever ends that transaction early leaves the
row as it was. `FlushInsert` has the unique index: it waits for an uncommitted row
with the key, and on a violation rolls the whole session back, its caller's work
included (`work`). `FailAttempt` is the code's failing path: after the rollback
`job.id` (`runner.py:73`) is read on an expired object and raises, so
`JobService.fail` is never executed, and a job whose handler keeps raising is
claimed again at once, ahead of all others. `broken` says whose handlers raise.
`SessionFactoryBound` says whether the worker has a session factory; without one no worker
claims anything.

**Publishing.** The queue variables belong to an instance of `JobQueue` (one job per
track, its key derived from the track). `Upload` performs the queue's `Enqueue`
together with the master's `put`; `ClaimTranscode` reads the status; `FinishTranscode`
records the derivatives and writes the status it decided on, in one commit with
the job. `before` and `done` are history as in `Sessions`.

**Payments.** `Begin*` is the read and the guard, `Commit*` the flush and the commit
(no request holds more than the one row lock, so the wait between the two needs
no state of its own). `log` is the order of commits, `at` how much of it a request had
seen.

**AudioCache.** One (provider, track, quality). An object is named by its content
(the storage key is the content hash), so entries with equal content share it. A
stamp orders entries by `expires_at`; every entry is stored with the demand
"medium", so the order of the stamps is the order of the stores. `Bypass` is the
`except Exception` of `get_or_acquire` before anything was stored, `RedisLost` the
same after it, `Stale` the flush that finds its row purged. `req[r].seen` is whether the
row was READY when it was loaded: SQLAlchemy then writes no status, and a cleanup
that has marked the row EXPIRED meanwhile is not undone by the refresh.

**OfflineEvents.** JavaScript runs one task at a time and changes task at each `await`;
an action is what happens between two of them. A task is a call of `trackEvent` or
`flushAnalyticsQueue`; `held` is what only the task knows, `copy` what it read from
the storage, and `Store` the write that replaces whatever is stored by then.
`ReadQueue`/`WriteQueue` are `enqueueAnalytics`, `FlushAnalyticsQueue`/`Drain` the two
halves of `drainAnalyticsQueue`. A read that fails counts as an empty queue
(`storage.ts:27`), and the next write makes that true. `request[t]` is the request as
the server has it, which goes on when the device has given it up. `Ingest` is one
item of the batch; an insert that meets the unique index is caught by `ingest_batch`,
but the session can no longer commit, so `get_db` fails the whole request
(`Conflict`). `hazard` is history: which of the ways to lose an event have happened.

**Downloads.** Every change of the list or the index is a read and a write of the
whole (`ReadJobs`/`WriteJobs`, `ReadIndex`/`WriteIndex`, `QueueDownload`/`SaveQueued`).
`goal` is the patch a loop is about to write. A failing write inside the `try` marks
the job as failed, outside of it ends the loop. `cancelDownload` and
`removeOfflineTrack` have no caller. `hazard` is history again: `overlap` is set by a
write of the list that replaces something its writer has not read, `staleFind` by a
loop that marks a job which is no longer queued.

**Player.** Each call of the store is a chain of awaits, `call[c].pc` what it waits
for: `setup` and `options` are `tryLoadNative`, `lookup`, `preview` and `download` the
sources of `playTrack`, `reset`, `add` and `start` the three native calls of
`enginePlay`, `report` its `trackEvent`, `control` and `clear` the native calls of pause,
resume and stop. `player` is the store together with the engine's flags, `native` the
queue of react-native-track-player and whether it plays, `states` its PlaybackState events
on their way. `Remote` is a button of the notification, or a track that comes to its end:
both reach the native player without the store. `native.linked` is whether the module is
there at all; without it the engine is a no-op. `upset` is history: why the store may
differ from what plays, forgotten by a `playTrack` that begins with nothing under way.

**AuthStore.** AsyncStorage answers in the order in which it is asked, so writing tokens
and showing the user are one step (`SaveTokens`, `ClearTokens`); `AuthRestart` may come
between the two and leaves either. Hydrate runs once per start, and until it ends no
screen is there to tap. `by` is the call whose answer the store shows and `of` what it was
when a later call was made; `undone` collects the logouts that ended a login they were
not made for. All three are history and last until the restart.

**Library.** A request reads (`Asks`) and commits (`Answers`); between the two stand only
the unique constraints and foreign keys, which `CommitAdd` has as guards and
`RefuseRequest` as the answer. Favorites are a shelf that always exists. Deleting a
playlist or a row that is gone by the commit is not an error (SQLAlchemy warns).
`RenamePlaylist` changes nothing: the new `updated_at` is expired, the response reads it
outside the session's greenlet, and the request is rolled back.

**Migrations.** `runner[r].work` is the schema as r's transaction has left it, `saw` the
version it started from. PostgreSQL makes a second run wait for the locks of the first;
it then no longer finds the version that it updates and fails, which `CommitMigration` has
as a guard. `CanUpgrade` and `CanDowngrade` are what the database refuses: a table that is
there or refers to one that is not, a type in use. `image` is "deployed" (the repository as
it is: revision 011 names a missing predecessor, and `main.py` does not parse) or
"repaired" (without the first and with the second indented); `strict` is whether
`create_table` creates an enum type that the revision has created already, which
depends on the versions of SQLAlchemy and alembic.

**HttpRange.** A header is what `parse_bytes_range` has after splitting it; `Asked` is the
set of positions it asks for, `Answer` the endpoint with the storage's `get_range`.

## 3. Runs

| Run | Question | Instance |
|---|---|---|
| `sessions_safety` | do revocation, rotation, suspension and the limits hold against overlapping requests? | 1 account, 2 device ids, 4 requests, 2 at a time, limits 1 |
| `sessions_live` | is every request answered? | 2 accounts, 1 device id, 3 requests, 2 at a time |
| `sessions_device` | *violated*: no active session on a revoked device (`session.py:194`) | 3 requests |
| `jobs` | does the table implement the abstract queue, once per job, and do pending jobs settle? | 3 enqueues, 1 key, 2 workers, 1 canceller, 1 crash |
| `publishing` | is a status lost only to an overlapping reader, is a visible track backed, does an answered upload keep its track? | 2 uploads, 2 workers, 2 requests, 1 crash |
| `publishing_race` | *violated*: only a PROCESSING track becomes DRAFT (`handlers.py:110`) | 1 upload, 1 worker, 2 requests |
| `services` | what can undo an approval or grant it twice? is what was added kept, once? which schema can a serving API meet? | payments: 5 requests, 2 at a time, 1 key, 1 payer; library: 5 requests, 2 tracks; migrations: all revisions, 1 container, 1 shell |
| `services_order` | *violated*: a track added to a playlist gets a free position (`playlist.py:117`) | as `services` |
| `cache` | who can be under the lock together, and when does a live entry lack its object? | 3 downloads, 2 at a time, 2 bodies, 2 cleanups that purge one entry each |
| `cache_flight` | *violated*: one acquisition per key (`locks.py:4`) | 2 downloads, no cleanup, healthy Redis |
| `offline_events` | in which ways is an event lost, and does a retry do harm? | 2 events, 2 flushes at a time, queue of 3, batches of 2, 1 failure or restart |
| `mobile` | do queued jobs settle, does completed mean indexed, what does a restart leave? is what is shown what plays? is the user shown the one whose tokens are sent? | downloads: 2 tracks, 2 taps, 2 loops at a time, 1 failure or restart; player: 3 calls, 2 tracks, 1 undelivered event when a control is used; authentication: 2 accounts, 5 calls, any number of restarts |

`services` and `mobile` check parts that share no variable: the variable `part` says which
one a behaviour is of. Their state graphs lie side by side, so each part is
checked as in a run of its own.

**Why the bounds are enough.** Each property relates at most three committed
requests (what was there before, the request, the one that overlaps it); four
session requests give a login, a second one or a refresh, a revocation and a
request after it. The limits are one so that two creations exceed them. Five
payment requests are the shortest sequence in which an order is approved, rejected,
submitted and approved again after its creation. Three downloads with two bodies
give two entries with different stamps, of which a third request refreshes one
while a cleanup purges. Two events and a flush at the start beside one of the listener
give an append against a drain, two drains of one queue and two requests with the
same event; events sent twice come back twice, so that a queue of three is
trimmed and a batch is over its limit of two. Two loops on two jobs overlap on one job and on
different ones; one failure or restart at any point leaves every state
that one can leave. Two requests at a time (`PoolSize`) bound the overlaps, not
the length of a behaviour; `sessions_live` and `jobs` have the deadlocks and the
key races of more. Five library requests create a playlist, add to it twice, and delete
it or remove from it meanwhile. One container and one shell give every pair of runs of
alembic, and a downgrade under a serving API; the version is bounded by the revisions.
In `Player` the first call is App's `initEngine`; two more give a track that replaces
another, or a button during a `playTrack`, and each starts with the engine set up, being
set up or absent. Five calls of the authentication store are hydrate, a login, two
logouts and a second login. Symmetry is used on device ids and on bodies, in runs without
liveness.

**Fairness.** `Sessions`: a request that can take its next step takes it
(`WF(Step(r))`): handlers do not pause between statements, PostgreSQL grants free
locks and breaks deadlocks. `JobQueue` and `Publishing`: `WF(WorkerStep(w))`: the
loop polls for ever and a handler ends, by returning or raising (it waits for FFmpeg
without a timeout, so FFmpeg is assumed to end on the finite file it is given). `OfflineEvents`:
promises settle, the server works its requests off, and the device gets online again
and again, without which nothing in the code flushes; failures are finitely
many. `Downloads`: the steps of a loop. Requests have no timeout in `api/client.ts`, so that they end is an
assumption on the platform; nobody has to open the library. Nothing else is fair: no crash, expiry, request, cancellation or repair
has to happen, so `PendingJobsSettle` speaks of a pending job while neither its handler nor
one ahead of it raises (`broken \cap 1..j = {}`) and assumes no repair.

## 4. What the checks show

* A token that was revoked before a refresh began never works, whatever revoked
  it; a logout-all ends every session committed before it began. A device's
  revocation does the same for the device, but a refresh that overlaps it can
  leave a new active session on the revoked device (finding, `sessions_device`).
* The limit of sessions can be exceeded only by two overlapping creations of which
  one has no device id (or is a refresh); logins with a device id are serialised
  by the flush that writes `last_login_at` (`LimitExceededOnlyByUnlockedCount`).
* An expired session is never recorded as EXPIRED, because the error that reports it rolls
  the status back, and goes on counting against the limit (finding). It costs no usable
  session its place: what is evicted at the limit is the oldest, which expires first, unless
  the creations overlapped (`EvictsExpiredFirst`).
* A job takes effect at most once although nothing but the row lock protects it,
  and a cancel that overwrites `COMPLETED` changes the status only. The worker as
  started by its documented command runs no job at all (finding). With that repaired, a
  failed job gets no backoff (finding): a job settles unless one ahead of it, or its own,
  keeps raising (`PendingJobsSettle`, `UploadsLeaveProcessing`), an exception that is needed.
* An enqueue that only flushed leaves no job behind when its caller fails, and no worker sees
  the job before its caller's work (`EnqueueIsAtomicWithWork`). But the loser of a race for a
  key is answered with the winner's job and commits without what it had flushed before
  (finding). Uploads cannot lose such a race, because their key is made from their new
  track: who is answered has the track, with a job of its own (`AnsweredUploadHasItsTrack`).
* A takedown is undone only by a publication or a transcode that had read the
  track before it; the transcode does so for as long as FFmpeg runs
  (`publishing_race`).
* An order is paid out twice only by overlapping approvals or after a new
  submission; an approval is undone only by a later reject or by an overlapping
  submit. A reject of an approved order leaves its entitlement in place.
* Two downloads are under the single-flight lock only after its TTL lapsed for one
  of them. That is not one acquisition: the lock is released before the commit
  (`cache_flight`), and the provider's `resolve` is called before the lock is asked
  for (`music_engine.py:216`). A live entry lacks its object only when the content
  had a second entry, or was stored while a cleanup had it on its list; both
  exceptions are needed.

* A tracked event is lost only when two accesses to the queue overlap, the cap cuts it,
  or the storage fails or the application dies while it is in memory; it is
  recorded in the end unless one of these happens or a batch exceeds the server's
  limit: 500 events may wait and 100 are accepted, so a longer queue is refused and
  queued again for ever (finding). The overlap needs no failure: one event tracked
  while a flush drains is enough (finding). All these exceptions are needed, the cap and
  the batch limit where they are smaller than the number of events.
* `ingest_batch` seems to skip what fails and to accept the rest; because the failed
  flush spoils the session, an accepted request has recorded everything. Sending
  again meets the unique index only beside a request that is still in progress.
* Queued downloads settle without anybody opening the library, unless writes of
  the list overlap, the storage fails or the application dies. A job that was running then is never
  taken up again, by the retry button or otherwise (finding). Overlapping writes of the
  list alone drop a queued job, or put a finished one back to running (finding), but what is
  completed stays indexed.
* Once everything has been answered and delivered, what the player shows is what
  plays, unless a call met another one under way, the engine was set up twice, a
  rejection was swallowed, a track came to its end (`Ended` is not handled, finding)
  or an error is shown. All these exceptions are needed.
* The user shown is always the one whose tokens are stored; a login is undone by a logout
  made for an earlier one only if logout was tapped twice, because the button does not
  wait. The logout's request goes to an endpoint that does not exist (finding).
* A track or favorite that was answered for is on its shelf until it is removed or the
  playlist deleted, never twice, although nothing locks. Its position is not its own:
  the second track gets the position of the first without any overlap
  (`services_order`).
* The revisions create exactly the tables, columns, unique and foreign keys and enum
  labels of the ORM models, and each can be undone after the next. However runs of
  alembic overlap, a serving API has its schema unless somebody downgraded after it read
  the version. From the repository as it is nothing serves (findings).
* The parser of ranges and the endpoint agree with the set of bytes asked for.

Every property has at least one variant of a mapped definition under which TLC
finds it violated.

## 5. What is proved

The proofs hold for every value of the constants that satisfies the module's named
assumption.

`SessionsProofs` (from `SessionsAssumption`):

* `TypeCorrect`: `Spec => []TypeOK`. The type includes that only a request in flight holds a row
  lock (`HeldInFlight`).
* `TokenSafety`, `LogoutAllSafety`, `DeviceSafety`: `ReplayedTokenRejected`,
  `LogoutAllIsComplete` and `RevokedDeviceStaysOut`. None is inductive alone. Two
  invariants carry them. `Shaped`: a row exists only once the request that inserts
  it has committed, each request stands at a statement of its own kind, and whoever
  committed before a request began stays committed. `SafetyInv`: what a committed
  request revoked is revoked for good (`RevokedInv`), and what had been committed when
  a logout-all or a device's revocation began is in the rows it will revoke or
  already out of reach (`LogoutInv`, `DeviceInv`), because the bulk UPDATE runs
  after the beginning; `TokenInv` and `LoginInv` say the same of a refresh's token
  and of a login's device. Every action is first shown to have one of five shapes
  (`Begins`, `Moves`, `RollsBack`, `Commits`, `Idles`), and each invariant is
  shown of the shapes. The three that follow also need what each statement does
  (`StepRuns`: a move obtains a row lock or runs one statement).
* `SuspensionSafety` (`SuspensionBars`) by `AccountInv`: only a request of the account waits
  for its row or holds it; a suspension that does neither has left the account suspended,
  up to an unsuspension it had not seen; and a creation past its account check
  has found every suspension it had seen undone.
* `DeviceTableSafety` (`DeviceTableRacesOnlyByOverlap`) by `DeviceTableInv`: a login that is to
  register its device has not found it among the devices committed before it began, and
  of those fewer than the limit are active (`LookedInv`, `RoomInv`). A device beyond the
  limit, or the second row of a device, is therefore one it had not seen.
* `LimitSafety` (`LimitExceededOnlyByUnlockedCount`) by `LimitInv`: what a creation counted
  makes room for its session until it commits, unless another creation of the user
  has committed meanwhile and one of the two has no `device_id` (`CountInv`). A login
  with a `device_id` holds the user's row from its count to its commit (`LockedInv`), so
  two of those cannot do that to each other. That evicting one session is enough needs the
  limit to have been kept (`AtMostInv`) and a least element of the active sessions.
* `ExpiredFirst` (`EvictsExpiredFirst`) by `OrderInv` and `ExpiryInv`: a request sees only requests with
  smaller numbers, and of an expired session everything committed before it was begun has
  expired or is no longer active. The evicted session has the least number among the active
  ones, so that an expired one that stays behind overlaps it.

`JobQueueProofs` (from `JobQueueAssumption`):

* `TypeCorrect`, `EffectOnce` (`ExactlyOnce`), `EnqueueAtomic`
  (`EnqueueIsAtomicWithWork`), and `Refinement`: `Spec => ImplementsTaskQueue`.
* The inductive invariant `QueueInv` is a conjunction: `LockInv` (a held job is
  pending and held by one worker), `EffectInv` (the attempts counted fit the
  status), `RowInv` and `AnswerInv` (a row is there once its caller committed, with
  the caller's work; an answer names a row with the caller's key, its own or a
  committed one), `KeyInv` (one committed or inserted row per key) and `CancelInv`
  (a canceller holds a committed row). `LockInv` needs the claim's `SKIP LOCKED` and
  the canceller's wait for the row lock, `KeyInv` the unique index; `EffectInv` then
  gives `ExactlyOnce`.
* `Refinement` maps a job to "absent", "queued", "withdrawn" or "effective"
  (`Phase`); commits of callers, workers and cancellers are the abstract steps,
  everything else leaves every job's phase and key alone (`Quiet`).

`OfflineEventsProofs` (from `OfflineEventsAssumption`):

* `TypeCorrect`: `Spec => []TypeOK`, with the cap on the stored queue. It needs two
  more facts: a task that sends or queues holds an event (`Holding`, else `Head`
  has no value) and a request starts at its first event (`Forward`).
* `AcceptedRecorded` (`AcceptedIsRecorded`) by `AcceptedInv`: the events an open request
  has gone through are recorded or among its fresh ones, so its commit records the
  rest.
* `ConflictNeedsRival` (`ConflictOnlyByRival`) by `RivalInv`: open requests with an
  event in common have both met a rival, from the moment the later one arrives; an
  event that becomes recorded while a request holds it as fresh was therefore
  recorded by a rival.
* `NothingLost` (`LostOnlyByHazard`) by `KeptInv`: while no hazard has occurred, every
  tracked event is recorded, queued or in a task's hands, and a request that a task
  waits for carries exactly what the task holds, so its answer lets nothing else go.

`MobileProofs`, the downloads (from `DownloadsAssumption`):

* `DownloadsTypeCorrect`: `Spec => []TypeOK`; every action of a loop is shown to lead to a
  sound state of that loop (`LoopMoves`), and the rest is one lemma.
* `InterruptedStays` (`InterruptedIsStuck`): from the types alone, action by action.
* `CompletedBacked` (`CompletedIsIndexed`) by `AllBacked`: while the index is
  undisturbed, the stored list *and every copy of it that a loop or a tap is about to
  write back* have their completed jobs in the index. That is why a stale copy does
  no harm here: the index only grows.
* `OneLoop` (`OneLoopPerJob`) by `HeldOnce`: as long as no write of the list has replaced
  something unread and no loop has marked a job that was not queued, the job a loop holds
  is marked as running in the stored list, no other loop holds it, and no tap is about to
  queue a job that was marked when it read the list. The mark is all that keeps two loops
  apart, so the invariant follows every value that could take it away.

`PaymentsProofs` (from `PaymentsAssumption`):

* `TypeCorrect`: `Spec => []TypeOK`.
* `CreateOnce` (`CreateIsIdempotent`) by `KeyInv`: no key has two orders, because the insert
  checks the unique index at its commit.
* `ApprovalHolds` (`ApprovalHoldsUnlessUndone`) by `ApprovedInv`: what an approval left
  stands until a commit that undoes it is in the log, and the order is open to a review
  again only after a submission. A submission in flight that has seen the approval has
  seen it undone too (`SeenInv`), so its commit undoes nothing by itself.
* `SecondApproval` (`SecondApprovalNeedsRaceOrResubmission`): a second approval that has seen
  the first one has also seen a submission since (`SeenInv` again, which holds because
  the guard was evaluated on exactly the log that the request has seen). `LogInv` says
  that who is in the log was answered and began before. Every action either leaves orders
  and log alone (`QuietKeeps`) or appends one commit (`CommitKeeps`).

`MobileProofs`, the authentication store (from `AuthStoreAssumption`):

* `AuthTypeCorrect`: `AuthSpec => []AuthTypeOK`.
* `UserMatches` (`UserMatchesToken`). Shown and stored agree only between the awaits, so the
  induction says what each call in flight may rely on: there is one hydrate, until it ends
  nothing else awaits and nobody is shown, and the user it fetches is the one of the stored
  tokens (`HydrateInv`); while a login or a registration awaits, nobody is shown, the store is
  loading and no second one is under way (`LoginInv`); and a logout that awaits belongs to
  the session that is shown, unless logout was tapped twice (`LogoutInv`).

`MobileProofs`, the player (from `PlayerAssumption`), and the three together:

* `PlayerTypeCorrect`: `PlayerSpec => []PlayerTypeOK`.
* `ShowsIt` (`ShowsWhatPlays`) by `ShownInv`. The property speaks of states in which all has
  been answered and delivered; the invariant says what holds on the way there. `CallInv`
  and `LoadInv`: what a call is about at each of its awaits, and that nothing has been shown or
  played before the engine is loaded. `PlayInv`: while nothing has upset it, one call at most is
  under way; if it is, `OnItsWay` says how far it has got (what `reset` and `add` have left in the
  native queue, what the store shows meanwhile), and if none is, `Agrees` holds: the queue is the
  current track, the last event under way tells whether it plays, and with no event under way the
  store says so too. `NotTwiceIsOne` turns the property's `~SetUpTwice`, a cardinality, into the
  uniqueness the induction uses.
* `MobileTypeCorrect`: `MCSpec => []MobileTypeOK`, from the invariants of all three.

`ServicesProofs`, the library (from `LibraryAssumption`):

* `LibraryTypeCorrect`: `LibrarySpec => []LibraryTypeOK`.
* `LibraryKeeps` (`KeptOnceUntilRemoved`) by `LibraryInv`: a row belongs to the addition that
  inserted it and was answered (`RowInv`); what an answered addition inserted or found is
  there or was taken away (`KeptInv`); rows stand on shelves that exist (`BackedInv`, which
  needs the foreign key and the cascade), and no two have shelf and track in common
  (`UniqueInv`, from the unique keys, because the check precedes the insert by a
  statement). `RowInv` also carries that every position is 0, and `PositionZero` derives from it
  that the next one is 0 again: what `services_order` shows once, happens always.

`ServicesProofs`, ranges: `RangeExact` and `AnswerExact`, for every header and every size of the body:
a range is found exactly when some byte is asked for, and what is sent is what was asked
for, in one piece and as long as announced. `ClampedIs` carries both: what is left of a
range is its part inside the body. `MCServices` evaluates the two on small headers.

`ServicesProofs`, the migrations (from `MigrationsAssumption`), and the three together:

* `MigrationsTypeCorrect`: `MigrationsSpec => []MigrationsTypeOK`: the committed schema and the
  one in every open transaction are those of some version. This rests on the eight revision
  files: each drops what it creates and uses the types it labels (`FilesAgree`), and no two share
  the name of a table or type (`FilesApart`), so an upgrade leads from one version's schema to the
  next one's and a downgrade back (`UpgradeLeads`, `DowngradeLeads`).
* `ServesSchema` (`ServesItsSchema`) by `MigrationsInv`: a run that started from the head, and a
  container that has come to it, find the head unless somebody has downgraded since
  (`HeadInv`, which needs that containers only go up, `GoalInv`); from the repository as it is
  nobody passes alembic's start (`NotLoadable`), and where types are created twice nobody
  passes revision 004 (`StrictStops`, `BlockedInv`). `HeadHolds`, from the files and the models
  one by one, says that the head's schema is that of the ORM models.
* `ServicesTypeCorrect`: `MCSpec => []TypesOK`, from the invariants of payments, library and
  migrations.

`PublishingProofs` (from `PublishingAssumption`):

* `UsesQueue`: `Spec => Queue!Spec`: every step of an upload, a worker or a crash is a step of
  `JobQueue` as it is instantiated here, and a request leaves the queue alone. `QueueFacts`
  is the corresponding instance of `JobQueueProofs`, so that `QueueInv` holds without a second
  proof (`QueueInvariant`); the steps below may assume it.
* `TypeCorrect`: `Spec => []TypeOK`.
* `TrackBacked` (`TrackIsBacked`) by `UploadInv` and `BackedInv`: an upload stores the master before
  it enqueues; the track, its job and its derivatives come and change in one commit.
* `TakedownHolds` (`TakedownHoldsUnlessRaced`). A writer writes what it decided on when it read, so
  the invariant speaks of readers: whoever read something else than the takedown, although the
  takedown had been committed, read what a race had left (`SeenInv`); and a takedown that a request
  has read, if it is gone, was undone by somebody the request overlaps (`LostInv`).
* `AnsweredUpload` (`AnsweredUploadHasItsTrack`): the queue's `AnswerInv` and the key of an upload
  (`UploadInv`) leave an answered upload no other job than its own.
* `DraftOnlyByTranscode` (`DraftAfterRequestOnlyByTranscode`): as long as a track is PROCESSING, no
  request that read it has committed (`ProcessingInv`), so that a transcode which has read
  PROCESSING had read it before every such commit (`TranscodeInv`).

`AudioCacheProofs` (from `AudioCacheAssumption`):

* `TypeCorrect`: `Spec => []TypeOK`.
* `SingleFlight` (`SingleFlightUnlessLapsed`) by `FlightInv`: who is in the factory holds the lock or
  its lock ran out, because a release compares the token.
* `LiveBacked` (`LiveEntriesAreBacked`) by `BackedInv`. The property is about committed entries; the
  invariant must say it of what is on its way too: what a download has put in the bucket and not
  yet committed is there or accounted for (`StoredInv`), what a cleanup has on its list and is
  served again has crossed a download (`ListedInv`), two rows with one content are twins
  (`TwinsInv`), and a refresh writes the content that its row has, as long as the row is there
  (`UpdateInv`). The stores and refreshes, the hits and abandonments, and each step of a
  cleanup and of its rollback are shown to keep all of them together (`MovesInv` for the
  steps that change one download only).

**Only model-checked.** Liveness (`RequestsAreAnswered`, `PendingJobsSettle`,
`UploadsLeaveProcessing`, `TrackedIsRecorded`, `QueuedJobsSettle`), which is out of
the prover's reach, as is `ENABLED`. Every other property of the passing runs, type invariants
included, is proved; the types of `Publishing` are proved only. The four runs that expect a violation show what is not true. Induction
over data and RECURSIVE operators are out of reach too; no module has any.

## 6. Assumptions of the models

* The database is PostgreSQL at READ COMMITTED with its row locks, unique indexes
  and deadlock detector; Redis executes single commands atomically.
* `app/main.py:75` starts a line in column 0 inside a function, so the API does not
  import as it stands; the models describe the endpoints as if that line were
  indented. `app/workers/runner.py` is modelled with the factory bound and the handlers
  registered. Started as `python -m app.workers.runner` it has neither: it imported the
  factory while it was None, and handlers register with the module `app.workers.runner`
  while the process runs `__main__`.
* All sessions get the same lifetime, a setting, from one clock: of two that do not overlap
  the earlier one expires first.
* Nothing in the code enqueues `CACHE_CLEANUP`; `AudioCache` lets an operator do it
  any number of times up to `MaxCleanups`, one cleanup at a time.
* A transaction is short against the hours an entry lives: an entry does not
  expire before the transaction that stores it has ended.
* A provider may return different bodies for one track at different times; the
  code hashes them, so it provides for it.
* A request is answered after its transaction has committed, as FastAPI does from 0.106
  to 0.117. `pyproject.toml:15` admits later versions, in which a dependency ends after the
  answer is sent; `AcceptedIsRecorded` would not hold there.
* Nothing calls `JobService.cancel`; `JobQueue` has it as an operation of the queue, with any
  number of callers.
* AsyncStorage reads and writes one value at a time, atomically, in the order it is asked.
* react-native-track-player delivers its states in order; `setupPlayer` rejects when the
  player is up; a track plays to its end only while nothing resets it.
* alembic runs an upgrade or downgrade in one transaction (PostgreSQL's DDL is
  transactional), and the second of two that overlap fails on the version row.
* The library has one user: what is refused to others changes nothing.
* Where only one row is locked and nothing is read after the flush, the flush and
  the commit are one step.

## 7. Not modelled

Password hashing and JWT encoding (a token is the session it names), e-mail
verification, formats and texts, the static tables of roles and permissions,
read-only queries (discovery, listings, search), FFmpeg and FFprobe (they end or
raise), storage adapters (a set of stored objects), metrics and logging, schemas,
seed data, the portal, load tests and infrastructure. The rate limits are counters in Redis
that only refuse; roles are static tables whose seeding raises on an empty database
(finding). At the limit of sessions a refresh evicts the oldest session besides the one it
rotates (`session.py:109`); `Sessions` has it, and no property says whether it is wanted.
`JobService.fail`, `JobService.cancel` (modelled all the same), `CacheService.mark_processing`, `lookup_by_track`,
`EntitlementService.revoke`, `single_flight_with_result` and
`cancelDownload`, `removeOfflineTrack` and `refreshMe` are not reached by any caller;
`MusicEngine.download_by_track_id` does not exist where it is called, so the streaming
endpoint answers 404 before it comes to its range.

## 8. Plan

Order of work, most important first:

1. `Sessions`, `TaskQueue`/`JobQueue`, `Publishing`, `Payments`, `AudioCache` with
   their runs; the proofs of `Sessions` and `JobQueue`. *Done.*
2. `OfflineEvents` and `Downloads` with their runs and proofs. *Done.*
3. `Player`, `AuthStore`, `Library`, `Revisions`/`Models`/`Migrations` and `HttpRange`, in
   the runs `services` and `mobile`. *Done.*
4. Extensions: registration's e-mail race and `get_current_user` in `Sessions`;
   moderation reports and audit rows in `Publishing`; URL-based sources and several keys
   in `AudioCache`; the rate limits' counters against their "sliding window".
5. Proofs of `Payments`, `AuthStore`, `Library`, of `OneLoopPerJob`, of what was left of
   `Sessions`, and of `LostOnlyByHazard`. *Done.*
6. Proofs of `AudioCache`, `Publishing` (over the proofs of `JobQueue`), `Player` and `Migrations`,
   and of the joint types. *Done.*
7. Further proofs: what the weak-fairness arguments of the liveness properties rest on, as safety
   (a pending job that no worker holds can be claimed; an event in the queue is sent by the next
   flush); that the chain of revisions never stops halfway when types are not created twice.
