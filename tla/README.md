# Verification of Project Atlas

TLA+ models of the parts of Project Atlas in which several processes, a remote
server and crashes meet, TLC configurations that check them on small instances,
and TLAPS proofs for every instance.

## 1. The system

Atlas runs a home media installation. A FastAPI service (`apps/api`) and a
browser portal (`apps/portal`) sit over a Python library (`atlas/`), shell
commands (`scripts/`) and optional modules (`modules/`). There is no database:
state is kept in JSON files that several processes share through `flock`, PID
files and rename, and in remote services (Jellyfin, Dispatcharr with Redis).
What is hard to get right is therefore how those files, locks and remote calls
interleave and what a crash leaves behind.

| Component | State | Operations | What must hold |
|---|---|---|---|
| Sports resource pool, `atlas/sports_resource_pool.py` | leases of upstream connections in a JSON file under `flock` | acquire, heartbeat, release, snapshot | a source is never oversubscribed; a shared lease is not freed by time; an expired shared lease fences new joins |
| Session registry, `atlas/sports_session_registry.py` | live sessions and the lease behind each | admit, heartbeat, release, listings | per-user limit; a released session does not come back |
| Jellyfin stream ledger, `atlas/jellyfin_live_streams.py` | a write-ahead row per opened stream | open, heartbeat, release, reap, operator recovery | no close takes another viewer's consumer; no open stream is forgotten; unknown outcomes latch |
| Live playback routes, `routes/v1/sports_playback.py` | none of their own | start, heartbeat and release a session over the three stores | reservations outlive the streams they cover |
| Task scheduler, `atlas/scheduler.py`, `scheduler_cli.py` | task rows and history in one file, three locks | register, remove, run due tasks | one run at a time, none during a deployment, no invented success |
| Atomic JSON state, `atlas/atomic.py`, `state.py` | a file and its temporary file | save, load | a reader finds a whole document |
| Generation authority, `overlay/apps/proxy/live_proxy/generation_authority.py` | owner, grant, epoch, generation and chunks of a channel in Redis | acquire, activate, release, publish | a superseded generation writes nothing |
| Reservation ledger, `overlay/apps/m3u/reservation_ledger.py` | reservation records, owner keys, counters, aliases, session hashes in Redis | reserve, switch, activate, bind, join, leave, stop, release, clean up | counters equal reservations; a running stream keeps its reservation |
| Live proxy channel, `overlay/apps/proxy/live_proxy/server.py`, `input/manager.py` | what each worker remembers of a channel, and its provider connection | set up, connect, publish, renew, stop, clean up | one provider connection per channel, and it is paid for |
| Media requests, `atlas/media_requests` | request registry, submission attempts, the provider's own requests | create, submit, recover, refresh, promote, cancel, delete | nothing is sent or acquired twice; no request goes back |
| Submission events, `atlas/media_requests/submission_events.py` | outbox in the registry, event journal | enqueue, publish, confirm, acknowledge | one durable line per event; every event is delivered |
| Cleanup, events, invitations, deployment journals | JSON documents and journals | | see section 7 |
| Portal, collectors, analytics, providers, shell orchestration | | | not protocol logic |

How they meet: a live-session request calls pool, registry and ledger in that
order, and the ledger calls Jellyfin while it holds its lock. The player then
sends heartbeats and a release to the API, and a background task of the API
reaps expired streams every 15 seconds. A live channel takes its owner key and
grant from the authority and its capacity from the ledger; the workers of the
proxy share nothing but Redis. A media request is sent to Jellyseerr by the API or
by the scheduled reconciliation, which also recovers unknown outcomes and delivers
the events of the outbox. A systemd timer starts the scheduler
every minute; deployments share its outer lock. Scheduler, profiles, favourites
and others save through `atlas/atomic.py`.

## 2. Modules

| Module | Models | Size of a step |
|---|---|---|
| `SportsResourcePool` | the pool | a call is two steps: arguments and clock (read *before* the lock), then the locked section |
| `JellyfinLiveStreams` | ledger and Jellyfin | local methods are one step; a remote call is two, with the lock held between them |
| `SportsSessionRegistry` | registry methods over one table | one step each |
| `SportsLivePlayback` | the routes, composing the three above | one step per call on a store; open, heartbeat and release of one session are separate threads |
| `SchedulerLocks` | flock, durable deployment lock, PID file | every file operation of the PID lock is a step |
| `TaskScheduler` | the scheduler's file | every load and every save is a step |
| `AtomicJsonState` | `write_text_atomic` over inodes | open, write, rename, clean up |
| `FencedStream` | abstract: a stream that one term at a time may write | |
| `GenerationAuthority` | the authority's Lua scripts and key expiry | a script is one step |
| `ReservationLedger` | the ledger's Lua scripts over the authority's keys | a script is one step; any caller, any handle |
| `VerifiedLiveChannel` | the workers of the proxy over both | every Redis call and every step of the stream thread and of `stop_channel` |
| `SubmissionEvents` | outbox, journal, delivery | lock and scan, write, fsync, acknowledgement |
| `MediaRequests` | registry, service and provider, with `SubmissionEvents` | a registry operation under its flock is one step, a provider call is at least two |
| `...Proofs` | theorems; `LiveProxyProofs` is about the authority, the ledger and the channel, `MediaRequestsProofs` about the requests and their events, each other one about the module it is named after | |
| `MC...` | instances for TLC | |

Names follow the source. An operator named `...Mutant` is a deliberately wrong
variant of the definition that follows it; no specification uses it. It records
which mistake in the code the properties would notice.

### SportsResourcePool

`leases` is the file. `calls` holds what each caller captured before it waited
for the lock: arguments, configuration, `now`. `Acquire` is the locked section
of `acquire`: prune, user limit, scan of the ranked candidates, insert.
`AcquireRefused` leaves the file as it was, because the code raises before it
writes; `OwnedMissing` and `Snapshot` write the pruned table, as the code does.
`Reconfigure` changes the sharing canary or a capacity between calls. `issued`
stands for the freshness of random lease ids. `Crash` is a death before the
rename; a death after it is the action followed by silence. The optional
`user_limit = None` is not modelled, since the route always passes a limit.

### JellyfinLiveStreams

`streams` is the ledger, `op` the remote call under way (whoever waits holds the
`flock`), `consumers` Jellyfin's count per stream id, `late` a call Jellyfin has
yet to act on after the caller gave up. That Jellyfin may give one id to several
viewers, and that a close removes one consumer of the id, is how the code
describes it (`close_live_stream`, the comment in `_close`). A call without a
usable answer (`CallFails`, `Crash`) may have had no effect, its full effect, or
a late one. `ReconcileFailedOpen` is the operator procedure; the evidence it
demands is modelled as the restart of Jellyfin (`JellyfinRestart`), and the
checks of digests, archives and file modes are left out. The transcode stop in
`_close` is part of the remote close: it fails or succeeds before it.

### SportsLivePlayback

`pc` places each thread of each request; session and lease ids are fresh, so the
request stands for both. The lookups before the first reservation are `Refuse`
or pass. `Abandon` ends a thread anywhere: the process died, or a store raised
an error. Clock reads and locked sections of the stores are one step here,
because `SportsResourcePool` studies that window by itself.

### SchedulerLocks and TaskScheduler

`durable` is the lock directory together with the status of the transaction that
owns it, because a rollback and the recovery commands are admitted by that status;
the recovery commands take no flock. `SchedulerLocks` models who may execute;
`TaskScheduler` relies on its result (one runtime at a time) and models what the
runtime and the unlocked commands do to the file. `sync` is a sequence of `register`
and `remove`. A row that `_record` creates for a missing task has the callback
`"none"` and no interval; one whose text `shlex.split` rejects is `"malformed"`, and
`register` accepts it.

A run that dies between `os.open` and `os.write` of the PID file (`Crash` at
`"created"`) leaves an empty file. It names no owner, `_remove_stale_lock` refuses it,
and every later run ends there until an operator removes it:
`docs/architecture/SCHEDULER_RECOVERY.md` demands exactly that block. Only a file that
records a dead pid is reclaimed. That nobody else gets the pid which the file names is
an assumption (the guard of `TakeFlock`).

A pass takes the tasks of its list in the order of their names (`Turn`, `Place`).
`_execute` has exits by exception: no usable command, before anything is recorded
(`NoCommand`), and an exception of `subprocess.run` other than `OSError`
(`CallbackRaises`), which leaves the task marked as running. Both end the pass
(`PassAborts`), without bound, and the tasks behind wait for the next one. A task that
raises in every pass therefore starves the tasks behind it; `DueIsTried` names this
exception (`StoppedAhead`).

### GenerationAuthority and ReservationLedger

The Redis keys are the variables and every Lua script that writes is one action;
the scripts that only read are the guards of what their callers do. A key with a
TTL may vanish at any time (`ExpireGrant`, `DropOwner`, `ExpireChunk`), which covers
every renewal that comes too late. Callers are not restricted: any token, owner,
epoch and destination may be presented at any time, so every handle and advisory
read may be arbitrarily stale. The token of a grant is fresh for every epoch, so
the epoch stands for it. The numeric and shape checks of the ledger's scripts
(status -2) are the guard `Counted`. VOD viewers (`watch`) and timeshift playbacks
(`play`) stand for the streams in the session managers of Dispatcharr, which are
not in this repository: they call a script with the handle they were given, die
without calling, and lose their session hash. `migrate_from_v1` is not modelled.

`FencedStream` is what a channel's media promise to a viewer whoever produces it:
terms are numbered upwards, at most one is open, only the open one appends, chunks
may be lost and are never rewritten. Grants are the terms.

### VerifiedLiveChannel

`loc` is what a worker remembers: owner lease, selection, manager, and where its
request (`pc`), its stream thread (`mgr.step`) and its `stop_channel` (`stop`)
stand. The three run concurrently. A call on the ledger takes effect with its
answer arriving or not, or is refused. `leaked` holds provider connections that no
variable of the worker refers to any more. The cutover has happened; transcoding,
clients, the legacy branches and the retention of a stopped channel are left out.
`_clean_redis_keys` raises in ledger mode, so a stop without a selection ends there;
an exception during initialization appears as `StopChannel`.

### MediaRequests and SubmissionEvents

`requests` and `attempts` are the registry, `ext` the provider. `op[p]` is the
service call process `p` is in, with the record, the attempt and the answer it
carries from one registry operation to the next; every write compares what was read
(`Replaceable`, `Bindable`, `Submittable`). A submission may be answered, answered
with an id the provider already knows (`PostMerged`), or lost (`PostLost`), and a
lost one may arrive later (`LateArrives`); a lost cancellation may have had its
effect. Provider errors end a call like a crash (`Fail`), a bounded number of times.
The routing check and `_validate_effective_profile` may refuse a receipt as often as
they like (`VerifyRefused`, unbounded): there is no managed item before the provider
approves the request, and a changed routing or another profile is refused for ever.
Such an item stays permanently unverified, as `scheduled_reconcile.py` expects.
Requests with an audio preference go through receipt recovery, the others take the
legacy path, which does not look at receipts. An audio request for a whole series is
refused at submission and stays `PENDING`. `repository.delete` has no caller in the
services; `Delete` is kept, because the repository offers it and its guard
protects the attempts. Assumed of the provider: a request it has closed stays
closed, ids are not reused, and a cancellation does not arrive late.

`SubmissionEvents` appends under a non-blocking flock; a power loss takes lines that
were not synced and may leave a part of one. The lines of other publishers, the size
budget and the file mode of the journal are left out: an oversized journal or a
malformed foreign line refuses every event until it is repaired, and
`EventsDelivered` speaks of a journal without them.

### AtomicJsonState

Paths name inodes, and a writer keeps writing to the inode it opened. `Serialized`
says whether the callers hold a lock around the save.

## 3. Runs

| Run | Result | What it shows |
|---|---|---|
| `resource_pool` | pass | `AllocationsWithinCapacity`, `UserWithinLimit`, `TimestampsConsistent`, `LeavesByOwnerOrExpiry`, `ExpiredSharedIsFenced` with two callers whose locked sections run in any order |
| `live_streams` | pass | `NoConsumerStolen`, `EveryConsumerRecorded`, and `ExpiredIsReaped` |
| `live_playback` | pass | `SharedReservationCoversStream`, `ConsumersReserved`, `SessionNamesLease`, `ReleasedStaysReleased` |
| `scheduler_locks` | pass | `ExecutionExclusive`, `NoExecutionDuringDeployment`, `AbandonedPidFile`: the PID file of a dead run is reclaimed when it records the dead pid, and never taken for stale when it is empty |
| `task_scheduler` | pass | `NoSyntheticSuccess`, and `DueIsTried`: a due task is executed again unless it or a task before it ends the pass with an exception |
| `atomic_state` | pass | `PathHoldsWholeDocument`, `SavesSucceed` for serialized callers |
| `ledger_live` | pass | `CountersExact`, `ReservationsLinked`, `SwitchFencesUpstream`, and the refinement `ImplementsFencedStream`, for generic and live reservations |
| `ledger_sessions` | pass | `CountersExact`, `StreamsHoldCapacity`, `OnePlaybackUpstream` for VOD and timeshift sessions |
| `verified_channel` | pass | `UpstreamReserved`, `SingleUpstream`, `CleanupSparesProducer` for two workers that crash and lose keys; all three are about connections a worker still refers to |
| `orphaned_reader` | violation | the finding below |
| `media_requests` | pass | `TypeOK`, `RegistryLoads`, `MutatedOnce`, `OneOwner`, `ActiveTargetsDisjoint`, `NoDuplicateAcquisition`, `NeverBackwards` |
| `submission_delivery` | pass | `AcknowledgedIsDurable`, `JournaledOnce`, that a receipt is bound once its verification is no longer refused (`ReceiptsBound`), and that events are delivered to a journal with room and without bad lines (`EventsDelivered`) |

Every module with a specification defines its type invariant; it can be added to any
of the configurations, and each is part of what is proved.

**Finding.** `OrphanedReader.cfg` checks `OrphansReserved`, which states the
comments "so the next establish does not orphan the reader thread"
(`input/manager.py:586`) and "Close the exact local HTTP producer before consuming
its slot" (`server.py:2072`). When the health monitor asks an unstable verified
stream to switch, `run()` leaves the read loop with its reader open,
`_try_next_stream` refuses for a verified manager, and the next connection replaces
the reader. A later stop closes and confirms the second reader and frees the slot
while the first connection is still open, until its own timeout.

**Other disagreements.** Six more configurations state what a document says and
make TLC show what the code does. They are run by hand
(`tlc -config FailedOpenExclusive.cfg MCSportsLivePlayback`, and so on) and are
kept because the hazards they stand for have no property that holds.

| Configuration | Document | Code |
|---|---|---|
| `FailedOpenExclusive` | `docs/operations/JELLYFIN_FAILED_OPEN_RECOVERY.md`: retain the session and the lease linked to a failed open | for an exclusive lease the route releases both |
| `FailedOpenShared` | `docs/operations/SPORTS_SHARED_CLEANUP_RESERVATIONS.md`: the session linkage of a failed shared open is preserved | the registry prunes the session after its TTL |
| `SchedulerRemove` | `remove()` removes a task and its runtime state | the outcome of an execution under way writes the row again |
| `SchedulerLostUpdate` | `docs/architecture/SCHEDULER_RECOVERY.md`: `last_success` is the authority, the lock is not bypassed | `register` and `remove` save without it and can take a success back |
| `SchedulerOrphan` | the same document excludes overlapping execution | a callback can outlive a runtime started by hand; the systemd unit ends its whole control group |
| `AtomicJsonShared` | `write_text_atomic` writes atomically | two writers without a common lock share the temporary name, and a half-written file can reach the path |

**Bounds.** The pool has one target, two users, two sources, two callers and three
leases: one joins, one opens, and one more caller must be refused. Its TTL is 2 and
so is `MaxClock`, so leases expire within the bound, and it is reconfigured between
a shared and an exclusive policy. The ledger has three sessions over two stream ids:
two share an id while a third call fails. The playback run has two requests, each
with its three threads and the reaper, and configurations with shared and
exclusive routes. Three runs suffice for the PID file (a dead one and two that
reclaim it), with two deployments, one of which may fail. The scheduler has one
installed and one unregistered task, each with a good or a malformed callback, two
crashes and one command; exceptions that end a pass are not bounded. `MaxClock`,
`MaxCrashes`, `MaxDeployments` and `MaxEdits` bound the counters and nothing else.
The live ledger has two leases, two tokens, two destinations that share an account
counter, two epochs and two chunks: a switch, a superseded grant and a full counter
all occur. The sessions have three tokens and two lifecycles over one VOD session
and one pool, two viewers and three playbacks, so that a session is rebound while an
old handle is still in use. The channel has two workers, two leases, two epochs and
one destination that could carry two streams, so that only the protocol, not
capacity, keeps it to one; its view leaves out `leaked`, which only
`LeakEnds` and the finding read. Two overlapping media requests, one of each submission path,
meet two processes and three faults; delivery has one request with its two events,
two delivering processes and three faults. `MaxEpoch`, `MaxChunks`, `MaxStreams`,
`MaxLives`, `MaxPosts` and `MaxFaults` bound counters; tokens, leases, playbacks and
provider ids are used once, as the random ids they stand for.

`CHECK_DEADLOCK FALSE` is set for the Jellyfin ledger, which really stops at a
latched row until an operator acts, and where the bounded supply of fresh ids, epochs
or requests is used up and nothing is left to do: the two ledger runs, the channel
and the media requests.

**Fairness.** The reaper (`main.py`, every 15 seconds) and the end of a remote call
(it has a timeout, or its process dies) for the ledger; the timer and the progress
of a running process for the scheduler. That a callback and a deployment end is an
assumption: `subprocess.run` is called without a timeout. For media requests, a call
under way goes on, and the scheduled pass comes back to every receipt and every
undelivered event (strong fairness, since a pass may find it busy). This is met when
the backlog fits a batch, as in the instances here, or is stable while the batches
rotate with the minute through every offset (`scheduled_reconcile.py`);
`docs/operations/SCHEDULED_SUBMISSION_RECOVERY.md` says that irregular invocations give
no strict fairness, and neither does the model claim it for them. That a verification
succeeds is not assumed: routing and profile checks may refuse a receipt any number of
times, and `ReceiptsBound` names this as its premise. Nothing is assumed
of viewers, operators, crashes, commands, or the live proxy.

## 4. Proofs

| Module | Theorems | Inductive invariant |
|---|---|---|
| `SportsResourcePoolProofs` | `TypeCorrect`, `CapacityRespected`, `UserLimitRespected`, `TimestampsRespected`, `OnlyOwnerOrExpiryFrees`, `ExpiredSharedFenced` | `PoolInv` |
| `SchedulerLocksProofs` | `LocksInvariant`, `RunsExclusive`, `DeploymentsExcludeRuns`, `UnknownOwnersKept` | `LockInv`, `PidFileInv` |
| `AtomicJsonStateProofs` | `AtomicInvariant`, `SerializedSavesAtomic`, `SerializedSavesSucceed` | `AtomicInv` |
| `JellyfinLiveStreamsProofs` | `LedgerTypes`, `ActiveViewersKeepConsumers`, `ConsumersHaveRows` | `StreamsInv` |
| `SportsLivePlaybackProofs` | `PlaybackTypes`, `StreamsKeepReservations`, `SessionsKeepLeases`, `ReleasesAreFinal`, `ConsumersAreReserved`, `LimitsRespected`, `PlaybackImplementsLedger` | `WatchInv`, `LimitsInv` |
| `TaskSchedulerProofs` | `SchedulerTypes`, `SuccessIsReal` | `SchedulerInv` |
| `LiveProxyProofs`, authority | `AuthorityInvariant`, `NoRegress`, `AuthorityRefines` | `AuthorityInv` |
| `LiveProxyProofs`, ledger | `LedgerCounts`, `LedgerLinks`, `LedgerFences`, `LedgerRefines`, `LedgerTypes`, `StreamsKeepCapacity`, `OneUpstreamPerReservation` | `LedgerInv`, `ProofsGranted`, `SessInv` |
| `LiveProxyProofs`, channel | `ChannelTypes`, `UpstreamsReserved`, `OneUpstream`, `CleanupsSpareProducers`, `ChannelsRefineStream` | `ChannelInv` |
| `MediaRequestsProofs` | `Invariants`, `TypeCorrect`, `RegistryAlwaysLoads`, `MutationsOnce`, `OwnersUnique`, `TargetsDisjoint`, `NoDuplicates`, `NoRegress`, `DeliveredIsDurable`, `NoDuplicateLine` | `RequestInv`, `EventInv` |

*Pool.* The properties are about the table; they are not inductive, because a
locked section works with a clock reading and a configuration captured earlier.
`PoolInv` adds that the table is finite and holds issued ids only (`TableIssued`)
and that every stamp, in the table or captured by a caller, is not ahead of the
clock, and that a captured reading for an existing lease is not before its
creation (`StampsBehindClock`). Capacity then follows from a counting argument: an
insertion either joins an allocation that exists, so the set of allocations does
not grow, or adds one where there was room; pruning and releasing only shrink it.
Assumptions: a positive TTL, candidates and configurations of the right type.
Nothing is assumed about the number of users, sources, leases or callers.

*Locks.* Whoever is past the first step holds the flock, and a run that has looked
at the durable lock may rely on it as long as it holds the flock, since only a
deployment that holds it creates one; a recovery, which does not hold it, only
removes one. The PID file adds nothing to exclusion; it
is safe to reclaim in several steps only because of the flock around it. A file
without a pid is kept by every step (`UnknownOwnersKept`), because whoever goes on
to unlink has read a pid from the file that is still there (`PidFileInv`).

*Atomic state.* With serialized callers there is at most one save in progress,
its temporary inode is not the one the path names, and its content is whole when
it is renamed. The theorems are stated under `Serialized`; without it
`AtomicJsonShared.cfg` is a counterexample.

*Jellyfin ledger.* Jellyfin gives one id to several viewers and a close takes one
of their consumers, whichever; so no row can be matched with a consumer, and the
argument counts. `Claim(id)` are the rows a consumer of `id` is due to: active ones,
and those whose close is under way or late. `Cover(id)` are the rows that can
account for one: those of `id`, and those that wait to learn their id. `StreamsInv`
says that the consumers of `id` lie between the two. An open that Jellyfin acts on
adds a consumer that its row covers already, and its answer turns the cover into a
claim; a close removes a consumer together with its claim, or latches. The two
properties are the ends of this: when a close takes effect the active rows are still
covered, and no consumer is left when no row is. The invariant needs the ledger's
own rule, that a row is not closed twice and not dropped while its call is out.

*Live playback.* Everything rests on one question: where are the threads of a request
when a store holds something of it? `Opening` answers it for the session request
(before it admits, there is nothing; from the shared lease to the answer, the lease
is there; a failed open gives back in the order the route does), `Releasing` for the
release, and `Waits` for the remote call that a thread is waiting for. `Linked` is the
consequence, that a shared session or row has its lease. An earlier version left out the stretch
between the admission of the lease and the resolution of the stream; it is not
inductive, since nothing then keeps a lease until the session names it. Consumers are
bounded by leases through the ledger: at most one for each row of `Cover(id)`, and a
row of a shared route has a lease. For this the ledger's step lemmas are used as
they are, for the sessions the routes open (`Rows`), and
`PlaybackImplementsLedger` states that they may be: no step of the routes, the reaper
or a crash is one that the ledger's specification does not allow. What the ledger's
theorems say, therefore, holds in the composition. `LimitsRespected` says the same of
pool and registry: with the counting lemmas of `SportsResourcePoolProofs` (as `Stock`),
stated there for any set of configurations, connections, leases and sessions stay within
the one configuration the API has read. It is proved, not part of a run.
Assumed (`PlaybackConstants`): the ledger's and the pool's own assumptions, and the
viewer and channel of a request.

*Scheduler file.* `NoSyntheticSuccess` is about the file, but a save writes what was
loaded some time ago, so the invariant has to hold of every copy in memory, too:
`Honest` of the file, of the runtime's document and of what each command has read.
A success that is about to be recorded has been earned already. Since what has been
earned only grows, an old copy stays honest: a lost update loses a success and
never invents one.

*Authority.* A grant always carries the newest epoch and no chunk is ahead of it
(`AuthorityInv`), so whoever holds the grant appends behind everything published
before, however old the tokens of the others. Each script is then a step of
`FencedStream` or none: acquiring opens a term, release and expiry close it,
publication writes, expiry and cleanup of chunks lose.

*Ledger.* Every script does one of four things to the records: it adds one where
there is room, drops one, moves one to another destination, or changes one in place.
`AddsExact`, `DropsExact`, `MovesExact` and `KeepsExact` show for each that counters
remain the cardinalities of the sets they count; a move leaves a shared key alone.
That a record is dropped once needs the links: owner key and record name each other
(`OwnersLinked`) and an alias names a record of its own channel (`AliasesLinked`),
and an unused token has no record (`TokensFresh`). For `SwitchFencesUpstream` the
proofs a record remembers are never ahead of the epoch of its channel
(`ProofsGranted`), and the authority's invariant says that the grant which promotes
it is the newest. Every step of the ledger leaves the authority's keys alone, so the
refinement carries over. Assumed: finitely many tokens and viewers, positive
capacities, and that `None` is none of the values it stands beside.

*Sessions of the ledger.* A stream is a viewer or a playback outside the ledger, whose
handle may be of any age. `SessInv` follows it through: a viewer's handle names an
active reservation (`ViewersHeld`) whose hash, as long as it belongs to the same
lifecycle, counts at least the viewers that hold it (`ViewersCounted`); a playback's
names one too (`UpstreamsHeld`), and a pool names the playback that streams on its
reservation until that one's end is attested (`UpstreamCurrent`, `StopsAttested`).
A release of the reservation finds a counter of zero or an attested end, so nobody
streams; a hash that is lost or made anew no longer names the reservation, and no
script frees it without a name. The live scripts do not touch it (`ActiveKept`).

*Live channel.* `Soundness` says what a worker may rely on, at each place of its
request, its stream thread and its stop: what it remembers of a reservation is a lease
of its own and a token that was issued (`Drew`), and while it has a thread or a reader,
that reservation exists under its lease and the alias of the channel names it
(`Reserved`). The steps of other workers leave that alone (`Kept`), because the scripts
that could end it compare lease and token, and both are drawn once. Only the worker
itself ends it, in `DropPending` and `FreeReservation`, where nothing of its own runs
any more. Then `SingleUpstream` is immediate: an alias names one lease, a lease one
worker. Every step of the channels is one of the ledger's (`ChannelSteps`), so the
invariants of authority, ledger and sessions hold, and so does the refinement. Assumed
besides: leases and generation ids are fresh (`LeasesAreFresh`), and `None` is neither a
selection nor a manager.

*Media requests.* `NoDuplicateAcquisition` is about the provider, whose state the
registry knows only through answers that may be lost. `RequestInv` links the two:
a request has at most one counterpart at the provider or on its way there
(`OneCounterpart`, which needs that it was sent once, `PostsOnce`, and hence that no
process still intends to send it, `CallsKnow`); the counterpart of a request that has
ended is settled (`EndsSettled`); and active requests have disjoint targets. So two
open requests of the provider belong to two active ones, which do not overlap.
`EventInv` says that one process at a time is between scan and fsync, that what it
believes about the journal is true (`DeliveryKnows`), and hence that no event is
written twice or acknowledged before it is durable.

Only model-checked: `ExpiredIsReaped`, `DeadOwnerReclaimed` (half of
`AbandonedPidFile`; the other half, `UnknownOwnerKept`, is a theorem), `DueIsTried`,
`ReceiptsBound` and `EventsDelivered`. They are liveness under fairness, which is outside the
prover. Every invariant and action property of the runs, and the refinement, is
proved for all values of the constants. The bounds `MaxClock`, `MaxEpoch`,
`MaxChunks` and so on are constants of the theorems like the others. `OrphansReserved` is
false, as the finding shows, and what `SingleUpstream` and `UpstreamReserved` say is
about the connections a worker still refers to.

## 5. How the parts are checked together

`SportsLivePlayback` instantiates the three stores' modules and uses their actions
and helpers (`Pool!Admits`, `Registry!Admit`, `Ledger!OpenIntent`), so that the
routes are checked against the same definitions the stores are checked and proved
with. That the ledger so used is the ledger as specified is a theorem,
`PlaybackImplementsLedger`. `TaskScheduler` has one runtime, which is what `SchedulerLocks` proves.
`VerifiedLiveChannel` takes its Redis steps from `ReservationLedger` and
`GenerationAuthority`, restricted to the handles a worker really holds; the ledger
and the authority by themselves are checked and proved against callers that hold
anything. `MediaRequests` extends `SubmissionEvents`: binding a receipt and filling
the outbox are one write of the registry.

## 6. Not modelled, and why

File modes, ownership, digests and schema checks of the stores (a file that does
not validate makes every call fail and changes nothing); the text of responses;
counters and durations of the scheduler; the parsing of provider answers; the
portal; rendering and collectors; Docker and systemd orchestration. These make up
most of the repository's 136,000 lines: the API's routes and collectors format,
parse and render, the providers translate one HTTP schema into another, the shell
scripts drive tools, and none of them keeps state that another process races for.
The parts that do and are not modelled yet are in the plan. An unplanned
restart of Jellyfin is not modelled: what it answers to a close of an id it does
not know is not determined by this code. The wall clock does not step back; the
consequences of a step are shown by the variant `TickMutant`.

## 7. Plan

1. Done: the pool with its proofs.
2. Done: ledger, registry and their composition in the routes, with proofs.
3. Done: scheduler locks, the scheduler's file and atomic JSON state, with proofs.
4. Done: the authority with its refinement, the reservation ledger, both with proofs,
   and the live channel over them, with proofs of its own.
5. Done: media requests and the delivery of their events, with proofs.
6. Cleanup intents, the notification cursor, one-use tokens of invitations and
   password recovery, the deployment publication journal with its crash points,
   the sports worker.
7. Further proofs: that the media requests implement a provider-side specification in
   which every request is sent at most once; that the scheduler's locks
   (`SchedulerLocks`) and the file (`TaskScheduler`) compose to one runtime at a time.
