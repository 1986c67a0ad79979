# Sentora in TLA+

Sentora is a FastAPI service with one MongoDB database that copies the software
inventory of SentinelOne and CrowdStrike, classifies it, and keeps a forensic
audit log of what it does. This directory holds TLA+ models of the parts of its
backend whose correctness depends on the order in which things happen, the TLC
instances that check them and TLAPS proofs about them. Paths below are relative
to `backend/` unless they begin with `docs/` or `tools/`.

## 1. The system

One process is one asyncio event loop; a deployment runs several of them
(`--workers ${WORKERS:-1}` in `Dockerfile.backend`, several containers in
`docker-compose.ha.yml`) over the same database. Processes communicate only
through MongoDB: lock documents, checkpoints, counters, and a pub/sub collection.
There are no multi-document transactions in the parts modelled here, so every
database call is an atomic step, and other processes, and other tasks of the
same loop, may act between any two of them.

### Inventory

| Component | State | Operations | Interacts with | What is hard |
|---|---|---|---|---|
| Distributed lock (`utils/distributed_lock.py`) | one document per name in `distributed_locks`; `_acquired`, `lost`, a heartbeat task per handle | acquire (insert, or take over when expired), heartbeat, release; TTL index; purge at start (`main.py`) | used by sync, ingestion, classification, backup, proposals, audit chain | leases, late timers, errors of the driver, dead owners |
| Audit chain (`audit/log.py`, `audit/chain/commands.py`) | `audit_log`, `audit_chain_meta` (counter), the lock `audit_chain_append`, a retry queue per process | audit(), append, initialise, plain write, retry | every command handler; start-up; the TTL index of `audit_log` | several database calls that must look like one; crash, cancellation, ambiguous writes, start of a worker |
| Verification and export (`audit/chain/queries.py`, `tools/sentora_verify`) | what a call has read; exported files | verify the chain or an epoch, export an epoch, verify files offline | the writers of the chain | reading in batches what grows |
| Agents phase (`domains/sync/phases/agents.py`, `s1_client.py`) | `agents`, `sync_meta`, `sync_checkpoint`, buffer and cursor of a run | full, incremental, resumed run; deletion of stale and decommissioned agents | SentinelOne's API; the CrowdStrike phase shares the collection | paging over data that changes, interruption anywhere, resuming |
| CrowdStrike (`domains/sources/crowdstrike/`) | `agents`, `installed_apps`, timestamps, checkpoints, buffers | hosts and applications phases: full, incremental, resumed, retried | the lifecycle of phases; each other's documents | cursors that do not outlive a run, cleanups that reach into the other phase |
| Phase lifecycle and sync manager (`domains/sync/phase_runner.py`, `manager.py`) | status, lock handle and task of each phase; current run, history | trigger, resume, cancel, report, finalise, trigger all | schedulers, REST, websockets, distributed lock | callbacks under a lock, awaits between a test and its use |
| Other phases (`apps.py`, `groups.py`, `sites.py`, `tags.py`) | `installed_apps`, `source_tags`, ... | as agents; apps are deactivated, not deleted | agents phase, summaries, tag rules | resuming, retry of failed agents |
| Leader election and schedulers (`utils/leader_election.py`, `main.py`) | `leader_election`, clocks of the loops | try to become leader, heartbeat, resign; scheduler loops | triggers phases | leadership tested once, used later; a silent schedule |
| Library ingestion (`domains/library/source_runner.py`, `adapters/`) | runs, checkpoints, entries, a runner per worker | trigger, merge, resume, cancel, upsert, finish | distributed lock, subscriptions | pages beside a source that changes, stale checkpoints |
| Subscriptions (`domains/library/service.py`) | subscriptions, subscriber counts, markers in fingerprints | subscribe, unsubscribe, sync | ingestion, fingerprints | several writes per operation, in two databases |
| Classification (`domains/classification/`) | `_running`, the lock, runs, results | trigger, batches, finish, release | distributed lock, agents, fingerprints | every call may raise; agents come and go |
| Tag rules (`domains/tags/`) | status of a rule, tags upstream and local | apply, delete | tags and agents phases, start of a worker | partial failure beside syncs that write back |
| Webhooks (`domains/webhooks/`) | failure count, enabled | dispatch, deliver, disable, update | audit, sync, checks | a counter of concurrent tasks |
| Enforcement and compliance | last results of every check | run, compare, announce | webhooks | differences of overlapping runs |
| Summaries, end-of-life matching (`domains/agents/app_cache.py`, `domains/eol/`) | `app_summaries`, a temporary collection, matches | rebuild, match, confirm, dismiss | sync manager | a rename shared by tasks and processes |
| Sessions and tokens (`domains/auth/`, `utils/user_revocation.py`) | token families, sessions, revocation caches, lockout counters | login, rotate, revoke, reload | middleware of every request | rotation beside revocation, stale caches |
| API keys and rate limits (`domains/api_keys/`, `utils/rate_limit.py`) | keys, grace periods, windows per worker | rotate, revoke, update, authenticate, limit | middleware | a key that changes under a request; forgotten hits |
| Backup (`utils/backup.py`, `backup_scheduler.py`, `domains/admin/`) | `backup_history`, directories, a lock | back up, retain, delete, restore | several schedulers, the lock, its own history | files and records apart; restoring the state that coordinates it |
| Pub/sub (`utils/pubsub.py`) | a capped collection, a cursor per worker | publish, poll | websockets | missed and repeated messages |
| Dashboard, export, demo data, tenants, configuration, frontend | documents and views | CRUD, queries | — | no protocol of their own |

What makes the central ones correct:

* **lock** – at most one caller is in the protected block; a dead owner does not
  block the others for ever;
* **audit chain** – gapless, linked, closed at epochs, append-only; every event
  is recorded; a verdict about it is right although it grows;
* **agents, CrowdStrike, ingestion** – what the source changed before the
  recorded timestamp (or checkpoint) is in the copy, whatever was interrupted,
  and nothing that is active is deleted;
* **sync manager, schedulers, classification** – work runs under its own lock and
  inside a running record, leaves nothing behind, and starts again in bounded time;
* **sessions, keys** – one token of a family can be exchanged, what is closed or
  revoked stays so, every cache learns it, and a client that rotates is served;
* **counters and copies** (subscriptions, webhooks, tags, alerts, summaries,
  backups, limits) – what is derived or counted agrees with what it stands for,
  whatever call between the two writes failed.

`PROJECT.json` lists the hazards line by line, each with the properties that
cover it. Real ones that are not in that list, for want of a property: a resumed
run of the applications phase deactivates what was written before the
interruption (`domains/sync/phases/apps.py:225`; see section 7); the matching
writes over an administrator's confirmation (`domains/eol/matching.py:602`,
`ConfirmedStays` in section 4); the 500-entry limit of the retry queue of the
audit log; runner statuses reset inside another runner's report
(`domains/library/ingestion_manager.py:205`); the date of the weekly sync saved
also when nothing was started (`main.py:391`); an error at the start of the
end-of-life sync leaving its flag set (`domains/eol/service.py:100`).

## 2. Modules and plan

| Module | Models | State |
|---|---|---|
| `DistributedLock` (abstract: `ExclusiveLock`) | the lock | checked, proved (`DistributedLock_proofs`) |
| `AuditChain` (abstract: `AuditLog`) | audit(), append, initialise, retry | checked, proved (`AuditChain_proofs`) |
| `AuditReaders` | verification and export beside `AuditChain`, which it extends | checked, proved (`AuditChain_proofs`) |
| `AgentSync` | the agents phase | checked, proved (`AgentSync_proofs`) |
| `SyncManager` | phase lifecycle of one worker | checked, proved (`SyncManager_proofs`) |
| `LeaderElection` | the election, operation by operation, in time | checked, proved (`Leadership_proofs`) |
| `PhaseScheduler` | the scheduler of a phase with election, runner and lock | checked, proved (`Leadership_proofs`) |
| `Sessions` | login, lockout, rotation, revocation, caches | checked, proved (`Sessions_proofs`) |
| `LibraryIngest` | the ingestion of one source | checked, proved (`LibraryIngest_proofs`) |
| `LibrarySubscriptions` | subscribe, unsubscribe, sync | checked, proved in `Jobs` (`Jobs_proofs`) |
| `Classification` | runs of the classification | checked, proved in `Jobs` (`Jobs_proofs`) |
| `TagRules`, `Webhooks`, `ViolationAlerts`, `AppSummaries`, `CrowdStrikeSync`, `Backups`, `ApiKeys`, `RateLimit` | the component of the name | checked, composed in `Jobs`, proved (`Jobs_proofs`) |
| `AppsSync`, `PubSub`, `EolSync` | applications phase, polling of messages, product sync | planned |

How they fit together: `DistributedLock` is the one model of leases with clocks
and heartbeats. The others use the lock at the grain at which it matters to
them. `AuditChain` takes it as an exclusive lease without a heartbeat;
`SyncManager`, `LibraryIngest`, `Classification` and `Backups` as a document with
an owner, since what is delicate there is the interleaving of acquire and release
with the handle, the death of an owner and the purge at start; `AgentSync` and
`CrowdStrikeSync` assume that runs of a phase exclude each other, which is what
`DistributedLock` and `SyncManager!WorkIsExclusive` give, and check what one run
after another does to the data. `PhaseScheduler` takes the election at the grain
of `try_become_leader()` as a whole, whose parts `LeaderElection` shows to elect
one leader at a time. `AuditReaders` composes readers with all the writers.
`TagRules` composes a rule with the two phases that write the same documents,
`AppSummaries` the rebuild with the matching, `CrowdStrikeSync` two phases.

The abstract modules state what a caller is promised (`ExclusiveLock`: a block
entered when empty; `AuditLog`: an append-only sequence of distinct entries), and
the detailed ones implement them under a refinement mapping.

The MC modules hold the instances. `Leadership` (the election and the
schedulers) and `Jobs` hold several components that share nothing: the variable
`part` names the one a behaviour is of, so one run checks them all and their
states add rather than multiply. Both leave the constants open, which is what
their theorems are about; `leadership.cfg` and `MCJobs` give them values. The safety of `LibrarySubscriptions` and `Classification` is checked
there too; their own configurations check their liveness, with fairness.

Next: `AppsSync` and `PubSub`, and the coverage of the code by models.

## 3. The models and the code

### DistributedLock

A handle is one `DistributedLock` object; `pc` is where its caller is, `beat`
where its heartbeat task is, `owner` and `left` are the document. Time is a
duration: `left` is `expires_at` minus now and `age[h]` the seconds since the
handle read the clock or went to sleep, so the state space is finite without a
bound on the clock. `Tick` is one second. `Insert`/`DuplicateKey` and
`Steal`/`Refuse` are the two database calls of `acquire()`: both use the `now`
read before the first. `Wake` and `Refresh`/`Lose` are the sleep and the update
of `_heartbeat()`; `LeaveBlock` and `Release` the two halves of `release()`.
`InsertRaises`, `HeartbeatRaises`, `Crash`, `Start` and `ExpireDocument` are the
environment: an insert that took effect and raised, an error in a heartbeat, a
process that dies, one that starts (and, in the environment `startup_purge`,
deletes the lock as `lifespan()` does for `sync_phase_*`), MongoDB's TTL monitor.

`MaxLate` is how late a due wake-up or a database call may be. A holder that
stops for longer than the lease is outside the model, by intent: no lease
protects its block, and the code has no fencing token.

### AuditChain and AuditReaders

One event is one call of `audit()`, and its `pc` runs through the checks, the
lock, the section of `append_chained_entry` one database call at a time, the
rollback, the plain write and the retry queue. A hash is the event it was
computed from: the properties only compare hashes. `log` maps sequences to
entries (the index on `sequence` is unique). Each worker's `initialize_chain` runs in
`boot` when it starts. `POST /audit/chain/initialize` (`audit/chain/router.py`)
calls the same function in a worker that serves, with the same interleavings as
the start of a second worker, and so is not a separate action.

`faults` is chosen at the beginning among sets of fault kinds, so that each
property names the environment under which it holds. `Benign` – write errors and
crashes of a single worker – is the one the code is written for.

`AuditReaders` adds a `reader`: a call of `verify_chain` that asks for the latest
entry and then reads the chain batch by batch, with the hash it carries from one
to the next, or one of `export_epoch` that reads the entries and then the latest
one, and the tests of the offline verifier on the file. Not in the model:
verification of a chain whose genesis retention has deleted, which can call an
incomplete chain valid. Outside `Benign` an epoch whose last entry is missing is
closed at the last one present, and the offline verifier accepts the file.

### AgentSync and CrowdStrikeSync

SentinelOne is `source`: the state and last change of each agent, in the order
of the API's cursors. A run goes page by page (`FetchPage`, `TakeItem`,
`EndPage`), writes the buffer every `FlushAt` agents (`Flush`), saves the
checkpoint every `SaveAt` (`Count`), and finishes (`FlushRest`, `DeleteStale` or
`RemoveDecommissioned`, `RecordTimestamp`, `ClearCheckpoint`). `LoadCheckpoint`
is separate from `Begin` because `trigger()` and `resume()` read the checkpoint
before they ask for the lock. `Interrupt` ends the run at any step, a write of
many documents being partly done. SentinelOne changes agents at any moment. The
history variable `sound` is cleared by a resumed run, and by an incremental run
that finds no timestamp although there are agents; a full run from the start
sets it again.

CrowdStrike's cursors do not outlive a run, so a resumed hosts run asks for what
changed after the time of its last flush, and an applications run starts over.
`CrowdStrikeSync` has both phases at once because the cleanup of a full hosts run
deletes every application whose timestamp is not its own ("Also remove
installed_apps for stale agents", `sync_agents.py:159`). Times are taken as
distinct, where the source's have a resolution of a second.

### SyncManager

Tasks of one event loop: an action is what runs between two awaits. A task goes
through its first report, the work and its reports, the clearing of the
checkpoint, the last report, the save of the run, and the release of the lock.
`mutex` is `_broadcast_lock`. Locks carry the number of the trigger they were
taken by, so that a lock, a handle and a task can be told apart from those of
the trigger before: `leaving` counts old tasks between the deletion of the
document and the assignment of `None` to the handle. The record of the run is
`run`, with `outcome` (history) how the phases of the run ended.

### LeaderElection and PhaseScheduler

`LeaderElection` is `try_become_leader()` as its three operations (`Insert`,
`Refresh`, `TakeOver`), `heartbeat()` and `resign()`, between which time passes:
they compare with, and write, the time at which the call `began`. `until` is how
long a worker may take itself for the leader. `PhaseScheduler` is the loop of
`_phase_scheduler` in ticks of 30 s: the first cycle, the interval read in every
tick of the sleep, the trigger and the wait for the run, with the phase's runner
and its lock; workers die, restart and are shut down, reads fail and an
administrator changes the interval.

### Sessions

One user's account. A login, an exchange or a revocation is a coroutine with one
action per database call; a revocation is a list of steps (`Plan`), which is how
the seven handlers differ. Each worker has a cache of revoked sessions and of
revoked users, marked by the handlers it serves and replaced by its reload loop,
whose read and store are apart: a reload may overwrite a mark, which comes back
with the next one. OIDC, SAML and the second factor issue tokens in the same way.

### LibraryIngest, LibrarySubscriptions

`LibraryIngest` counts the versions of the source's content: an entry of the
library remembers which one it was taken from, and a run has a `goal`, the one
at its creation. A checkpoint names a page; it is saved in the middle of one and
by a run that is cancelled, loaded by `resume()` and saved again by a trigger that
merges its configuration, possibly after the run that left it has completed.
`flawed` marks a run that skipped an entry after an error.

The iteration ends with the source or after `MaxResults` entries. `fetched` is
the adapter's count, which the checkpoint carries: a resumed run fetches its page
again and counts it again (`CountedAgain`), so it may reach the maximum before it has
taken what a run from the start takes. It is recorded as completed all the same
and clears its checkpoint. `CompletedCovers` says that this is the only loss, and how
large it is; `KeepsUp` that the runs after it make up for it.

A run whose status is terminal has a `tail`: clearing the checkpoint, deleting the
lock document, and, when that call returns, `_dist_lock = None`. A trigger in the same
worker may start the next run in between and lose its handle (`handle`); `lock`
then names a worker whose heartbeat goes on and that will not release it
(`Forgotten`). `Gone` owns a document that nobody refreshes. `KeepsUp` leaves two things
out by name: a lock that is forgotten, and calls that for ever hold a checkpoint
that was cleared since (`Outdated`). Without either it is violated (section 4).

`LibrarySubscriptions` has every call to the two databases as a step. The version
of an entry grows with an ingestion that changes its markers, not with a manual
edit or the merge of another source, nor with a change to an empty list, which
leaves the old markers; `entry.base` is the newest content that a stamped
subscription must have. Deleting an entry leaves the markers in the fingerprints,
and two overlapping unsubscriptions count twice: `CountIsExact` and
`SyncedIsCurrent` leave out the groups (`spoilt`) on which calls overlapped.

### Classification

A run is the request that triggers it. `Save` to `Delete` are its database calls,
each of which may raise and each with the handler that catches it there; `Add`
and `Remove` are a sync; `Start` the cleanup of a starting worker, which fails
also runs of living ones. `save_run` raising leaves the flag set and the lock
taken (`stuck`), and the return of a release may take the handle of the next run:
`LockComesBack` names both, and `LockAlwaysComesBack` is violated by the second.

### The components of Jobs

* `TagRules`: `_run_apply` call by call. A rule matches agents of CrowdStrike too
  (`Foreign`), which get no tag upstream and show one locally. A call that
  raises fails the rule; a starting worker fails the rules others apply. A tags
  sync that fetched before the tag was created deletes its document, after which
  the tag is created twice.
* `Webhooks`: the increment of the failure count, its reading, and the disabling
  are three calls of a delivery. `streak` counts failures since a success or an
  enabling. A decision taken on an old count may disable a hook that an
  administrator has just enabled again; the property is that the other error,
  a dead endpoint that stays enabled, does not happen.
* `ViolationAlerts`: both domains' check runs, overlapping, with checks that are
  toggled or raise. What a disabled or raising check reported before is announced
  as resolved; `LastWordIsRight` therefore speaks of `steady` histories.
* `AppSummaries`: the rebuild into `app_summaries_tmp` and its rename over the
  collection, by tasks of one process under its `asyncio.Lock`, with failures at
  any call; matches are written one by one after the rebuild.
* `Backups`: a backup inserts its record, makes its directory, dumps, and updates
  its record; retention counts, then finds, then removes directory and record of
  one backup after the other; a deletion does so for one. Manual backups and
  restores hold `backup_operation`; a starting worker deletes it (`main.py:520`).
  A restore puts back the history and the lock of the time of the dump. S3 is
  left out: its backups, like those in progress, have a path outside the
  directory and are passed over by retention.
* `ApiKeys`: a rotation tests, retires, inserts and answers. Two rotations of one
  key make two successors; the new key has the expiry read at the beginning.
* `RateLimit`: minute and hour windows of every key in one worker. Hits are sets of
  times, with a number for those of one tick, pruned when they are used; limiters are evicted after an hour
  without use and replaced when the limit has changed. A request refused by the
  hour has left a hit in the minute. Workers limit apart, as the code warns.

## 4. Runs

Every configuration says `CHECK_DEADLOCK FALSE`: the handles, events, requests,
changes, runs and faults of an instance are bounded, and when they are used up
there is nothing left to do.

| Run | Instance | States | Shows |
|---|---|---|---|
| `lock` | 3 handles on 2 workers, TTL 7 s (interval 3), lateness 1 s, the sets of faults | 119 645 | exclusion, `ExclusiveLock` is implemented, a dead owner is replaced |
| `audit_chain` | 3 events, epochs of 2, seven sets of faults, a reader in three of them | 641 439 | what holds of the chain in each environment, and of what is read while it grows |
| `audit_export` | the same | – | the hash in an exported file never matches (finding) |
| `agents` | 3 agents, 2 enrolled at first, pages of 2, flush at 2, checkpoint at 1, one change, three runs | 241 844 | no interruption makes the copy wrong, a full run heals it, active agents stay |
| `sync_manager` | 2 phases with 2 triggers each, beside another worker or with an error in `clear_checkpoint` | 219 972 | exclusion, one record per run, right status, nothing left, runs end |
| `sessions` | 2 workers, 3 logins, 2 exchanges, 2 revocations of any kind, lockout at 2, 1 restart; five scopes | 484 723 | one token to exchange, the lockout, closed stays closed, caches converge |
| `library_ingest` | 2 workers, 3 entries, pages of 2, at most 3 results, a checkpoint at every entry, 2 versions, 1 fault; two sets of events | 1 693 506 | checkpoints, completed runs, and that the library catches up |
| `subscriptions` | 2 groups, 3 subscriptions, 1 unsubscription, 1 syncer, 3 changes, 1 death; four scopes | 480 056 | that copies catch up |
| `classification` | 2 workers, 2 runs, 3 agents, batches of 2, 2 events | 550 703 | that the lock comes back |
| `leadership` | election: 3 workers, TTL 2, 5 ticks; scheduler: 2 workers, intervals 0, 2 and 5 ticks, TTL 3, 3 events | 3 063 034 | one leader at a time; a phase is started again in bounded time |
| `jobs` | see below | 2 428 876 | the ten components of `Jobs` |
| `backup_retention` | 2 schedulers, 2 backups, retention count 1 | – | no backup is left (finding) |

`jobs`: *tags* 2 managed agents and a foreign one, 2 applications, calls of 2, one
fault; *webhooks* 3 deliveries, disabled after 2 failures, 5 dispatches; *alerts*
2 checks, one host and the system, 2 overlapping runs, 2 changes, one upset, both
domains; *summaries* 2 applications, 2 tasks, 4 events; *CrowdStrike* a host and
an application, flush at 1, 2 runs, one change, one fault, from an empty or a
synced copy; *backups* 2 tasks, 2 backups, retention 1, one fault, one restore;
*keys* 2 requests, 3 keys, one loss; *limits* one key, windows of 2 and 3 ticks,
TTL 3, limits 1 and 2, 5 ticks; *classification* and *subscriptions* as in the runs
of their own.

Each property of a passing run has a mutant, a plausible bug in one mapped
definition that makes TLC find the property violated under the same
configuration. The mutated operators stand in the component modules before the
definition they replace, and nothing else uses them.

### What the code does otherwise than it says

Two runs show one each, and `PROJECT.json` quotes the text beside what the code
does. The others are in configurations of their own that TLC finds violated, or
that come from a passing one by the change of a line:

| Configuration | Property | What it contradicts |
|---|---|---|
| `alerts_resolved.cfg` (`ViolationAlerts`) | `ResolvedMeansCompliant` | `docs/api/webhooks.md:96` "Fired when previously violating agents become compliant": a run of one rule announces the violations of the others as resolved (`domains/enforcement/service.py:314`) |
| `agents_resume.cfg` (`MCAgentSync`) | `ResumedRunKeepsAgents` | `phase_runner.py:208` "continues from 5M", `docs/FEATURES_AND_BENEFITS.md:19`: a resumed full run deletes active agents it had written before |
| `agents_resume.cfg` with `Environments <- BothSources` | `OtherSourceStays` | the deletion of stale agents has no filter on the source (`agents.py:147`) |
| `crowdstrike_resume.cfg` (`CrowdStrikeSync`) | `ResumedHostsCurrent` | `sync_agents.py:82` "fetch hosts modified since last successful batch": the time of the flush is later than some changes not yet read |
| `sync_stale_failure.cfg` (`MCSyncManager`) | `NoStaleFailure` | an error in `clear_checkpoint` leaves a status by which the next run is recorded as failed |
| `scheduler_backoff.cfg` (`PhaseScheduler`) | `OthersBackOff` | `docs/data-model.md:857` "Only one worker holds leadership at a time; others back off.": leadership is tested on top of the loop only, the trigger comes up to an interval later |
| `subscriptions_orphan.cfg` (`MCLibrarySubscriptions`) | `NoOrphans` | `docs/adr/0013` line 40 "On unsubscribe, all markers with matching provenance are removed cleanly.": a sync under way puts them back |
| `summaries_workers.cfg` (`AppSummaries`) | `SummariesWhole` | `app_cache.py:339` "atomic swap — write to temp, then rename" with more than one worker (`docs/deployment/environment-variables.md:107`): the lock is one of the process, the temporary collection is shared |
| `summaries_workers.cfg` with `PROPERTY ConfirmedStays` | `ConfirmedStays` | `docs/EOL.md:81` "Confirmed matches are promoted to `manual` source": the next rebuild or matching takes that back |
| `backup_retention.cfg` with `BackupSpec`, `INVARIANT LockedApart` and `MaxRestores = 1` | `LockedApart` | `domains/admin/router.py:227` "Uses a distributed lock to prevent concurrent backup/restore operations.": schedulers do not take it, a restore replaces it |
| `ApiKeys` on the instance of `jobs` | `RevokedIsRefused` | `docs/api/api-keys.md:112`: a grace period goes on after a revocation, and a rotation under way starts one |
| `lock.cfg` with `Spec`, `Environments <- Purges` | `PurgeHitsTheDead` | `main.py:501`: a starting worker deletes the locks of a living one |
| `lock.cfg` with `Spec`, `Environments <- HeartbeatErrors` | `OneInBlock` | an error ends the heartbeat, not the block (`distributed_lock.py:142`) |
| `audit_chain.cfg` with `WorkerOf <- MCWorkerOf`, `MaxCounter = 4`, `ReadIn <- NoReader`, `Environments <- SecondWorker` | `AllocationsAreFresh` | a second worker's start resets the counter under an append |
| the same with `Environments <- Cancellations` | `Gapless` | a cancelled append keeps its sequence |
| `sync_manager.cfg` with `Environments <- OneWorker` | `WorkKnowsItsLock` | the return of a release takes the handle of the next run |
| `library_ingest.cfg` with `INVARIANT ResumeCostsNothing` | `ResumeCostsNothing` | `source_runner.py:390` "skips already-processed entries", `nist_cpe.py:130` "Total max entries to fetch": the page of the checkpoint is fetched and counted again, and the run completes short of the maximum (which is 20 000 by default, line 152, not the 5000 of line 130) |
| `library_ingest.cfg` with `PROPERTY LockIsReleased` | `LockIsReleased` | `source_runner.py:250` "Release the distributed lock, cancelling the heartbeat task.": the return of a release takes the handle of the next run (line 265) |
| `library_ingest.cfg` with `PROPERTY ClearedIsGone` | `ClearedIsGone` | a call that has loaded a checkpoint before a completed run cleared it resumes from it, and saves it again (`source_runner.py:301`, 320) |
| `classification.cfg` | `LockAlwaysComesBack` | the same in the classification: the lock and its heartbeat stay until the process ends |
| `PhaseScheduler` as in `scheduler_backoff.cfg` | `OffMeansOff` | `main.py:183` "Setting both to 0 disables scheduling for this phase.": an interval set to 0 during the sleep makes `remaining` 0 (`main.py:285`), which ends the sleep, and the phase is triggered at once |

`lock_loss.cfg` and `agents.cfg` with `RunEnds` hold further properties that pass:
`LeaseCoversHeartbeat`, `LossIsFinal`, `UnexpiredIsKept` and `LossIsNoticed` of the
lock, and `RunEnds` of the agents phase. `RecordedOnce`, `Serialized`,
`StoredEntriesStay`, `BrokenLinksAreMissing` and `OneWorkerIsFresh` of the chain are
in no configuration; they are theorems (section 6).

Other things met in the code that no property here is about: taxonomy changes
only invalidate the summaries although `docs/data-model.md:362` says rebuilt; a
rebuild without active applications leaves the old summaries; an acknowledgement
of a classification is cleared by every run (`docs/guides/interpreting-results.md:211`
says otherwise); a run of the classification without fingerprints when they
cannot be loaded; an event of a check run in which every check is disabled says
that all is resolved; the schedule of compliance runs is stored and nothing runs
it; a worker's own pub/sub messages come back to it in the polling fallback.

### Bounds

*Lock*: two handles are enough for a holder and a contender; the third lives in a
process of one of the first two, so that a holder that lost its lock, its
successor and a third contender, and a process that dies with one handle and
restarts, all occur. TTL 7 is the smallest that is odd (the interval is rounded
down) and meets the punctuality condition of section 6 with a lateness of 1.
*Audit chain*: with the genesis, three events cross one epoch boundary and begin
a second one, with two calls in the section's queue while a third is in it;
`MaxCounter` stops crashes once the counter has reached it. *Agents*: three
agents make two pages, a flush in the middle, a rest, and a checkpoint ahead of
the buffer; three runs are an interrupted one, a resumed one and one after it.
*Manager*: two phases are enough for one to start while the other finalises; two
triggers of each for an old task and its successor. *Sessions*: a scope is what
takes part in a behaviour, which covers each pair of operations that touch the
same document, three logins that race for a lockout at two failures, and each
kind of revocation beside the reloads of two workers. *Ingestion*: three entries
in pages of two make a checkpoint in the middle of a page and one at its end;
two versions, a page fetched before the change and one after. A maximum as large
as the source is reached early by whatever a run counts twice; 2 and 4 were also
checked. Entries that raise are considered without new content, to keep the
instance small. *Subscriptions*: a
group that leaves and comes back needs two subscriptions, a sync over two groups
a third. *Classification*: three agents in batches of two make a full and a
partial batch; two runs an old one whose release returns late and its successor.
*Leadership*: three workers are a leader, one that takes over and one that acts
on what it read before; a term of 2 in 5 ticks lets two terms pass. The
intervals are one shorter and one longer than the TTL. *Jobs*: two concurrent
tasks of each kind and one fault; the threshold of failures is crossed while a
third delivery is under way; the hour's window equals the time to live of a
limiter, as in the code, and is longer than the minute's. The state spaces were
also looked at for actions that never happen: there is none.

## 5. Fairness

* `DistributedLock`: time passes, MongoDB's TTL monitor runs, and database calls
  and due wake-ups of a running process complete. A caller need not leave its
  block, and need not try to acquire.
* `AuditChain`, `AuditReaders`: a running worker finishes `initialize_chain`, a
  call of `audit()` goes on (asyncio runs every ready task), an expired lock is
  removed. Readers, cancellations, crashes and errors are never forced.
* `AgentSync`: the coroutine of a run goes on. Triggers, changes and
  interruptions are not forced.
* `SyncManager`: every task that can run does. Entering the broadcast lock and
  ending the work have strong fairness: `asyncio.Lock` serves its waiters in
  order, so a task that waits again and again is served; and a phase that goes
  on reporting progress ends at last because its pages do (`AgentSync!RunEnds`).
* `Sessions`: the reload loops of the workers, `while True` with a sleep, read and
  store again and again. Reading has strong fairness: the loops of sessions and
  of users take turns in the model. Requests need not go on, so that one may stop
  half-way.
* `LibraryIngest`: runners, their tails and calls go on, a lock that nobody
  refreshes is removed, and the
  source is triggered again and again. The last is what administrators do, there
  is no schedule for it in the code: `KeepsUp` says that triggering it is enough.
* `LibrarySubscriptions`: requests go on, and the callers of the sync of stale
  subscriptions return.
* `Classification`: the steps of a run go on and an expired lock is removed.
* The election, the schedulers and the components of `Jobs` are checked for
  safety only; "in bounded time" (`Punctual`) is a safety property there.

## 6. Proofs

All theorems hold for every value of the constants under the modules' named
assumptions, which TLC evaluates in the runs. They only say what kind of value a
constant is, but for three facts of the code: in `RateLimit` a limiter is kept
for its windows; in `PhaseScheduler` some interval is the longest that can be
configured, and the retry is not longer than a term of the election.

**DistributedLock_proofs.** `TypeCorrect`; `LossIsFinalHolds` and
`UnexpiredIsKeptHolds` without further assumption; and under `Punctual == Interval + 3 * MaxLate < TTL`,
`MutualExclusionHolds`, `LeaseHolds` and `ImplementsExclusiveLockHolds`.
`Punctual` is a hypothesis of these theorems, not an assumption of the module:
it is the condition under which half the TTL as interval is a safety margin. For
the locks of the sync phases (TTL 3600) it allows ten minutes of lateness.
Mutual exclusion is not inductive: that nobody else is in the block follows from
every caller in its block owning the document, which needs that the document
cannot have expired, which needs the bound on what is left of it at each point
of the heartbeat's cycle (`LeaseCoversHeartbeat`, strengthened by the ages of
pending writes).

**AuditChain_proofs.** `TypeCorrect`, and five groups. (1) Under write errors and
crashes (`Benign`): `GaplessHolds`, `LinkedHolds`, `SerializedHolds`,
`EpochsClosedHolds`. `ChainInv` ties the counter to the stored sequences at each
point of the section and of `initialize_chain` – the counter is one past the log,
except between allocation and insertion or rollback, and after a crash, where it
may be ahead until the restart sets it; `LockInv` says that whoever is in the
section holds the lock. `EpochInv` adds what the call that starts an epoch has
read of the end of the one before. (2) Without the TTL index, whatever else fails:
`BrokenLinksAreMissingHolds`, by `EntriesInv`: the entry of an event stands at the sequence its call allocated
and is inserted once, and what a call has read of its predecessor is still so.
`StoredEntriesStayHolds` needs no hypothesis. (3) `ImplementsAuditLogHolds`: each
step maps to an append to `AuditLog` or to a stutter; the mapping counts stored
sequences, so the proof is one about cardinalities. (4) `RecordedOnceHolds`
(`RecordInv`: which stages of a call have written the event, and where) and `OneWorkerIsFreshHolds` (`CounterAhead`: cancelled calls leave
gaps, so the counter is only known to be above everything stored). (5) Readers:
`VerdictIsRightHolds`, `TruncationIsDetectedHolds`, under `NothingExpires`, that no
environment with a reader has the TTL index, as in the run. `ReaderInv` says what
has been checked so far (`Walked`, `Taken`); that it stays true under the
writers is what (1) and (2) give, and what lets the batch that is read be
judged by itself (`ValidBatch`, `WholeBatch`).

**AgentSync_proofs.** `TypeCorrect`, `CaughtUpHolds`, `FullRunHealsHolds`,
`ActiveAgentStaysHolds`, under the module's assumption only. The invariant says
of a run at each stage which agents are accounted for: those up to the cursor
are in the collection, the buffer or the page as SentinelOne had them when they
were read, unless they have changed since the run began (`CoverInv`, `ReadInv`);
that change has a time at or after `started`, so the next run, which asks for
changes at or after the recorded timestamp, sees it.

**SyncManager_proofs.** `TypeCorrect`, `WorkIsExclusiveHolds`,
`WorkIsRecordedHolds`, `NothingIsLeftHolds`, `StatusIsRightHolds`. The invariant
has one part for each resource. `LockInv`: from the insert of the lock document
to the end of the release the document is that of the last trigger (this does
not mention the handle, so exclusion survives the handle's loss).
`StageInv`: the status is *running*, and the broadcast lock taken, at just
the stages of the task where the code has it so. `RunInv`: who has made a first
report has a running record; the record is final just while it is being saved;
a running record has a task that will report its end, so the last one finalises
it. `OutcomeInv`: without errors in `clear_checkpoint` no status outlives its run.
All but the exclusion rest on the broadcast lock: between the test that nothing
runs and the reset, a phase may start but not make its first report.

**Leadership_proofs.** Of the election `ElectionTypeCorrect`, `ClaimHeld` and
`OneLeaderAtATime`, for every number of workers, every term and every length of a
behaviour. That two workers are not leaders at a time is not inductive. What is:
a worker that may take itself for the leader (`until[w] > time`) owns the claim,
and the claim lasts until just then (`LeaderHasClaim`); and no call began in the
future. A takeover compares the claim with the time at which the call `began`, so
a claim it finds expired has expired by now as well, and nobody is a leader on it.

Of the schedulers `SchedulerTypeCorrect` and `PunctualHolds`, for any number of
workers and of events (crashes, shutdowns, failed reads, changes of the
interval). `Punctual` is a bounded response: how long the next start may take
depends on which workers die meanwhile, so the invariant bounds it for every
choice. A worker is *committed* once it was elected and sleeps towards its
decision, for then nothing but its death stops it from starting a run; and
*settled* if it runs for election again and has its first cycle behind it. While
nothing is started, `Orderly` relates the clocks, the lock and the runners of
different workers, and `Waits` bounds the time that has passed by what is still
to come: whichever committed workers die, one of the others is due within an
interval, a retry and a term for each death and each event so far
(`SomeoneIsDue`, over the sets of committed workers, with the cardinality of the
set as the price); settled workers run for election within as many terms as
there are committed workers and events (`ClaimsRunOut`), one less if they lead
(`LeaderIsNext`); and when neither kind is left, one that restarts does
(`SomeoneWakes`). A crash takes a worker out of these sets and adds one event,
which pays for the term of the claim it leaves behind; a start of a run sets the
time waited to nothing, after which all of it holds again (`WaitsAtFirst`). The
bound is attained in the instance of the run, and the invariant was checked on
instances with one to three workers before it was proved. It needs that a retry
is not longer than a term, as in the code (60 s and 90 s, `main.py`): a failed
read is then paid for by its own event.

**Sessions_proofs.** `TypeCorrect`, `OneUnusedTokenHolds`, `ThresholdLocksHolds`,
`ClosedStaysClosedHolds`. One unused token per family is not inductive, since an
exchange takes its token two calls before it stores the next. `OneChain` says where
the right to issue the next token is: in an unused token, in one exchange, or in
the login before its first. The lockout rests on
`FailuresOwed`: without a lock the failures are below the threshold, but for one
for each attempt that is yet to set it or died before it could. That a closed
session stays closed needs that a session in the collection belongs to a login
that is done (`SessionsOfLogins`).

**LibraryIngest_proofs.** `TypeCorrect`, `CheckpointIsSoundHolds`,
`CompletedCoversHolds`. A runner that works, or has yet to release, owns the lock
(`OwnerInv`), and every copy of a run – the checkpoint, the one a trigger has
loaded to merge, the one `resume()` has loaded, the runner's own – has all pages
before its own (`Sound`); the runner's also the entries before the one at hand
(`Taken`), or it is `flawed` (`CoverInv`). That content only gets newer makes this hold while other runs
write the same entries. That a run ends with the source or with its maximum
(`Done`) turns it into what a completed run covers.

**Jobs_proofs.** Theorems for each component of `Jobs`. A step of the
composition is a step of one component or leaves its variables alone
(`PartSteps`), so each invariant speaks of one component only.
* `LocalTagsBackedHolds` (`TagsInv`): the agents an application matched are tagged
  upstream or still to be tagged, until it has done so, and only then does it
  write locally.
* `DeadEndpointIsDisabledHolds` (`HooksInv`): the counter may be ahead of the
  failures in a row – the reset of a success comes late – but never behind; while
  the endpoint is enabled over the threshold, a delivery is about to read the
  counter or has read it high enough (`WillDisable`).
* `DumpsAreListedHolds` (`UnrestoredInv`): a backup that is being made has a record
  that says so and that nobody else writes; retention and deletion only take
  records that say something else, and a directory is gone before its record goes.
* `KeysServeUntilRevokedHolds` (`KeysInv`): a key that is not active has a later one
  or a rotation about to insert it, and has a running grace period until then;
  every key not held is one that a request is about to answer with, in place of
  an earlier one. So the first of the keys that are accepted is held.
* `SummariesWholeHolds` assumes `OneProcess`: all tasks are in one process, as in
  the run. With two, `summaries_workers.cfg` refutes it. `SummaryInv`: the task that
  rebuilds has the lock of its process, and what it finds in the temporary
  collection is what it has inserted itself.
* `LastWordIsRightHolds` (`AlertsInv`): in a steady history one run is under way at
  most; what it compares with is what was announced so far, and once it has
  stored its results, the words it has yet to say make up the difference.
* `CrowdStrikeCurrentHolds` (`FalconInv`): `Covers` says that an item a run has to copy
  is still to be taken, in its buffer, or copied; `ReadsInv`, that what it has read is as
  CrowdStrike had it when the run started, or newer, in which case the next run
  takes it again. A resumed hosts run, and an applications run under which a hosts
  run dropped applications, do not cover (`Unharmed`), which is why `sound` is
  needed. The refutation in `crowdstrike_resume.cfg` is the same from the other side.
* `WithinLimitsHolds` (`LimitInv`): whatever part of the current window one looks at, a
  limiter has as many hits in it as requests were let through, and if it is for
  other limits there were none (`Remembers`), so that it may be forgotten.
  Pruning and eviction only drop hits that are in no such part, the latter as the
  windows are no longer than `_LIMITER_TTL_SECONDS` (`LimitAssumption`, true of the
  code with an hour each).
* `RunCoversHolds` (`ClassInv`): whoever is between the acquisition of the lock and its
  release owns it (`Exclusive`), so nobody else writes results meanwhile. What
  the run has passed in the order of the ids, and is not in the batch at hand, has
  its result or is counted as an error (`Covering`). That a page skips nobody who
  lasts (`PagesSkipNobody`) needs that a page is the first of what lies behind
  the last id, and that an agent that comes back has a new id behind all others.
* `CountIsExactHolds`, `SyncedIsCurrentHolds` (`LibraryInv`): the count differs from
  the subscriptions by the calls that stand between the two writes
  (`CountIsKept`); that it does needs that an unsubscription on its way still has
  what it will remove. For the stamp, `GroupIsCurrent` says of a group on which no
  two calls overlapped that whoever has the version has the markers, that a
  copy yet to be stamped has them, and that no subscription is ahead of a call
  that has read the entry and not yet dealt with it; a version that is the
  same when read and when compared means that no newer content came between
  (`EntryGrows`). Both leave out what `spoilt` and `deaths` leave out.

**Only model-checked.** Liveness (`DeadOwnerIsReplaced`, `LossIsNoticed`,
`EveryEventRecorded`, `RunEnds`, `CachesConverge`, `KeepsUp`, `CatchesUp`,
`LockComesBack`), which is out of the prover's reach. Every safety and action
property of a passing run is a theorem. The type invariants are proved, as part of the
invariants above in `Jobs`, where `TypesOK` was also checked with the instances
of section 4; it is not among the properties of its runs. The refutations of
section 4 are TLC's.

## 7. What is not modelled

* Contents: the text of entries, hashes as numbers, fields of agents, scores and
  verdicts, progress figures, messages to browsers.
* In the lock: `enable_distributed_locks = False`, clocks of workers that differ,
  a holder that stops for longer than its lease.
* In the audit chain: `get_epoch_size` changing between two calls, the limit of
  the retry queue, tenants (each has a database of its own), the stored result
  and the webhook of a verification.
* In the agents phase: the deletion of the applications of decommissioned agents
  (it belongs to the apps phase), rate limiting and retries of the HTTP client
  (a failed call ends the run: `Interrupt`), the discarding of a checkpoint of another
  mode (a resumed run has the mode of its checkpoint).
* The applications phase of SentinelOne. As the code stands its writes cannot
  succeed: an update looked up by one `_id` sets another one
  (`domains/sync/phases/apps.py:139`, `domains/sync/normalizer.py:190`), which MongoDB
  refuses. Its stale rows are deactivated without a filter on the source. Groups
  and sites repeat the tags phase without a rule beside them.
* In the manager: `trigger_all`, cancel (it ends a task as `End` does),
  websockets and the tasks started after a run. Phases that end cancelled leave
  the run completed, as the code has it.
* In the schedulers: the weekly full sync (`main.py:349`), which reads and writes
  one date, and the cleanups of a starting worker that no module above names. A
  driver error in the calls outside the loop's inner `try` (`main.py:212`, 234, 305,
  308) ends the task of a scheduler for good; `Punctual` does not speak of it.
* In the sessions: the activity stamp of a session, the window of a day of what
  the cache loads, the password history; SAML and OIDC up to the issue of tokens,
  which libraries do.
* In the ingestion: the record of the run, the cleanup of legacy entries, a lease
  (an hour, refreshed every half) that ends under a living runner, products whose
  versions are spread over several pages (`seen_products` is that of one run, so a
  resumed one may count them again), the other adapters.
* In the library: the CRUD of entries, the promotion of markers to the taxonomy,
  the fingerprint editor and matcher.
* In the rules, hooks and checks: patterns, signatures, aggregation pipelines.
* In the limits: requests accepted before a change of the limits count no more in
  the history of `WithinLimits` after it.
* S3 in the backups, the scopes of API keys, the limiters by address.
* The polling of `utils/pubsub.py` (planned), the sync of end-of-life products.
* The components listed in `PROJECT.json` as not modelled, with the reason.
