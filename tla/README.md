# AdGuard Hub in TLA+

AdGuard Hub keeps one central configuration (rules, filter lists, settings
sections) in a SQLite database and replicates it to any number of AdGuard Home
nodes. It is a single Python process: FastAPI handlers and a few background
workers are coroutines of one asyncio event loop, and every one of them talks
to the database through a session of its own and to the nodes over HTTP. There
are no threads to race, but every `await` is a place where any other coroutine,
a node or the operator can act in between, and everything that is not in the
database is gone after a restart. That is what these modules model.

Paths below are relative to `src/backend/app/` unless they begin with `src/`.

## The system

| Component | State | Operations | Interacts with | What is hard | What makes it correct |
|---|---|---|---|---|---|
| Sync engine (`services/sync.py`) | push lock per instance, set of background tasks | `schedule_sync`, `sync_all`, `push_to_instance`, `push_kind`, `not_kept` | edits schedule it; pushes through the adapter; writes the retry queue and the instance's status | several full-state pushes to one node at once, reads before awaits, partial failure | no older state over a newer one; no edit forgotten; the lock is always given back |
| Retry queue (`services/sync.py`, `api/ops.py`) | `PushJob` rows | `queue_job`, `close_jobs`, `process_retry_queue`, delete, retry | filled by failed pushes and by maintenance, emptied by any successful push | rows read once and used much later; two writers that both find no row | an open job exists as long as a node misses what it stands for |
| Reconciliation (`services/reconcile.py`) | `out_of_sync_since` | `reconcile_all`, `reconcile_instance`, `_correct`, `_still_differs` | pulls nodes, pushes under the same lock, runs into `pass_deadline` | expected state read long before it is compared; cancelled anywhere | eventually every active node holds the central state and its card says so |
| Instances (`api/instances.py`) | `enabled`, `maintenance`, url and credentials | add, patch, delete, probe, push, import | decides who is pushed to and reconciled; ids are reused by SQLite | switches flipped while tasks hold rows loaded before; caches keyed by a reused id | maintenance is hands off; nothing remembered outlives what it was read from |
| Node status and notices (`sync.py`, `reconcile.py`, `notify.py`) | `status`, `last_error` | `check_instance`, edge-triggered notices | pushes, probes and passes all write it | the edge is computed from a value read before an await | an outage is told; status agrees with the node and the switches |
| Central state (`services/config.py`, `versions.py`, `expiry.py`, `backup.py`, `importer.py` and the routes) | rules, lists, sections, versions | edits, rollback, restore, import, expiry sweep | every edit schedules a sync and records a version | look-up, commit, snapshot, prune and schedule are separate steps of handlers that interleave | what is replaced stays in the history, a restore is exact, the last commit is pushed, an expired rule goes |
| Payload comparison and push (`adapters/adguard.py`, `compare.py`, `sections.py`, `reconcile.py`) | none of their own | diff and push of rules, lists, sections | what a pass compares with and what a push writes | order, duplicates, values a node resolves itself, one request of several failing | log and push agree on what is different; a push stops writing |
| Adapter session (`adapters/adguard.py`, `session.py`) | session cookie, login lock and cool-down per node | login, `_request` with one 401 retry | every call on a node | several callers that get 401 at once; 429 | a request fails only for the node's reasons; every request ends |
| Caches (`services/aggregate.py`, `filtersizes.py`, `filtersource.py`) | fan-out results, list names per row | collect, invalidate, remember, forget | several users' requests, the poller, edits of instances | an answer under way when the cache was cleared | one fan-out for all; nothing stale for good |
| Query log (`services/querylog.py`, `hubsettings.py`) | ring buffer with its keys, settings row and its copy | poll, merge, resize, edit settings | nodes, restart | overlap between polls, evicted rows, clamping | nothing twice, nothing lost because another node is silent |
| Drift log (`reconcile.py`, `driftarchive.py`, `retention.py`) | `DriftEvent` and `ReconcileRun` rows, archive files | `_count_again`, `record_pass`, prune, clear, page | the worker's pass and `POST /reconcile` fold into the same rows | read, fold, commit; files rotated under a reader | no sighting made up; every pass accounted for; paging misses nothing |
| Event bus and workers (`events.py`, `supervisor.py`, `watchdog.py`, `main.py`) | bounded queue per stream, failure counts, stall reported | publish, subscribe, close, supervise, watch, start, stop | all workers, browser streams | the server waits for open streams before the hub may close them; crashes of a worker again and again | shutdown ends; a worker runs again; a stall is told |
| Sign-in (`throttle.py`, `security.py`, `deps.py`, `api/auth.py`) | account, failures per source, remembered credentials | setup, login, Basic Auth, password change | threads that hash, so that every request has an await in its middle | check before the hash, count after it | one account; guesses bounded by what the table remembers; an old password is forgotten |
| Self-update (`updates.py`, `selfupdate.py`, `src/packaging/`) | cached answer, trigger file, log file | look, press, pick up, run, read back | two processes that share files only | files that outlive both; lost or double requests | a press is one attempt; no outcome is told that is older than the last press |
| Diagnostics, log buffer, schemas, database set-up, frontend, `install.sh` | little or none of their own | translation, formatting, validation | | | |

`PROJECT.json` lists every component with its sources and status, and under
`hazards` each place of the code where one of the difficulties above bites,
with the properties that cover it.

## Modules

| Module | What it is |
|---|---|
| `ReplicaSet` | Abstract specification: what an operator is promised. A desired revision per payload kind and a revision per node; an edit raises the desired one; a step may move nodes only to newer revisions, never beyond the desired one, or to something foreign. |
| `HubSync` | The sync engine, the retry queue, reconciliation and the instance switches together: they share the push lock, the job rows and the instance rows, so a model of one alone would have nothing to go wrong. It instantiates `ReplicaSet`. |
| `NodeStatus` | What the hub says about one node: `status`, `last_error` and the notices, as pushes, retries, probes, passes and the operator's switches write them. |
| `CentralState` | Rules, subscriptions, sections and versions, as the handlers and the expiry worker change them. |
| `NodeSession` | How the hub's requests share one AdGuard login. |
| `NodeCaches` | What the hub remembers of its nodes while instances are added, re-pointed and deleted. |
| `SignIn` | Set-up, login, Basic Auth, password change and the throttle. |
| `HubProcess` | Start and stop, supervisor, event bus, watchdog. |
| `QueryLog` | The merged query log and the settings that size it. |
| `DriftLog`, `DriftArchive` | What a reconciliation pass leaves behind, in the database and on disk. |
| `Payloads` | What a push asks of a node, request by request, and what counts as a difference. |
| `SelfUpdate` | Looking for a release, pressing the button, and the updater. |
| `MCHubSync`, `MCNodeStatus`, `MCCentralState`, `MCHubServices` | The roots of the model-checking runs. `MCHubServices` composes the nine services from `NodeSession` to `SelfUpdate`. |
| `HubSync_proofs`, `HubSync_delivery` | Proofs about `HubSync`: types, the push lock and that it implements `ReplicaSet`; then that no edit is forgotten, and that a switch to maintenance lets nothing through but what was decided before it. |
| `NodeStatus_proofs` | Proofs about `NodeStatus`. |
| `CentralState_proofs`, `CentralState_promises` | Proofs about `CentralState`: the version history and the types; then that pushes are scheduled, restores are exact and nothing replaced is lost. |
| `HubServices_proofs` | Proofs about `SignIn`, `SelfUpdate`, `HubProcess`, `NodeSession` and `NodeCaches`, a part each. |
| `Payloads_proofs` | Proofs about `Payloads`. |
| `HubLogs_proofs` | Proofs about `QueryLog`, `DriftArchive` and `DriftLog`, and lemmas about what a recursive function computes step by step. |

How they fit: `CentralState` is where an edit comes from and ends with a push
scheduled (`owed` empty); `HubSync` takes the edit as a new revision and carries
it to the nodes; `Payloads` opens up one of its writes into requests, each of
which `NodeSession` makes with a login. `NodeStatus` tells what all that looks
like on the card of a node, `DriftLog` and `DriftArchive` what a pass writes
down. Each boundary is a value both sides have: the kind that is owed, the
revision, the payload, the failing request.

### How HubSync corresponds to the code

*Data.* Every full-state push carries the whole desired state of a payload
kind, so what the properties have to tell apart is only how new it is: the
contents of the rules, of the filter lists and of the managed sections are a
revision number each, `Foreign` (-1) is anything the hub never held. `desired`,
`row`, `jobs` and `outOfSync` are database columns, `node` and `up` the nodes,
and `task`, `retry`, `pass`, `push` and `lock` are local variables of
coroutines and the dictionary of push locks, all lost in `Crash`. Loaded rows
are a real hazard, because sessions are opened with `expire_on_commit=False`
and keep what they loaded: `task[s].todo` and `task[s].held` are what
`sync_all` saw when it selected, `retry[r].rows` what `process_retry_queue`
saw, `pass[c].known` the `out_of_sync_since` a pass loaded,
`pass[c].expected` the sections it compared with.

*Steps.* An action is the code between two awaits during which another
coroutine or a node can change something the code reads or writes.

| Code | Actions |
|---|---|
| `push_to_instance`: lock, `push_kind` per kind, `not_kept`, `close_jobs` or `queue_job` | `PushLock`, `PushRead`, `PushWrite`, `PushFailed`, `PushApplied` |
| an edit's commit and `schedule_sync`; `sync_all` | `Edit`, `SyncSelect`, `SyncPush`, `SyncHold`, `SyncQueue`, `SyncDone` |
| `POST /instances/{id}/push`, `POST /sync` | `ManualPush`, `ForceSync` |
| `retry_worker`, `POST /jobs/retry`, `process_retry_queue` | `RetrySelect`, `RetryPush`, `RetryDone` |
| `DELETE /jobs/{id}` | `DiscardJob` |
| `reconcile_all`, `reconcile_instance`, `_correct`, `_still_differs` | `PassStart`, `PassBegin`, `PassPull`, `PassDiff`, `PassVerify`, `PassPushFailed`, `PassSettle`, `PassDone`, with `PushLock`, `PushRead`, `PushWrite` for the corrections |
| `asyncio.timeout(pass_deadline)` | `PassDeadline` |
| `PATCH /instances/{id}` | `HoldBack`, `EndMaintenance`, `Disable`, `Enable` |
| restart of the process | `Crash` |
| the nodes | `PushWrite`'s refusal, `CallFails`, `Tamper`, `GoDown`, `ComeBack` |

*What is abstracted, and what is assumed.*

- `PushFailed` and `PushApplied` look for open jobs and write them in one step.
  In the code the row of the instance is dirty by then, so the first query of
  `queue_job` or `close_jobs` flushes it and takes SQLite's write lock, which
  is held to the commit: no other writer gets in between. When `sync_all`
  queues for a held-back instance nothing is dirty, so the look-up (`SyncHold`)
  and the write (`SyncQueue`) are two steps, and two writers may both insert.
  `SyncHold` looks up all of a task's kinds at once; in the code later kinds
  are looked up once the first one's insert holds the write lock, so the model
  allows every interleaving of the code and some more.
- A call that fails has reached the node when it fails or never does. A write
  that timed out and is applied by the node seconds later, after the lock was
  given back, is listed as a hazard and left out: no bound of the code excludes
  it, and everything below would then hold only until the next pass.
- A failed push of settings has written its kind or not. That some sections landed
  and others did not has no value here, it is in `Payloads`; what the hub does next
  is the same, because the job it opens replays all of them.
- A push that fails again as it did before leaves the instance's row clean, so
  that the look-up and the write of `queue_job` are two steps there as well; the
  second row it could insert is one that closing takes with the first.
- `has_desired_state`, which keeps a pass from starting on an empty hub, is that
  some revision is above 0.
- `DiscardJob` does not hit the row a task is about to update. There SQLAlchemy
  raises `StaleDataError` and the task dies; that is listed as a hazard.
- A deadline can hit any pass, also those of `POST /reconcile`, which has none.
- `Status`, `last_error`, notices, drift rows and `record_pass` change nothing
  that a push, a retry or a pass decides on. The first three are in `NodeStatus`,
  the others in `DriftLog`. A dry run writes nothing. A section a node cannot be corrected in is not
  modelled: the pass then keeps the mark, and `Convergence` would not hold for
  a node that stays like that.
- Instances are there from the start. Adding, re-pointing and deleting them is in
  `NodeCaches`, for what is remembered of them.
- `Edit` covers every handler that commits new desired state and calls
  `schedule_sync`: one kind for an ordinary edit, all of them for an import, a
  restore or a rollback.

`Faults` names what may happen besides edits. `MaxEdits` bounds the revisions
and `MaxEvents` how often anything in `Faults` happens in a behaviour; these
two are the only bounds in guards.

### How NodeStatus corresponds to the code

*Data.* `row` holds the four columns of the instance that matter here, `open`
the payload kinds with an open job, `told` what the operator was last told and
what has been reported since the node last went down or came back. `sess[p]` is
a coroutine together with its database session: `view` is the status and error
the session loaded or last wrote itself. `expire_on_commit=False` lets a session
keep them for as long as it lives, so they decide on a notice and on which
columns an UPDATE contains (`Saved`: SQLAlchemy writes an attribute only when it
differs from the loaded one), however the row has changed since. What a node is
asked for is left to `HubSync`; here only which call fails, because the text of
the failure is compared with the previous one: `Errors` has one value per
distinct request of the hub.

| Code | Actions |
|---|---|
| `push_to_instance`, `_push_to_instance` | `PushLock`, `PushKind`, `PushReadBack`, `PushFailed`, `PushApplied` |
| `sync_all`, `POST /instances/{id}/push` | `SyncStart`, `ManualPush` |
| `process_retry_queue` | `RetryStart`, `RetryPush` |
| `check_instance`, `POST /instances/{id}/test` | `Test`, `Probe`, `ProbeFailed`, `Probed` |
| `PATCH /instances/{id}` with its probe and replay | `Switch`, then `Probe` and, at its end, `Replay` |
| `reconcile_instance`, its deadline | `PassStart`, `PassPull`, `PassFailed`, `PassPulled`, `PassDone`, `PassDeadline` |
| restart; the node | `Crash`; `GoDown`, `ComeBack`, and the failures in `Call` |

An answer and the handling of it are two steps, since the answer travels. The
commit of a result and the notices after it are one step, except for a pass,
which talks to the node in between. The corrections of a pass change neither
status nor notices of an outage and are the single state `"fix"`; that it holds
the push lock there only delays pushes. A notice counts as sent once `notify` is
called; its delivery is best effort and not modelled.

### How CentralState corresponds to the code

*Data.* `rules` are rows with their id, text, whether they are switched on and
their deadline (`"never"`, `"pending"`, `"due"`); `lists` and `sections` are
tables, a section's document the set of settings it holds; `versions` is the
history, `file` the backup the operator has. `owed` is what was committed and
for which no push has been scheduled since: scheduling clears a kind, because
`sync_all` reads the newest state when it runs. `proc[h]` is a handler with the
rows it looked up and the snapshot it took. `mishaps` records that two requests
met in a way the property at hand excludes, and which.

| Code | Actions |
|---|---|
| any route, `Begin`; look-up by text, id, name or version | `LookForText`, `LookForRow`, `LookForSection`, `LookForState`, `Export`, `Refuse` |
| the commits of `api/rules.py`, `api/blocklists.py`, `api/config.py`, `api/control.py` | `CommitAdd`, `CommitUpdate`, `CommitDelete`, `SetRules`, `CommitList`, `CommitSection`, `ViewSections` |
| `restore_snapshot` with the `get_section` inside; `import_from_instance` | `CommitRestore`, `Interrupted`, `CommitImport` |
| `versions.record`: snapshot, comparison, insert; `prune` | `SnapRules`, `SnapRest`, `Store`, `CountVersions`, `CutVersions` |
| `schedule_sync` | `Scheduled`, at the end of a route |
| `expiry_worker`, `due`, `sweep`; the clock | `SweepLook`, `CommitDelete`; `FallDue` |

SQLite begins a transaction at the first write. What a handler only read may
therefore be old when it writes, which is why look-up and commit are two steps,
and the two halves of a snapshot are two more. One step each are: the look-up
and commit of a subscription, `get_section`'s look-up and insert, the reading of
the newest version and the insert of the next, the count and the cut-off of a
prune, and an export. Comments, kinds and origins of rules and the instances in a
backup are left out; an import that fails on a constraint is too. In the runs
the AdGuard-compatible routes that add or change a subscription are covered by
those of the pages, which commit the same.

### How the services correspond to the code

*`NodeSession`.* `entry` is `SessionStore`'s entry of one node (cookie and
cool-down), `loginLock[g]` the lock of its g-th entry, `call[c]` where
`_request` of a caller is. `EnsureSession`, `TakeLock`, `LoginAnswered` and
`Answered` are `_ensure_session`, `_login` up to the lock, the login's answer,
and the answer of the request, with the one retry after 401 (`MayRetry`). The
node loses sessions (`Lapse`), limits logins (`Limit`), and the instance is
edited (`Forget`), which leaves a caller with the lock of an entry that is no
longer in the store. `why` collects what the node did while a request was on.

*`NodeCaches`.* A fan-out's result is the table of instances it was collected
from, list names are the node they were read from; what is summed up is left
out. `AskCached`, `StartFanout`, `StoreFanout` and `HeldExpires` stand for
`cached_stats` and `filtersizes.cached` alike; `StartChange`, `CommitChange`
and `InvalidateCaches` for create, update and delete of an instance, a deleted
row's id being the next one's; `StartPoll`, `NameRows`, `Remember` and
`PullFails` for the poller's naming of lists; `NamesAge` for their TTL.

*`SignIn`.* A password is the number of the change that set it. `Arrive` is
what happens before the hash (throttle, remembered credentials, loading the
account), `Checked` what happens after it, and so `StartSetup` and
`CreateAdmin`, `StartPasswordChange`, `CurrentChecked`, `CommitPassword` and
`ForgetAll`. `tracked` holds the sources in the order in which they run out, `Live`
those of them that have not. `tried` is history that no action reads: how often a
source has really failed, and how often the full table dropped its entry (`Evicted`).

*`HubProcess`.* `stage` is where the server and its `lifespan` are. `WorkerEnds`,
`Restart`, `BecomesHealthy` and `WorkerCancelled` are `supervise`; how long the
wait before a restart is, is left out. `Publish`, `Subscribe`, `Deliver` and `Disconnect`
are the event bus, where everything under its lock is one step. `Terminate` is
the signal to stop, after which uvicorn (external) takes no more connections and
waits for the requests in flight; only then does it leave `lifespan`, whose end
is `Stop`, `Gathered` and `DisposeDb`. `GracefulTimeout` says whether uvicorn was
started with `--timeout-graceful-shutdown`, as in `src/packaging/adguardhub.service`,
and then cancels what is still in flight (`CancelRequests`), or without it, as in
the image. `close`'s flag and sentinel are in the model; with uvicorn's order no
stream is open when they are set. `RecordPass`, `PassAges`, `Switch` and
`WatchdogCheck` are what the watchdog judges by and what it does.

*`QueryLog`.* `buffer`, `keys` and `maxlen` are `QueryLogBuffer`; `stored`,
`cache` and `editor` the settings row, its copy in memory and the requests about
it. `StartLogPoll`, `FetchRows`, `FetchFails` and `AddRows` are `poll_once`, which
has something to do only when there is a node (that it can be switched off is left
out: nothing is polled then); `LogWith` is `add`, row by row.
`LoadSettings`, `CommitSettings` and `AssignSettings` `hubsettings.load` and
`update` with the side effect on the buffer, `StartAgain` a restart. A query is
its node and number; two settings stand for all.

*`DriftLog` and `DriftArchive`.* One instance and payload kind: `Find` archives,
`LookForStanding` and `EnterFinding` are `_count_again` and the commit,
`LookForExcess` and `CutExcess` are `_prune`, `LookForStreak` and `RecordStreak`
are `record_pass`, `ClearDrift` is the operator. Lines of the archive are
numbered as they are written, and a file is the number of lines that had been
written when it began; `WriteLine` rotates, `OpenArchive` and `NextPage` are the
route that pages through it.

*`Payloads`.* One node and one payload. `wanted` and `onNode` range over all
pairs of small payloads, the sections with the shapes of `SPECS`: documents,
toggles, clients, rewrites, implemented by the node or not. A document is a
function of its keys: two that the table of sections names, on the hub one more
that somebody stored (`other`; `PATCH /config/sections` and the control API store
what they are sent), on the node one of its own. `Selected` is `_select`, `Truth`
what a toggle's document comes to, `Managed` what of a document travels and
`Pulled` what `pull_section` returns. `Differences` is reconcile's and compare's
view, of everything that is stored, `RequestsOf` the adapter's, of what travels.
Safe search, whose table is empty, travels whole. What a node makes of keys it does
not know is left out, and so is a message's cut after the first failed lists. `StartPayload`, `ReadNode`, `ReadAgain`, `NextRequest`, `RequestDone`,
`RequestRefused`, `RequestLost` and `EndPayload` are one push; `Touch` is a
change by hand while it goes on. A node stores what it is asked to, except that
it resolves the placeholders of `SELF_RESOLVED` and refuses lists it cannot
download.

*`SelfUpdate`.* `AskStatus`, `TakeAnswer`, `AnswerComes` and `AnswerAges` are
`UpdateChecker`; `Press` is `request`; `PickUp`, `Truncate`, `Output`,
`RestartHub`, `UpdaterExits` and `UpdaterKilled` the units and the script; the
`Reported...` operators are `read_run`. Files have no clock: all that is compared
is which of trigger and log was written last and whether that is long ago. The log
carries, for the properties only, the run that wrote it and how often the button
had been pressed by its last line. The updater can die at any point, also before it
has truncated the log.

## Properties and runs

| Run | Instance | Shows |
|---|---|---|
| `sync_edits` | 1 node, rules and settings, 2 syncs, 1 retry pass, no reconciliation; outages, errors, maintenance, manual pushes; 2 edits per kind, 2 events; 790,234 states | `NothingForgotten`: without any help from reconciliation, a node that does not hold the newest revision is always owed it by an open job, a task or a push. `NeverBackwards`. |
| `sync_maintenance` | 1 node, rules, 2 syncs, 1 retry pass, 1 reconciliation pass, every fault; 3 edits, 2 events; 680,430 states | `TypeOK`; `LockMatchesHolder`: the push lock and the process inside agree, through errors, deadlines and restarts; `NeverBackwards`; `HandsOff`: whatever is edited, queued, retried or compared while a node is held back, no process comes to have a push to it that it had not decided on before the switch, but for one the operator sends by hand, and who writes to it had decided to. |
| `sync_convergence` | the same processes with fairness; outages, refusals, passes cut off by their deadline, a restart and maintenance set mid-push; 2 edits, 2 events; 218,818 states | `Convergence`: every enabled node outside maintenance ends up with the central state, no open job and no out-of-sync mark. |
| `node_status` | one push task or retry pass, one handler, one reconciliation pass, rules, every fault, with fairness; 2 events; 311,974 states | `TypeOK`; `StatusSettles`: once the node stays up or stays down, the card of an active node says so, whatever stale sessions wrote before; `OutageTold`: a node shown online that goes down with nothing in flight is announced. |
| `central_state` | 2 handlers and the sweep, 2 requests of any kind, from an empty hub and from one with two rules, a subscription and a section, 1 version kept; 3,086,119 states | `TypeOK`; `Undoable`: with everything through, the newest version is the configuration; `EverythingScheduled`: and a push of it was scheduled after the last commit; `RestoreFaithful`; `NewestKept` and `HistoryBounded`: pruning side by side cuts neither too much nor too little. |
| `central_expiry` | 1 handler and the sweep, 3 requests (allow, rollback, import), from an empty hub, with fairness; about 380,000 states | `ExpirySettles`: a rule that falls due is deleted and the push without it scheduled. |
| `hub_services` | the nine services, each in its own bounds (below); 685,753 states | `FailureExplained`, `Collapsed`, `OneAdmin`, `TriesBounded`, `KeysMatch`, `InForceIsStored`, `NeverOvercounted`, `StreaksTrue`, `PagingMissesNothing`, `PushAndLogAgree`, `FailuresNamed`, `OutcomeNotOld`, `OffersTrue`, each stated in its module. |
| `hub_liveness` | the same with fairness, in smaller bounds, the server with the unit's timeout; 78,740 states | `RequestsEnd`, `CachesSettle`, `OldPasswordForgotten`, `ShutdownEnds`, `StallTold`, `QueriesArrive`, `PayloadsSettle`, `OneRequestOneAttempt`. |
| `lost_at_maintenance` | as `sync_maintenance`, `holdback` and `overlap` | violates `NothingForgotten` (finding 1) |
| `permanent_ask` | 1 handler, 2 requests | violates `PermanentAskStands` (finding 2) |
| `shutdown_waits` | `HubProcess` with fairness, one stream, two workers that do not fail, no timeout | violates `ShutdownEnds` (finding 3) |
| `rewrites_never_settle` | `Payloads`, the section of rewrites, no fault | violates `SectionsAgree` (finding 4) |

Seven more configurations show what is told under "Further disagreements":
`PushAfterHold.cfg` and `FalseRefusal.cfg` of `MCHubSync`, `RepeatedFailure.cfg`
and `RecoveryUntold.cfg` of `MCNodeStatus`, `ExpiryForgotten.cfg` of
`MCCentralState`, `StaleOutcome.cfg` of `SelfUpdate` and `DriftNeverSettles.cfg` of
`MCHubServices`. An eighth, `SyncTwoPasses.cfg` of `MCHubSync`, passes (63,824
states): `Convergence` with two passes side by side, each of which writes the
out-of-sync mark by what it loaded at its start, one sync, a retry pass, outages, error answers,
refusals, changes by hand and deadlines.

*Why these bounds are enough.* Instances interact only through a task's or a
pass's list of instances: locks, jobs, marks and node state are per instance,
and no decision about one instance reads another's. One node therefore shows
what can go wrong between processes; what the order of a list of several nodes
adds is only delay, which one node also has. The invariants proved below hold
for any number. Two syncs, a retry pass and a reconciliation pass are one of
each kind of process with two of the kind that races with itself. A third edit
lets a revision be overtaken twice. Two events are one fault while another is
still not recovered from. Two payload kinds matter where the kinds of one push
part ways (a push failing after the first of two, an edit of both against an
edit of one): `sync_edits` has them, with the read-back that rules have and
sections do not; `sync_maintenance` and `sync_convergence` need the room for
the reconciliation pass. That several corrections of one pass succeed and fail
apart is therefore not in a run with reconciliation. `sync_edits` turns deadlock checking off: without
passes, with the edits and events used up and nothing queued, the modelled
system has nothing left to do. So do the runs of `CentralState` and of the
services, whose bounds on requests and events end in rest.

`NodeStatus` has one node and one process of each role, which is enough for
every pair of roles to overwrite each other's status; two of the same role
differ from that only in who is first. Two events let a switch, a deadline or a
restart fall into an outage.

`CentralState` has two handlers, because every race of it is between the
look-up of one request and the commit of another, and the sweep as a third; one
version is kept, so that each prune has something to cut; two texts let a
request concern the rule another one changes, or a different one. The run
starts with an empty hub, where a paste can find its rule inserted by the other
handler, and with one that has a switched-off rule and a section without a row, which the
routes treat differently; `central_expiry` starts empty, to
let a rule be created, recorded in a version and brought back.

The services: two callers share a login, lose the session twice and have the
instance edited once; two pages, two instances and two edits, so that a row id
is given out again; two sign-ins from two sources of which one is tracked, and
a lock after two failures; two workers of which one is the watchdog, one stream whose queue holds one event; two polled nodes
of which one never answers, a fetch limit and a buffer of two, two editors and a
restart; two passes, a drift log of one row and two streaks; files of two lines,
two of them, pages of two lines; payloads of at most two rules or lists, or any
single section, one change by hand and one fault; two tabs, two releases and two
presses. Where the code has a large constant (10 failures, 4096 sources, 200
events, 500 rows) the model has it as a parameter and the run a small value
that is reached.

`MCHubServices` picks one service in `Init` (`focus`) and lets only that one
move. The services share no variable, so a behaviour of all of them is an
interleaving of one of each, and an invariant or a liveness property of one
holds of the interleaving when it holds of its part; the state space is the sum
of theirs instead of the product.

*Fairness.* `HubSync`: weak fairness of every task, retry pass and
reconciliation pass: the event loop runs each ready coroutine, an HTTP call
ends in an answer or after `http_timeout` in an `AdapterError`, and the retry
and reconcile workers wake up by timers for as long as the hub runs. Reconciliation
has to be switched on (`reconcile_enabled`); a hub without it has `Passes = {}`.
Strong fairness of `PushLock`: `asyncio.Lock` wakes its waiters in the order
they came, so one that waits gets a lock that is freed again and again. Weak
fairness of `ComeBack`: a node is repaired some day. Nothing is assumed of the
operator: maintenance may last for ever, and edits may stop.
`NodeStatus`: the same of coroutines, calls, the reconciliation worker and the
push lock. Nothing is assumed of the node, which may stay down, nor of the
operator; retries, tests and edits need not happen, so that it is the passes
alone that settle the status. `CentralState`: handlers end, the expiry worker
wakes up; nobody has to ask for anything.

The services: `NodeSession` assumes that calls get an answer, a refusal or a
timeout. `NodeCaches` assumes that time to live runs out, that the poller goes
on, and, strongly, that a node asked for its lists again and again answers some
time. `SignIn` assumes that hashing ends and that windows run out; `HubProcess`
that delays end, that a page reads what it is sent, that a cancelled worker ends
(they catch nothing of it), that the server goes on when its requests are over or
its timeout, if it has one, has passed, and that the watchdog wakes up, but not
that anybody closes a page; `QueryLog` that polls go on once there is something to
poll; `Payloads` that the reconciliation pushes again and that a request ends,
but not that it succeeds: only `MaxFaults` accidental failures happen.
`SelfUpdate` assumes that the path unit fires, when it is enabled at all
(`watched`), that the updater says something and ends, by itself or by the
unit's time-out. Nothing is assumed of the person at the button.

### Findings

1. **An edit made at the wrong moment is not replayed after maintenance**
   (`lost_at_maintenance`, `services/sync.py:364`). A push is under way, the
   operator switches maintenance on, another edit is made. `sync_all` queues it
   for the held-back node; the push then succeeds and closes every open job of
   its kinds, this one included, although it carried the revision before.
   Nothing is replayed when maintenance ends. Reconciliation repairs it, which
   `sync_convergence` shows.
2. **A permanent rule that still expires** (`permanent_ask`, `api/rules.py:60`).
   Asking without minutes for a rule that has a deadline leaves the deadline on
   it, where the comment above says it is dropped: "no minutes" and "permanent"
   are the same value.
3. **A shutdown that waits for the page that waits for it** (`shutdown_waits`,
   `main.py:154`). `bus.close()` is there to end the event streams of open pages,
   so that uvicorn need not wait for them; but it is called at the end of
   `lifespan`, which uvicorn reaches only when no request is in flight. With an
   open page and no timeout, as the image starts it, the process sits there until
   it is killed; with the unit's timeout the timeout is what ends it, where the
   unit's comment says it "should never be reached".
4. **Rewrites that never match** (`rewrites_never_settle`,
   `adapters/compare.py:66`). Reconciliation compares rewrites in order and the
   push by sets. A node whose rewrites stand in another order is reported as
   different in every pass, and no push corrects it.

### Further disagreements

Met while modelling; the first seven are stated in `HubSync`, `NodeStatus`,
`CentralState`, `SelfUpdate` and `Payloads` and violated in the configurations named above, the others can be read off the
modules.

- `NoPushStarts` (`services/sync.py:401`): a task goes by the row it selected at
  its start, so a push can begin after maintenance was switched on.
- `RefusalIsReal` (`services/reconcile.py:346`): the read-back compares with
  desired state read again after the write, so an edit in between makes a node
  that kept the correction look as if it had refused it.
- `SaysItOnce` (`services/sync.py:302`): whether a failure is news is decided by
  its text; rules and settings fail with different texts, so with open jobs for
  both, each retry pass reports both again.
- `RecoveryTold` (`services/reconcile.py:586`): a pass writes the status online
  before its corrections and announces the recovery after them; a deadline in
  between loses the announcement.
- `DeadlineKept` (`services/config.py:110`): a snapshot carries no deadline, so a
  rollback or a restore brings a temporary rule back for good.
- `OutcomeIsThisRun` (`services/selfupdate.py:140`): `read_run` takes the log for an
  earlier upgrade's when the trigger is younger. A press made while a run is on
  writes the trigger, and the next line of the run makes the log younger again:
  when the run ends, the page says "finished" while the request made last still
  waits, where the comment at line 129 has the log belong to "whatever is happening
  now". That no outcome from before the press is told is `OutcomeNotOld`.
- `KeyedSectionsCorrected` (`adapters/adguard.py:543`): reconciliation compares every
  key that is stored, the push and the pull only those of the table of sections, and
  of a toggle only whether it is on. A key beyond the table's, which the routes do
  store (`api/config.py:75`, `api/control.py:90`), is reported in every pass, and no
  push writes it, where the docstring (line 518) says that push and drift log "agree".
- `hubsettings.load` fills the cache without the side effects `update` has: after
  a restart the query log keeps the size from the environment until somebody
  saves a setting (`QueryLog!StartAgain`). Two overlapping requests can leave the
  older row in the cache (`muddled`).
- `querylog.add` forgets the key of a row it pushes out, so a batch that does not
  fit is announced again the next time, as are rows of a quiet node.
- `push_kind` stops at the first section that fails, which for a node that lacks a
  toggle, the clients or the rewrites is every time; only documents are skipped
  for a node without them, where `section_matches` says so of any section.
- `get_section` commits. In the middle of a restore by another request, that makes
  the deletion of rules and lists permanent whatever becomes of the restore
  (`"half"` in `mishaps`).
- The control API reads a section, changes it and writes it back with awaits in
  between; two such requests lose one change. A snapshot's two halves can be from
  before and after another commit.
- A `bulk_import` stops half-way when a rule it loaded was deleted meanwhile. One
  whose insert fails on a rule another request has just made rolls back
  (`api/rules.py:79`), which expires the user row it loaded; it commits the other
  lines and then fails when the version is to be recorded under that user's name,
  without version and push (`expired`, and `"half"` in `mishaps`).
- A fan-out under way during an edit stores its result after the invalidation,
  and stays for its time to live (`CachesSettle` is why it does not stay longer).
  Names remembered for a row that has been pointed elsewhere do too.
- The watchdog says "running again" whenever the stall condition no longer holds,
  also because reconciliation was switched off (`HubProcess!Unreported`).
- A credential whose check a password change overtook is remembered after
  `forget_all`, for five minutes (`OldPasswordForgotten`).
- The throttle is asked before the hash and told after it, so as many guesses as
  are under way at once get through beyond the limit; and with more sources than
  it tracks, a live entry is dropped and its source starts at nothing again
  (`services/throttle.py:164`). Both exceed the "ten attempts per five minutes" of
  `services/throttle.py:10`; `TriesBounded` is what remains true.
- `_count_again` loads a row and commits later: `clear_drift` in between makes the
  pass fail, or count on another entry that got the id (`"cleared"`).
- Between the removal of the trigger and the truncation of the log, `read_run`
  still reports the run before, and for longer when the updater dies in between.
  `OutcomeNotOld` speaks of the newest run's log only.
- Deleting a job that `queue_job` is about to update makes SQLAlchemy raise, and
  the sync task ends before its remaining instances.

## What is proved

Every theorem holds for all values of the constants that satisfy the assumption
of its module: any number of nodes, tasks, retries, passes, callers, pages,
visits, editors and handlers, any bounds, and any set of faults unless the
theorem names one that it excludes. Each inductive invariant was first checked by
TLC in the run of its component. All but the refinement and the action
properties are of the form `Spec => []P`; the pattern of the proof is the usual
one (the strengthening holds at first, every action keeps it, it implies `P`),
so what follows is only what the strengthening says and why it is needed.

### The sync engine

- `HubSync_proofs!TypeCorrect` (`TypeOK`). `TypeOK` alone is not inductive:
  `PushWrite` updates a node at the instance and the kind of a push, and only a
  push that is under way has both. `TypeInv` adds `PushShape` (a push outside
  `"none"` has an instance, and a kind while it writes or verifies) and
  `PassShape` (so does a pass for its instance).
- `HubSync_proofs!LockCorrect` (`LockMatchesHolder`). `LockInv` adds `PushOwned`:
  which processes are inside a push at all, so that a lock taken or given back is
  never somebody else's.
- `HubSync_proofs!Refinement`: `Spec => NeverBackwards`, that is, `HubSync`
  implements `ReplicaSet` under the identity mapping of `desired` and `node`. The
  invariant it needs is `FreshInv`: a node never holds more than the desired
  revision, and the value a push is about to write is at least what its node
  holds. The second half is where the push lock comes in: the value was read
  inside the lock, and by `LockMatchesHolder` no other process has written to
  that node since.
- `HubSync_delivery!EditsDelivered` (`NothingForgotten`), under `Harmless`: none of
  `overlap`, `tamper`, `refuse`, `crash`, `discard` and `disable` is in `Faults`.
  Outages, errors, maintenance and manual pushes remain. The excluded ones lose an
  edit by design or by finding 1: a restart loses the task, a discarded job is
  meant to be lost, a node that is changed by hand, does not keep what it was
  sent, or is switched off is not owed anything before the next pass, and `overlap` is the moment of `lost_at_maintenance`.
  `DeliveryInv` says for every node and kind that lacks the newest revision which
  process will still bring it or which job stands for it (`AllPromised`), and for a
  push that has sent a kind that the node holds the newest revision or a push
  decided on since is coming (`Sent`). The second is what lets a successful push
  close the open jobs.
- `HubSync_delivery!MaintenanceKept` (`HandsOff`), for every set of faults. `Decided`
  says which pushes to a node a process still has before it: the rest of one that
  is under way, the instances of a task it has not passed and did not see held back,
  the rows of a retry pass, what a pass will come to. A lemma for each kind of action
  shows that at a node in maintenance it adds none to these (`PushDecides`,
  `SyncDecides`, `RetryDecides`, `PassDecides`, `OperatorDecides`,
  `EnvironmentDecides`); `WritersAreThere` that a push which writes is at the node
  and the kind it was decided for. `EditsDelivered` uses the stronger `LeftAlone`,
  which needs that maintenance is not set mid-push.

### Node status

- `NodeStatus_proofs!TypeCorrect` (`TypeOK`). The type is inductive by itself; what
  it takes is that every view a session is left with, and every text a failed
  call leaves, is one of those the row may hold.

### The central state

- `CentralState_proofs!NewestSpared` (`NewestKept`) and `HistoryStaysBounded`
  (`HistoryBounded`). `HistoryInv` says that a handler about to cut holds a cut-off
  above which `MaxVersions` versions stand (`CutsSpare`): inserts only add above
  it, and another handler's cut takes nothing above its own cut-off either. And
  it says that whoever is about to cut will leave no more than the bound and one
  for each that still has to prune (`CutsTight`). Most of the proof is about
  cardinalities of such sets.
- `CentralState_proofs!TypesKept` (`TypeOK`), among it that two rules never have the
  same id or text. `TypeInv` has a condition for every point a process can be at:
  what it holds there of rows, snapshots and requests.
- `CentralState_promises!PushesScheduled` (`EverythingScheduled`). `Covered`: what is
  committed and not scheduled is owed by a handler that is on its way to
  `schedule_sync`; `SectionsFresh`: a handler that is alone holds a section's row
  as it is, which decides whether it has a change to schedule at all.
- `CentralState_promises!RestoresExact` (`RestoreFaithful`). `Restored` says how far a
  restore is after each of its commits, as long as it met nobody.
- `CentralState_promises!NothingLostByRestore` (`Undoable`). `UndoInv` ties every
  difference between the configuration and the newest version to a handler that
  is about to record it (`Dirty`), and says what the snapshot of a handler under
  way agrees with (`Snapped`).

The last three rest on `Alone`: as long as `mishaps` says that nobody met anybody,
all handlers but one are idle. What happens when they do meet is not left out: it
is in the model, and the properties say what is promised then: nothing for an
exact restore, while `EverythingScheduled` still covers every kind but the
settings, unless a restore gave up half way.

### The services

All of `HubServices_proofs`:

- `FailuresExplained` (`FailureExplained`) and `LockBelongsToLogin`. What explains a
  failure happened while the request was under way, so `SessionInv` speaks of
  requests that have not failed yet: while the node limits, the cool-down runs or
  the password is wrong, each of them has it among its reasons (`TroubleKnown`),
  and one on its second attempt has a cookie the node accepts or a reason
  (`SecondCookie`).
- `CallersCollapsed` (`Collapsed`), by `CacheInv`: one page collects, and whatever is
  neither held nor being collected has been dropped.
- `AccountMadeOnce` (`OneAdmin`). `SignInInv` ties the number of accounts to the
  lock's holder: whoever hashes for the set-up holds the lock and found no
  account, and nobody else makes one.
- `TriesStayBounded` (`TriesBounded`). `ThrottleInv`: a source is tracked at most once,
  the table is not longer than its bound, what a source has failed by the table and
  still has under way is within what the throttle let through (`NoneOverspent`), and
  what it has really failed is what the table says and a whole allowance for each
  time the table dropped it.
- `OutcomeNotStale` (`OutcomeNotOld`) and `OffersHonest` (`OffersTrue`). `RunInv`
  relates the log's last line to the run that wrote it, `AskInv` the answer held to
  the requests that were paid for.

All of `Payloads_proofs`, by `PushesInv`, which has a part for each kind of payload:

- `OneNotionOfDifferent` (`PushAndLogAgree`). Here the work is not in the steps but in
  two computations of the same thing: `Differences`, what the drift log reports, and
  `RequestsOf`, what a push writes, are held against each other whatever the two configurations are: equal for rules and
  subscriptions (`ListsAgree`); for sections, what a push writes is reported, and the
  converse where all that is stored travels.
- `FailuresAreNamed` (`FailuresNamed`). While nobody touches the node, each
  subscription that differs is still asked for or is noted as failed (`ListsInv`);
  of sections, those that were passed are settled, and the one under way lacks
  nothing but what is still to be asked of it (`SectionsMid`, `CoveredBy`). Beneath
  are lemmas about what one request does to a list of clients or rewrites in which
  each name is there once. Rules and subscriptions are any; of sections, any two
  of the table with the data `PayloadInit` gives them.

All of `HubLogs_proofs`:

- `SettingsInForce` (`InForceIsStored`). `SettingsInv` adds what a request holds between
  its commit and its assignment.
- `LogHoldsTogether` (`KeysMatch`). A batch is added row by row by a recursive function;
  `Logs` is the set its values stay in (known keys are those of the rows, each row
  once, no more than the size), and the lemmas `Unfolds` and `UpTo` make that an
  induction over the rows.
- `PagingComplete` (`PagingMissesNothing`). `ArchiveInv`: files begin in order
  (`FilesInOrder`), and a line that was there and has not been shown has at least as
  many newer ones as have been shown (`LeftBehind`): new lines push it towards the
  pages that are still to come.
- `SightingsReal` (`NeverOvercounted`). `EntriesInv`: a row counts no more than the
  sightings without those that passes under way have still to enter (`Vouched`,
  `Supported`); ids ascend and a cut spares the newest row (`CutSpares`), so that an
  id a pass loaded is not given to another row.
- `StreaksAccount` (`StreaksTrue`). Passes that overlap may both fold the same row they
  loaded, so the total can fall short; that it is never too high needs, per
  outcome, the highest count that any pass under way has seen (`HighWater`). As
  long as none overlap nothing is lost (`NoneLost`). `TotalAppended`, `TotalSplit`,
  `TotalGrows` and `TotalOneMore` are what the sum over the rows does when rows are
  added, cut or counted up.

### What stays with TLC

- Liveness under fairness (`Convergence`, `StatusSettles`, `OutageTold`, `ExpirySettles`,
  the whole of `hub_liveness`) and everything about `ENABLED` are beyond the prover.
- Where a recursion over data matters in a proof (`LogHoldsTogether`,
  `StreaksAccount`), the induction is over the index of a recursive function, as a
  statement about a set of indices, because the library's induction theorems take
  an operator and cannot be instantiated.

## Not modelled

- Hashing, tokens and encryption (library code); `bootstrap_admin`, which runs at
  start-up before anything could race with it; onboarding, a flag.
- The frontend, diagnostics, request schemas, translation and formatting in the
  control API, the log buffer and its follower, database migration, `install.sh`
  and images. Their state is either none or not shared between coroutines.
- Statistics, filter refresh and version calls of the adapter, which only read or
  trigger; delivery of notices, which is best effort.
- A write that times out and is applied by the node after the lock was given back
  (see `HubSync`); a task that dies of a deleted row; a dry run.
- `prune_applied_jobs`, the same pruning as that of the drift log over another
  table.

## What is left

- The push under way to an instance that is deleted, whose lock and id are reused.
- The places listed under `hazards` without a property, each with its reason.
