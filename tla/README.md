# Verification of homelab-analytics

TLA+ models of the stateful core of homelab-analytics, their TLC runs, and TLAPS
proofs. Line numbers refer to `src/`. `PROJECT.json` holds the map from definitions to
source lines, the hazards, the runs and the mutants that each property is tested on.

## 1. The system

homelab-analytics ingests household data, promotes it into a DuckDB warehouse, serves
reports, and drives Home Assistant. An API (one or more replicas), a worker (one or
more processes) and a CLI share a control-plane database (SQLite or Postgres) and the
warehouse file. There is no message broker: everything interacts through rows, the
file lock of DuckDB, directories, and HTTP and WebSocket calls to Home Assistant.

| Component | State it keeps | Operations | What is hard | What makes it correct |
|---|---|---|---|---|
| Scheduling control plane (`packages/storage/execution_control_plane.py`) and worker loop (`apps/worker/control_plane.py`) | `execution_schedules`, `schedule_dispatches`; per worker: loop position, `now`, job, renewal thread | recover, enqueue, claim, renew, finish; create, retry, mark, recover by hand; create, update, archive, delete schedules | leases that expire under a running job, several workers, counts outside the write lock, operators overriding rows, crashes | one runner per dispatch, final verdicts, one replacement, bounded concurrency, every dispatch ends |
| Action proposals (`packages/platform/action_proposals.py`, routes, `ha_action_dispatcher.py`) | `action_proposals`, `action_proposal_events`; each dispatcher's `_previous_verdicts` | draft, refresh, re-raise, approve, dismiss, release, revert | read-modify-write under a compare-and-set of the status, an `await` between resolution and release, replicas, idempotency keys | one resolution counts, one resolver releases, decisions stand, the events tell the truth |
| Changes feed (`packages/storage/action_proposal_store.py`) | the counter row, positions and sequences of events; the cursor of each reader | write transactions, paging | overlapping transactions, row locks, lost connections | no event is skipped, every event arrives |
| Pack lifecycle (`packages/application/use_cases/pack_lifecycle.py`) and registry (`packages/storage/external_registry_catalog.py`, sync and discovery) | `pack_installations`; sources, their validated revisions, the cache of entries | install, upgrade, rollback, disable, enable, pin, unpin; synchronise, archive, disable, rewrite a source | a plan made from several reads, a compare-and-set on one row, long legal sequences, entries that change underneath | dependencies satisfied, one provider per publication, pins hold |
| Warehouse session (`packages/pipelines/warehouse_session.py`) | the handle and its mode, leases in flight, active requests, flags | lease, nested lease, end of lease, requests, close, reaper | threads, a condition variable, closing and reopening in another mode, file locks of other processes | no lease loses its handle, nobody sleeps for ever |
| Home Assistant bridge and historian (`ha_bridge.py`, `ha_bridge_ingestion.py`, `ha_history_backfill.py`) | connection, `disconnected_at`; `fact_ha_state_change`, `dim_ha_entity` | connect, subscribe, handle, replay a gap, resync, backfill, post | reconnection, failing replays, restarts, several writers | no change is lost without the bridge knowing, the current state does not go back |
| Landing, run metadata, configured ingestion, promotion, publication | payloads, `ingestion_runs`, the watched folder, facts, current rows, marts, published rows | land, upload, retry, promote, reconcile, refresh, publish | several commits in two databases and a directory, failure between any two | what passed arrives, whatever the order of statements |
| Scheduled backups (`backup_schedule.py`, `backup_bundle.py`) | bundles, lock file, status file | capture, verify, publish, prune, record | captures of three stores beside live ingestion, two runners, crash at any step | bundles are coherent, one can be restored, backups keep coming |
| Decision ledger (`decision_ledger.py`, `decision_evidence_trace.py`) | decisions, follow-ups, lifecycle events | record, follow up, stop, reopen, trace | a state replayed by time from records written in another order | a review asked for is a review due until somebody looked |
| Policies, confidence, freshness, contract comparison, scenarios | none | pure functions | boundaries | agreement with a definition (not modelled) |

Interactions: the worker holds the warehouse lock while it promotes (in
`WarehouseSession` it is the foreign lock, in `Ingestion` the handle, in
`ScheduledBackups` the writer); the publisher loop of each API replica evaluates policies
and calls the dispatcher, which drafts and clears proposals; the registry cache that a
sync fills is what pack changes are planned against; a worker dispatch runs configured
ingestion, whose rows and facts are what a backup captures; a refresh of a mart is what
a trace compares the evidence of a decision with.

What counts as one step is decided by `packages/storage/sql_dialect.py`: a session
with `write_lock=True` is `BEGIN IMMEDIATE` on SQLite and relies on row locks on
Postgres; any other session sees what others commit between its statements.
Request handlers are `async def` but call the database synchronously, so two requests
of one process interleave only at an `await`; the clients and requests of the models
are requests of different replicas, or command-line processes.

## 2. Modules

| Module | Models | Composition |
|---|---|---|
| `DispatchLedger` | abstract: a dispatch is issued, granted, settled or forfeited with at most one heir | implemented by `ExecutionControlPlane` |
| `ExecutionControlPlane`, `..._proofs` | tables, statements, worker loops, API and CLI requests | `ImplementsLedger` |
| `ProposalQueue` | abstract: a gate that opens and closes by recorded events | implemented by `ActionProposals` and by `ProposalFeed` |
| `ActionProposals`, `..._proofs` | registry, store, resolve-and-release requests, dispatchers | `ImplementsQueue` |
| `ProposalFeed`, `..._proofs` | the write transactions of the store, statement by statement, and feed readers | `ImplementsQueue` |
| `PackLifecycle`, `..._proofs` | registry sources; plan and apply, step by step | |
| `WarehouseSession` | the session manager | |
| `HaBridge` | the bridge, the historian, its other writers | |
| `ApiProcess_proofs` | the proofs about the last two, which share the API process | extends both |
| `Ingestion`, `..._proofs` | folder, landing, promotion, reconciliation, mart, publication | |
| `ScheduledBackups`, `..._proofs` | backups beside ingestion | |
| `DecisionLedger`, `..._proofs` | decisions, requests, traces, replay | |
| `MC...` | model values and small functions for TLC | |

### ExecutionControlPlane

`schedule` and `dispatch` are the two tables. A worker goes through
`StartIteration` (reads `now` and the shutdown flag), `Recover`, `BeginEnqueue` /
`CheckDue`... / `CommitEnqueue`, `ClaimNext`, then `BeginWork`, `Renew` by its thread,
`EndWork`, `ReportCompleted` or `ReportFailed`; or `Yield` when there is nothing to
claim. `now` is read once per iteration and used for the recovery, the enqueueing and
the claim, as in the code. A transaction without the write lock is `tx`: the select, one
check per schedule, the commit. Client requests are `EnqueueDue`, `CreateDispatch`,
`RetryDispatch`, `RecoverStale`, `ReadMark`/`WriteMark`, `CreateSchedule`,
`ReadUpdate`/`WriteUpdate`, `SetArchived`, `ReadDelete`/`WriteDelete`. `marked` is a
history variable: the dispatches that `mark-schedule-dispatch` has overwritten, for
which the promises are off.

Abstractions. Recovery, claim, renewal and verdict are one step each: exact for SQLite;
on Postgres the row transitions are atomic too, but recovery's count of active
dispatches may be stale, which is not modelled. `recover_limit`, `SKIP LOCKED`,
heartbeats, `last_enqueued_at`, run ids and edits of the cron expression are left
out. Due schedules are taken in any order. The two reads of a retry are one step. A renewal
that is still running after the renewer was joined with a timeout is not modelled. An
exception that leaves the loop ends the process: `Crash`, or `AbortEnqueue` where the
schedule was deleted under the insert. `InHorizon` keeps leases inside the modelled time.

### ActionProposals

One action per store call. `at` says which call of its handler a process will make
next, `call` holds its arguments and the row it has read (`seen`), which is written
back as a whole under a compare-and-set of the status (`Matches`). Requests are
`Draft` and `Decide`; `Evaluate` and `Post` are the dispatcher of a replica, which
tells the queue only after Home Assistant has accepted the notification. Whether a call
to Home Assistant works is nondeterministic, and a call that has been answered with an
error may have had its effect. `Crash` loses a handler, and with a dispatcher its
verdicts.

Abstractions. A value stands for verdict, value and metadata; `Observed` is the part a
refresh compares (new metadata alone are stored without an event). The first read of
`resolve_and_release` is merged with the registry's own. The last read of
`register`, which only forms the answer, is omitted. Alerts and recommendations keep no
state. An event takes its place in the feed in the transaction that writes it;
`ProposalFeed` opens that transaction.

### ProposalFeed

The transactions that `ActionProposals` takes for one step, statement by statement as on
Postgres: `WriteRow` waits for the lock of the row (`rowHolder`) or finds that the
expected status is gone (`WriteLost`); `NextSequence` counts the events of the
proposal; `ReservePosition` updates the counter row and so keeps it locked
(`counterHolder`) to the end; `Commit` makes row, event and counter visible together;
`Rollback` is a lost connection or a dead process at any statement. A reader (`Read`)
asks for the first events after its cursor, of all proposals or of those it follows, and
passes on the position of the last item it was given.

The log of the abstract queue is the set of events in the order of their positions, so
`ImplementsQueue` says that transactions that overlap write the feed as if each took
place at once. SQLite's `BEGIN IMMEDIATE` allows fewer interleavings.

### PackLifecycle

A request goes through `Begin` (the entries are discovered), `ReadOwn`, `AssessTarget`,
`ComparePublications`, `CheckDependents`, `ReadAgain`, `Apply`. `installation` is the
table, a digest stands for what an entry declares. `source` holds, for each registry
source, whether it is enabled and archived, the manifest at its location, and what its
validated revisions keep of it: a git revision has its own checkout and the newest that
has an entry wins; the revisions of a path source all read the live manifest, as long as
the part their digest covers (`core`) is the validated one. `Cached` is what discovery
makes of that. `Sync`, `Archive`, `Enable` and `Rewrite` change it. `changed` is a
history variable: entries withdrawn or rewritten after they were advertised; a pack with
such an entry is not `Steady`, and the properties about what packs declare are about
steady ones, since the code plans against the cache.

Abstractions. Versions are numbers in their order; a constraint is the set of versions
that satisfy it; only the major of a schema version is kept. `fits` folds the platform
version, the refusal of verified trust and dependencies on platform packs. A refused
plan leaves an audit event and no other state; a failed sync leaves a revision that
nothing counts.

### WarehouseSession

One step per method body under the lock; opening the file is several, during which the
lock is held (`opener`). `held` is the thread-local nesting, `want` and `waits` a thread
in the loop of `lease()` or `close()`. The reaper may fire whenever the handle is
unused (timeouts are abstracted). `foreign` is the file lock of another process.

### HaBridge

`pc` is the loop of `_run`: connecting, subscribed, sleeping, replaying. `since` is
`disconnected_at`, `inbox` what the subscription has sent and nobody has handled. Home
Assistant is `entered`, the times at which each entity changed; `History` and
`CurrentStates` are its two answers. `facts` and `dim` are the historian; `Ingest` and
`IngestPartly` are `ingest_ha_states` when it works and when it stops half-way, between
two facts or between two of the rows by which it updates entities (one entity may then be
left at an earlier state of the batch), `IngestHistory` the backfill's variant,
`PostStates` the route. `excused` is a history variable in which each action notes the
changes that the code gives up on there: the property says that there are no others.

Abstractions. A state is the time at which it was entered. The historian keeps
duplicates, the model which states it holds. The backoff is when `Wake` happens, which
is left open. Connection and subscription are one step.

### Ingestion

The worker lists the folder once (`StartDispatch`), then for each file `TakeFile`
(payload and duplicate check), `CreateRun` (manifest and row), `MoveFile`; `Upload` and
`Retry` land through the API. Promotion is `CountExisting`, `Load`, `Reconcile`,
`ClearMart`, `FillMart` per run, then `ReadMart` and `ReplaceRows` for the published copy
in the other database. Each is a commit of its own. `handle` is the warehouse, which the
worker and a command keep while they promote and a request leases call by call.
`Abandon` is a process that dies or an exception anywhere in between. `reconciled`,
`returned`, `abandoned` and `torn` are history variables.

Abstractions. The dataset is account transactions, the mart the monthly cashflow; the
other marts and domains follow the same steps. A content gives each of its transactions
a description or none; amounts, categories, accounts and lineage are left out, as is
validation but for its verdict.

### ScheduledBackups

Ingestion is a payload, a row, a fact per run. An attempt reads the status and the clock
(`Begin`), takes the lock, captures the control plane, opens and copies the warehouse,
captures the payloads, verifies and publishes, prunes file by file (`Prune`,
`FinishRemoval`), records the outcome. `Fail` and `Crash` may come at any step,
`WarehouseBusy` is a writer that outlasts the retries. Times are ages, capped at
`Interval`, where they stop to matter. A bundle is stamped before the lock is taken, so
one that was overtaken on its way to the lock is listed earlier (`overtaken`,
`InsertAt`).

Abstractions. The content of a bundle is which runs are in each store. Staging
directories are never listed and are left out. Checksums, restore, drills and shipping
off site read bundles only.

### DecisionLedger

A handler reads the clock first (`Begin`), then the stores, and writes last. The state of a
commitment is replayed from `followups` and `events` by the times they carry (`Timeline`,
`Replay`, `State`). `Place` is where an item comes in the sort of the code: after those that
are `Earlier`, so `Timeline` is that sort. A trace lists the decisions, reads the subject
once, and appends a supersession per decision under its dedupe key (`AppendOnce`).
`Republish` is a refresh of the mart; `Lose` a process that dies.

Abstractions. One subject; evidence is a fingerprint. Instants that no two handlers
share: with equal times the code orders by listing, which `Earlier` has. Authorization,
attribution, measures of success and exports are left out.

## 3. Runs

| Run | Question | Bounds | Result |
|---|---|---|---|
| `lease` | do claims, leases, recovery and verdicts fit together, and implement the ledger? | 2 workers, 1 schedule, 3 dispatches, time 0..4, lease 1, 1 crash | holds, 864k states |
| `operators` | ... while an operator uses all nine requests? | 1 worker, 1 client, 3 requests, 3 dispatches, time 0..3, 1 crash | holds, 3.3M states |
| `liveness` | do dispatches end and get claimed, replacements too? | 2 processes with one worker id, 3 dispatches, time 0..4, lease 1, 1 crash | holds, 562k states |
| `queue` | does the queue keep its promises? | 2 requests (symmetric), 1 dispatcher, 1 proposal, 4 operations, 1 crash | holds, 1.4M states |
| `feed` | does a reader miss anything? | 2 writers, 2 proposals, 4 transactions; a reader of all and one of a single proposal, pages of 1 or 2 | holds, 81k states |
| `packs` | do legal sequences stay in legal states while the registry changes? | 1 operator, 2 packs, 2 versions, a path and a git source, 4 changes, 1 edit of a source, any number of syncs | holds, 1.4M states |
| `sessions` | are leases safe and waiters woken? | 3 threads, depth 2, 5 leases, 2 requests, 1 foreign lock | holds, 89k states |
| `bridge` | is every change accounted for? | 2 entities, time 0..3, gaps of 2 are short, 1 lost connection or restart, 1 fault, 1 post, 1 backfill in chunks of 1 | holds, 362k states |
| `ingest` | does what was landed arrive? | a worker, a command, a request; 2 files, 3 contents of which 2 overlap (one transaction only one describes, one both describe, differently, one only one has) and 1 is invalid; 3 runs, 1 upload, 1 promote-run, 1 failure | holds, 538k states |
| `promote_retry` | is promote-run safe to retry? | 1 file, 2 runs, 1 promote-run, 1 failure | no |
| `backups` | are bundles coherent and made? | 1 loop, 1 operator, 1 run coming in, interval 2, retry 1, retention 2, 1 command, 1 fault | holds, 849k states |
| `ledger` | is the replayed state the promised one? | 1 decision, 2 pieces of evidence, 1 API, 1 worker, 5 instants, 2 to a day, first review after 1 day, cadence 1 day | holds, 508k states |

Why the bounds are enough. A lost lease needs a claim, two ticks, a recovery, and a late
verdict of the old worker while the replacement runs: two workers, three dispatches, four
ticks. That a replacement is claimed in turn (`EnqueuedIsClaimed`) is seen when the first
claim is stamped with a time read before the dispatch was enqueued: its lease runs out at
1, recovery comes at 2, and a claim at 2 can still expire inside the horizon. An overshoot
needs an enqueueing transaction and a creation inside it. An ABA on a proposal needs a
resolution, a re-raise, another resolution and a late write: four operations. A skipped
event needs two transactions that have a position and end in the other order, and a reader
between them. A broken dependency needs install, install, and a change of the provider by
upgrade, rollback or disable, with a pin in between: four changes; the edit of a source
may come anywhere. A waiter needs a holder, and a third thread that comes and goes. A lost
state change needs a connection that breaks, a change in the gap, and a replay that works,
fails or is cut short by a restart; a gap of three is long; a batch that stops half-way
matters when it has two states of one entity, which the gap of two can hold. Statements in
the other order need two files with a common transaction and a retry between them. A
bundle that is not coherent needs a run that comes in between two captures; losing the
last restorable bundle needs more bundles than are retained and a runner that was
overtaken. A replay in the wrong order needs a supersession, a follow-up observed before
it and written later, and a stop: four requests. Constants for which TLC would need more
are covered by the proofs, where there is one.

All runs say `CHECK_DEADLOCK FALSE` because requests, ticks and faults are bounded and
the system stops when they are used up; that nothing waits for ever before that is what
`RunningEnds`, `EnqueuedIsClaimed`, `WaiterGetsOn`, `EveryEventArrives`, `Reconnects`,
`FilesArePublished` and `BackupsKeepComing` check.

### Fairness

`lease`, `operators`, `queue`, `packs`, `promote_retry` and `ledger` check safety only.

- `liveness`: weak fairness of `Worker(w)`: a live process keeps going through its loop,
  and a dead one is restarted (the worker runs under a supervisor: a chart Deployment or
  a compose service). Nothing is assumed of the renewal thread, of requests, signals or
  the clock, so the properties allow for an abandoned dispatch whose lease has not run
  out because time stands still.
- `sessions`: weak fairness of the steps of a thread that has begun something: it ends
  its lease or request, and runs when notified. Nothing of the reaper and of other
  processes.
- `feed`: weak fairness of `Read`: a reader polls. Writers may stop anywhere, even with
  locks (their transactions are then rolled back, or block other writers, not readers).
- `bridge`: weak fairness of `Run`: the event loop runs the bridge's task.
- `ingest`: a process that landed a file writes its row (weak), promotion goes on when it
  can have the warehouse again and again (strong: others may hold it in between and the
  code retries), and the schedule keeps dispatching the folder (strong, for the same
  reason). `FilesArePublished` is about behaviours without a failure.
- `backups`: time passes, a writer lets go of the warehouse, the loop polls, an attempt
  goes on (all weak). Faults, commands and what comes in are bounded, so an attempt
  succeeds in the end: a warehouse that is busy whenever an attempt is made is not what
  `BackupsKeepComing` is about.

### Where the code does not do what it says

`promote_retry` is the finding: a process that dies between the commit of the facts of a
run (`transactions.py:74-87`) and the reconciliation of their observations (88) leaves
facts that a later `promote-run` takes for "run already promoted"; the marts are
refreshed without the transactions of the run, for good. `apps/worker/README.md:17`
calls `promote-run` retry-safe.

The following are in the models as the code has them, and no run is spent on showing
that the sentence does not hold:

- `max_concurrency` is counted and used outside the write lock
  (`execution_control_plane.py:393`; `tests/control_plane_test_support.py:1085`:
  "Expected create_schedule_dispatch to enforce max_concurrency"). `OvershootBounded`
  says by how much it can be exceeded.
- A schedule that is restored between the check and the delete is deleted
  (`execution_control_plane.py:353`).
- The revert of a failed release compares a status, not a resolution, and can take back
  a later one (`action_proposals.py:746`, against 17-20 "nobody else can have released
  it in between").
- One path of `register` refreshes without comparing the drafter
  (`action_proposals.py:512`, against 32-33).
- The compare-and-set of a pack change expects a row read after the plan was made
  (`pack_lifecycle.py:791`, against `storage/pack_lifecycle.py:15-19`), and it looks at
  one row, so two operators who change two packs at once can break a dependency. Hence
  one operator in `packs`, and `OneAtATime` in the theorems.
- What a pack declares whose entry was withdrawn or rewritten is not seen by the plan
  (`docs/product/pack-model.md:68-73`); hence `Steady`.
- A replay that fails closes the gap (`ha_bridge.py:248`, against
  `docs/architecture/homeassistant-integration-hub.md:127`); hence `excused`.
- A backfill of an entity nobody has seen, or a posted state, can be ahead of live
  events, which then step back (`apps/worker/README.md:15`); `CurrentNeverRegresses` is
  about behaviours without them.
- A directory whose pruning stopped half-way stays listed (`backup_schedule.py:19-21`:
  "may treat every backup-* directory as complete"). `AlwaysRestorable` says that it is
  never the newest.
- Evidence that returns to an earlier revision is not flagged again, as its dedupe key is
  used (`decision_evidence_trace.py:227`).
- With two API replicas, a stop whose clock was read before a reopening was recorded sorts
  before it; `StopsStick` is about one.

Four more hazards have no property because nothing promises the opposite: a slow
publication that replaces a newer published copy by an older (the mart is read and the copy
replaced in two databases and nothing orders the writes; the next publication puts it right,
and `PublicationsAreBacked` says that no copy shows what was never ingested), writers that
overlapping readers starve, an approved action that is lost (or done twice) when the
process dies around its release, and a schedule update that undoes an edit made since
it read the row.

## 4. Proofs

The only assumptions are the `ConstantsOK` of each module (sets are disjoint or finite, the
constants that stand for "none" are not values, leases and page sizes are positive, the next
occurrence of a cron expression is later than its argument, somebody uses the scheduling
tables, workers and clients are different processes, the folder "none" is not a file) and
two hypotheses: `OneAtATime` for `PackLifecycle`, which says that requests do not overlap
(`TypeCorrect` and `RowsStayWhole` do without it: they hold however requests overlap);
and `OneApi` for `StopsTakeEffect`, which says that there is one API process (section 3 says
what happens with two). Everything else is for every set of processes and values and every
bound. Every property of the passing runs that is not a liveness property is a theorem.

| Module | Theorem | Property |
|---|---|---|
| `ExecutionControlPlane_proofs` | `TypeCorrect`, `Safety` | `TypeOK`, `SafetyInv` |
| | `ClaimsAreHeld` | `WorkerHoldsOrLost` |
| | `RunsAreExclusive` | `OneRunner` |
| | `ReplacementsAreUnique` | `ReplacedOnceAndFailed` |
| | `RunsAreRecoverable` | `RunningIsRecoverable` |
| | `VerdictsAreFinal` | `TerminalIsFinal` |
| | `OvershootIsBounded` | `OvershootBounded` |
| | `ClosedStaysQuiet` | `ClosedGetsNothing` |
| | `LedgerImplemented` | `ImplementsLedger` |
| `ActionProposals_proofs` | `TypeCorrect` | `TypeOK` |
| | `FeedIsFaithful` | `StatusMatchesFeed` |
| | `ReleasesAreExclusive` | `OneReleaser` |
| | `DecisionsAreFinal` | `DecisionsStand` |
| | `QueueImplemented` | `ImplementsQueue` |
| `ProposalFeed_proofs` | `TypeCorrect`, `Safety` | `TypeOK`, the invariant |
| | `ReadersMissNothing` | `NothingSkipped` |
| | `PositionsAreGapless` | `Gapless`, which the refinement rests on |
| | `HistoryIsGapless` | `Numbered`: the sequences of a proposal are 1, 2, ... n |
| | `TransactionsNeverDeadlock` | `NoDeadlock` of the row and counter locks |
| | `QueueImplemented` | `ImplementsQueue` |
| `PackLifecycle_proofs` | `TypeCorrect`, `Safety` | `TypeOK`, the invariant |
| | `DependenciesHold` | `DependenciesSatisfied` |
| | `ProvidersAreUnique` | `ProvidersUnique` |
| | `PinsHold` | `PinHolds` |
| | `RequirementsAreKept` | `RequirementsKept` |
| | `RowsStayWhole` | `RowsWhole` and `InstalledStays`, for requests that overlap |
| `ApiProcess_proofs` (handle) | `TypeCorrect`, `Safety` | `TypeOK`, the invariant |
| | `LeasesFit` | `LeasesFitHandle` |
| | `SleepersAreWoken` | `NoLostWakeup` |
| | `HandleIsStable` | `HandleStaysUnderLease` |
| | `HandleNeverDeadlocks` | `NoDeadlock`: somebody can go on while anybody waits |
| `ApiProcess_proofs` (bridge) | `BridgeSafety` | the invariant, types included |
| | `ChangesAreAccounted` | `EveryChangeAccounted` |
| | `RecencyStands` | `CurrentNeverRegresses` |
| | `HistorianIsTrue` | `HistorianTrue`: every recorded state is one an entity was in |
| `Ingestion_proofs` | `TypeCorrect`, `Safety` | `TypeOK`, the invariant |
| | `RunsArrive` | `PassedRunsArrive` |
| | `RichestStands` | `CurrentIsRichest` |
| | `MartIsRefreshed` | `MartFollowsCurrent` |
| | `OnlyPassedRunsLoad` | `FactsComeFromPassedRuns` |
| | `RetryGapIsTorn` | `OnlyTornRunsAreMissed` |
| | `DescriptionsStand` | `DescriptionStands` |
| | `PublicationsAreBacked` | `PublishedIsBacked` |
| `ScheduledBackups_proofs` | `TypeCorrect`, `Safety` | `TypeOK`, the invariant |
| | `BundlesAreCoherent` | `BundlesCoherent` |
| | `RestorableStays` | `AlwaysRestorable` |
| | `LocksAreLetGo` | `LocksLetGo` |
| `DecisionLedger_proofs` | `TypeCorrect`, `Safety` | `TypeOK`, the invariant |
| | `ReviewsAreUnique` | `OneReviewPerRevision` |
| | `SupersessionsStand` | `SupersessionStands` |
| | `ReviewsMoveLater` | `ReviewNeverBroughtForward` |
| | `StopChecksAgree` | `StopCheckAgrees`: `_is_stopped` and the replay agree |
| | `StopsTakeEffect` | `StopsStick` |

Scheduling. None of the safety properties is inductive alone: that a worker still
holds its claim depends on recovery never putting a row back into the queue, that
depends on what a late verdict may overwrite, and that on who holds the claim.
`SafetyInv` is their conjunction with `TypeOK` and three links: a row that exists names a
schedule (`RowsHaveSchedule`), a worker has a job exactly while it is busy
(`JobsMatchPC`), and an operator about to overwrite a row has seen one
(`MarksMatchRows`). The proof does not go through the 25 actions once per property:
`NextStep` shows that every action is a `Step`, in which each row stays, is created,
claimed, renewed, ended or overridden (`RowStep`), new replacements replace rows that
fail in the same step (`HeirsStep`), and jobs change in three ways (`JobStep`). The
preservation of the safety properties, and `VerdictsAreFinal`, follow from `Step` alone.
What insertions do (`InsertingType`, `InsertingOnce`) and what the row operators return
are lemmas. `LedgerImplemented` maps each row move of a `Step` to one action of
`DispatchLedger` or a stutter. `ClosedStaysQuiet` needs that a transaction takes up only
schedules that are open (`TakesOpen`). For `OvershootIsBounded` every step does one of
four things to the load of a schedule (`Shrinks`, `Checked`, `Delivered`, `Refilled`): a
check that found room lets one more transaction through, of which there are at most as
many as processes, and a commit trades that transaction for its row. The limit is one that
was given to some request (`\E cap \in Caps`), since the limit of a schedule may be
lowered while dispatches are active; `TxFits` says that what a transaction has read of it
was one.

Proposals. `SafetyInv` adds to the types what the arguments of a handler are by where it
is (`CallsFit`: who refreshes has seen a pending row, who re-raises a resolved one, and a
dispatcher never releases), that the last event of a proposal gives its status
(`FeedFollows`), and that a proposal stays resolved while somebody releases it
(`ReleasersHold`), without which `OneReleaser` is not inductive: the second releaser
would have to win a resolution, and that needs a pending row. `NextStep` shows that every
action is a `Step` of one process, which leaves the tables, rewrites a pending row in
silence (`Restated`), or changes a row with an event that the gate allows (`Recorded`),
and joins the releasers only by a resolution. All theorems follow from that.

Feed. A reader's cursor says nothing about events that are not there yet, so the
invariant is about the writers: who has written a row holds it (`RowsHeld`), who has
reserved a position holds the counter, and that position is next (`CounterHeld`),
sequences in the making are new (`SequencesFit`), committed events are at or below the
counter and ordered by position as by sequence (`EventsFit`), and cursors are at or
below the counter and at or above what was received (`ReadersFit`). With these an event that is
committed is after every cursor, and what is at or before a cursor has been received
(`Received`). For the refinement, `Gapless` says that every position up to the counter is
that of one event; so the log of the abstract gate, which sorts the events, is the
function from positions to events (`LogFits`), and a commit appends to it. `Numbered` is
why the model may write `MAX(sequence) + 1` as a count of the events: under the row lock
the two are the same, so the UNIQUE constraint on (action, sequence) has nothing to refuse.
`NoDeadlock` needs the converse of `RowsHeld` (`LocksBelong`: a lock on a row is held by a
transaction that is past that row): rows are locked before the counter, so whoever holds
the counter can commit, and whoever holds a row waits for the counter at most.

Packs. A plan is judged in several steps, so the invariant carries what each check has
found to the moment of `Apply` (`PlansHold`: `OwnRead`, `Assessed`, `Compared`,
`DependentsChecked`, and `EntriesMatch` for the entries it looks at); as nothing else
changes installations in between, the verdicts still hold then. Sources do change in
between, which `changed` records, and what has changed is not steady. `RowsFit` and
`InstalledMatches` tie a row to the digest of the entry it was made from. When requests do
overlap, none of those verdicts need still hold at `Apply`. `OverlapInv` keeps what does:
nothing is ever uninstalled, so an upgrade or a rollback still has a row to work on
(`Ready`), and the row read again before the compare-and-set is a whole one
(`RequestFits`). So even then no installed row lacks its digest or half of its previous
version (`RowsStayWhole`); what overlap can break is the relation between rows.

Sessions. `LeasesFitHandle` needs that the counter of leases is what the threads hold
(`Counted`), that there is room for one more where a thread asks for it (`DepthFits`), and
that nobody holds a lease while a file is being opened (`OpenerFits`). `NoLostWakeup` needs
who sleeps, without a lease and for what (`WaitersFit`). Deadlock freedom adds that a
thread that holds a lease waits for nothing (`HoldersFree`): with `NoLostWakeup`, whoever
sleeps is waiting for a lease whose holder can return it. The provers have no ENABLED, so
this `NoDeadlock` and that of the feed spell out the guards of the actions instead.

Backups. `Ordered` says that facts have rows and rows have payloads; `CapturesFit` that
what an attempt has captured is still in the live stores and what it set out to hold is in
each store it has captured, which makes the bundle coherent when it is published
(`Coherence`); `LocksFit` that only the holder of the lock captures and prunes, and that
there is a bundle too many while one is removed. `RestorableStays` follows: a bundle that
becomes the newest is whole, and what pruning takes is never the newest. `LocksLetGo` needs
the converse of `LocksFit` (`HoldersWork`): whoever is recorded as the holder is at a place
in the code that will release, on the paths that fail as well.

Bridge. `EveryChangeAccounted` is inductive with what makes a replay complete: a gap is open
exactly while the bridge sleeps or replays (`LoopFits`), every change is in the history Home
Assistant answers with (`HistoryFits`), and what the subscription has sent is in the order
of the changes (`InOrder`). `RecencyFits` adds that, without other writers, the current
state of an entity is behind what is under way: while a gap is open no entity is ahead of
its beginning, since what is replayed starts there (`ReplayIsLater`). So a replay that
stops half-way, which may leave an entity at any of the states it was replaying, has moved
none of them back, and left all of them behind what comes next. The facts about maxima
that the proof needs (`Max` of a finite set of times) are lemmas by minimal counterexample.
`HistorianTrue` is about what reaches the warehouse: what Home Assistant answers are states
its entities have been in (`AnswersReal`), so what waits in the inbox is too
(`HistorianFits`); facts are inserted before entities are updated, and the newest state of a
batch is in the batch, so no current state is without its fact. The handle and the bridge
share a module because both run in the API process and the bridge ingests through the
handle; they share no variable, and neither proof uses the other.

Ingestion. `ProcFits` says what a process knows by where it is: a run that it promotes is
recorded, one that it lands is not; it holds the warehouse between the load and the
reconciliation and between emptying and filling the mart; and what it refreshes has been
reconciled, or was torn by an earlier failure. `FactsFit` says the same of the stores: the
run of a fact has passed, and its transactions are current, are being reconciled, or the
run was torn. `RetryGapIsTorn` draws the line around the finding of `promote_retry`: a
promotion can end well without its run's transactions only after a failure at exactly that
place. `RichestStands` is inductive because reconciliation writes a description only over
a blank one, in one commit. `PublishedIsBacked` follows a published row back through
every copy that was made of it: the published rows, the mart and what a process has read of
it are known transactions, a known transaction was loaded first, the run of a fact has it
in its statement, and its description is that of some reconciled statement (`Backed`).

Decisions. That a revision has one review follows from the dedupe key in the same
transaction; `SafetyInv` adds to the types that a trace works on recorded decisions. What
the replay shows is a fold over a sorted sequence, so the other theorems need three more
layers. Two handlers never work at one instant and no two records carry the same
(`HandlersApart`, `EventsApart`, `FollowUpsApart`, together `TimesInv`; the clock moves on
with every request). Under that order every item has a place of its own (`Places`), and
the timeline lists each item once, the earlier first (`TimelineSorted`). The recursion of
the fold is unrolled once and for all (`ReplaySteps`): there is no induction theorem the
provers can use, so the smallest length that cannot be unrolled is shown not to exist, and
likewise the smallest prefix whose replay is not what its items say (`PrefixFits`: stopped
by the last stop or reopening, the supersessions after the last follow-up, and the latest
of the due dates). From there `SupersessionStands`, the agreement of `_is_stopped` with
the replay, and that the next review only moves later, are statements about sets of
records. `StopsStick` also needs that the numbers of stops and reopenings have no gap and
that the handler that writes the next one is later than all of them (`EndsInv`), which is
where one API process is needed.

Only model-checked: the liveness properties, which are out of the prover's reach together
with the fairness and ENABLED they rest on (`RunningEnds`, `EnqueuedIsClaimed`,
`EveryEventArrives`, `WaiterGetsOn`, `Reconnects`, `FilesArePublished`,
`BackupsKeepComing`). `PromotedRunsAreCurrent` does not hold (`promote_retry`). That the
abstract modules are the right promises, and that the models are the code, is not
something a proof says.

## 5. Not modelled

Each component and what is left out of it is in `PROJECT.json`. In short:

- Parts of the modelled ones: activation of registry revisions (code loaded at
  start-up), git checkouts and validation of modules; the MQTT publisher, which pushes
  what it reads; HTTP ingestion definitions, which land one response; the datasets other
  than account transactions, which follow the same steps with other columns; restore,
  drills and shipping of backups, which read bundles; authorization, evaluation of
  success and exports of decisions.
- Pure functions, over data that TLC would have to be given in full and whose agreement
  with a definition is what unit tests are good at: policies, confidence and freshness,
  contract compatibility, scenarios and decision computations, category rules.
- Single writes without interaction: reporting snapshots, source contracts and ingestion
  configuration, break-glass, adapter registry, current dimensions, migrations.
- Reading and presentation: reports, overview marts, demo data, the web console, charts,
  site and infrastructure. Most of the repository's lines are here: queries and column
  lists that keep no state of their own.
- Database sessions and dialects are not a module: their transaction boundaries decide
  what is a step in the others, and `ProposalFeed` has their locks, commit and rollback.

What would be worth adding first: a second dataset whose reconciliation goes the other
way (a refund, a transfer) to `Ingestion`; two operators in `PackLifecycle` once its
compare-and-set expects the row the plan was made from.
