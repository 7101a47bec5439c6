# Verification of the forjd control plane and data plane

TLA+ models, TLC configurations and machine-checked proofs for the parts of forjd
whose correctness depends on the order in which API handlers, supervised workers and
operators act on shared Postgres rows. Everything is translated from the code under
`src/`; the tables below say which module stands for which function.

1. [The system](#1-the-system)
2. [Modules](#2-modules)
3. [What the runs show](#3-what-the-runs-show)
4. [What is proved](#4-what-is-proved)
5. [Not modelled](#5-not-modelled)
6. [How the project grew, and what is left](#6-how-the-project-grew-and-what-is-left)

## 1. The system

forjd receives sealed telemetry over HTTP, stores ciphertext and routing metadata,
processes batches of it with a workflow engine, keeps a queryable projection of the
results and reacts to signals with playbooks. The backend is a FastAPI process, run in
several replicas, with supervised background workers in each (a worker that ended is started
again by the next readiness probe); the engine (Rust) adds a message-bus data plane. All
coordination goes through Postgres: row leases (`lease_owner`, `lease_expires_at`, an
attempt number), advisory locks, unique keys and transactions. A process may die between
any two statements.

| Component | State it keeps | Operations | Interaction | What makes it hard |
|---|---|---|---|---|
| Ingest acceptance (`services/ingest.py`) | `telemetry_events`, new receipts | accept a batch of sealed events, find and wake earlier receipts, run a tick | advisory fence shared with the projector; receipts shared with workers | overlapping duplicate requests, rollback, commit order against the checkpoint |
| Durable processing (`services/ingest_processing.py`) | `ingest_processing_batches` | register, recover expired leases, claim, heartbeat, complete, fail, wake | one transaction writes results, dead letters, checkpoint and receipt | lost leases, zombie workers, retries that revive, crash on the last attempt |
| Projections (`services/projections.py`, `projection_worker.py`) | `stream_results`, `projection_checkpoints`, `projection_dlq` | snapshot, upsert, resolve or enqueue dead letters, advance | session advisory lock, acceptance fence | page read before the flow, used after it; races with live batches |
| Dead-letter retry and replay (`services/replay.py`) | `projection_dlq` leases | claim, re-project, close, release; replay a range | results in one transaction, closing in another | lease expiry in the middle, two operators, a replay beside everything else |
| SOAR playbooks (`services/playbooks.py`) | runs, actions, frozen plan | execute, continue, acknowledge, retry, tick | webhooks to the outside, leased actions | crash between two actions, late acknowledgements, lost leases |
| SIEM signals and cases (`services/siem.py`, `soc.py`) | signals, signal receipts, cases | create signal, match, open case, run playbooks | calls SOAR after its own commit | replay of a half-finished signal while operators edit the playbooks |
| Exports (`services/exports.py`) | `export_jobs`, artifacts in object storage | create, claim, heartbeat, finish, download, delete, expire | object store is outside the transaction | orphaned artifacts, lost lease, delete against a running job |
| Outbox relay, normalizer (`engine/.../outbox_relay.rs`, `normalizer.rs`) | outbox rows, stream, pending entries, receipts, observations | claim, publish, mark; read, claim stale, normalise, acknowledge | at-least-once stream between them | crash between publish and mark, redelivery |
| Scheduler (`engine/.../cron_publisher.rs`) | bucketed task runs | ensure bucket, claim, publish or run natively, complete, fail | HTTP tasks, stream | published runs that nobody completes, lease extension |
| Sessions, erasure, retention, provisioning, service accounts | crypto sessions, tenants, members, credentials, provisions, receipts of erasure | register, renew, revoke; accept; erase; provision, rotate | every handler authenticates, authorises and writes in separate statements | checks that are stale when used, rows that come back after an erasure, lost answers |
| Supervision, readiness, schema preparation (`main.py`, `core/worker_health.py`, `tenants.py`) | pool, task registry, schema caches, health | start, prepare, replace workers, answer probes, stop | probes share one readiness task; handlers wait for the same locks | races of probes, a repair that fails half way, shutdown in between |
| Status pages (`services/status.py`, `health_pinger.rs`) | pages, services, incidents, observations | CRUD, public lookup, probing, uptime, moving a page | checks in one statement, writes in another | a page deleted or moved in between; an answer made of several reads |
| Analytics and training (`analytics_worker.py`, `analytics.py`, `training_worker.py`, `ml/`) | hourly buckets, scores, model files, published models | leased loops, the same work by request, overview | a lease that ends with its connection | two counts of one hour, a model half written, an empty window, a read that fails |
| Rate limiting, threat intelligence, workflow registry, scanners, reports, ETL, edge function | rows or windows of their own | CRUD, parsing, outbound HTTP | little | see section 5 |

What makes each correct, in short: an accepted event is never lost and never counted as
done without results; a lease is a fence, so whoever lost it changes nothing; a cursor
never passes what it has not seen; a retry is idempotent; something that was started is
eventually settled; a check that was made earlier is backed by a key, a lock or a fence
where it is used.

## 2. Modules

| Module | Stands for |
|---|---|
| `IngestLedger` | acceptance, receipts, projection, dead letters and replay of one tenant and one workflow: `ingest.py`, `ingest_processing.py`, `projections.py`, `projection_worker.py`, `replay.py`, `sql/024` |
| `ReceiptContract` | what the API promises of a receipt: opened for new events, completed once with all its results, or failed and possibly reopened |
| `SoarRun` | one playbook run with its frozen plan, action rows, requests and retry worker: `playbooks.py`, `sql/020`, `sql/025` |
| `PlanContract` | what a run promises about its plan: one action at a time, in order, nothing done is undone |
| `SignalReceipt` | one security signal with all requests that submit it and the operators who edit playbooks meanwhile: `siem.py`, `soc.py`, `run_matching_playbooks`, playbook updates |
| `DurableExport` | one export job with its workers, object storage, sweep and removals: `exports.py`, the export part of `tenant_erase.py`, `sql/023` |
| `ExportContract` | what an export promises: pending until it is completed, with a file that stays until it may go, or failed |
| `TaskSchedule` | the rows of `scheduled_task_runs` and the schedulers of all replicas: `cron_publisher.rs`, `maintenance.rs` |
| `StreamBus` | the `telemetry-raw` stream and its consumer group: `bus.rs` |
| `OutboxRelay` | one row of `outbox_events` and the relays: `outbox_relay.rs`, `db.rs` |
| `Normalizer` | the consumers, their receipts, observations and dead letters: `normalizer.rs` |
| `TelemetryPath` | `OutboxRelay` and `Normalizer` composed over one `StreamBus` |
| `DeliveryContract` | what an outbox row promises: published only if handed over, or a dead letter; every copy stored or kept before it is done with; nothing taken back |
| `Tenancy` | who may act on a tenant's rows and how those come and go: `auth.py`, `security.py`, `tenants.py`, `service_accounts.py`, `partner_provision.py`, `sessions.py`, `tenant_erase.py`, `retention.py`, the session check of `ingest.py` |
| `Supervision` | one API process: `main.py`, `worker_health.py`, `worker_lease.py`, the schema check and repair of `tenants.py` and `exports.py` |
| `StatusTables` | the tables of the status pages, their constraints, what an answer made from them says, and what must hold of both |
| `StatusPage` | the handlers, the mover, the prober and the readers of pages with their services, incidents and observations: `status.py`, `health_pinger.rs`, `sql/008`, `sql/028` |
| `LearningState` | what is stored and learned, how it ages as time passes and results come in, and what must hold of it |
| `Learning` | rollups, refreshes, training and publishing of models, the overview: `analytics_worker.py`, `analytics.py`, `training_worker.py`, `ml/sla_model.py`, `ml/threat_model.py`, `ml/forecasting.py`, `ml/norse_ssn.py`, `ml/store.py`, the `fit`, `score` and `train` routes |
| `MC*` | the constants of each for TLC |
| `IngestLedger_proofs`, `SoarRun_proofs`, `SignalReceipt_proofs`, `DurableExport_proofs`, `TaskSchedule_proofs`, `TelemetryPath_proofs`, `Tenancy_proofs`, `Supervision_proofs` | the theorems, see section 4; `Supervision_proofs` also holds those of `StatusPage` (an instance `Page` over `StatusTables`), `SoarRun_proofs` those of `Learning` (an instance `Learn` over `LearningState`) |

An action is one committed transaction, or one statement or outside call that commits by
itself; an actor can stop, and others can run, between any two. Definitions marked
`Mutant` describe a plausible mistake in the operator that follows them; no specification
uses them. They document what each property would catch.

### IngestLedger

| Variable | Code |
|---|---|
| `pos`, `stamp` | `telemetry_events.created_at` of committed and of inserted, uncommitted rows (only the order matters) |
| `fence` | the transaction-level advisory lock `projection_acceptance_fence_name` |
| `phase`, `request`, `ids`, `job` | program counter and locals of a request handler or a worker |
| `receipts` | `ingest_processing_batches`; a receipt is named by its set of events, because `dedupe_key` hashes them and a trigger freezes them |
| `done` | source events with rows in `stream_results` |
| `dlq` | newest `projection_dlq` row of an event (open or resolved, attempts, lease) |
| `cursor` | tuple in `projection_checkpoints` |
| `lease`, `snapshot` | session advisory lock of a projector and the page it read |
| `retrying` | what each `retry_dlq_item` call is doing |

Wall-clock columns become two-valued: `lease` is `"live"` or `"expired"`, `due` says
whether `next_attempt_at` has passed, and the clock actions `ExpireLease`, `BecomeDue`
and `ExpireDlqLease` may happen at any moment, so an expired lease still held by a
working process is a normal state.

Handlers accept (`BeginAcceptance`, then `CommitAcceptance` or `RollbackAcceptance`),
wake earlier receipts when every event was a duplicate (`WakeReceipts`), and tick over
their own receipts. Workers tick over all of them. A tick recovers expired leases
(`StartTick`), claims one receipt at a time (`Claim`), runs the flow while its
`Heartbeat` renews, and ends in `CompleteBatch`, `FailBatch` or, when both transactions
are refused, `AbandonBatch`. Projectors take a page (`TakeSnapshot`) and either project
it (`ProjectPage`) or hand it to the dead letters (`FailPage`). Retriers claim one dead
letter, project its event and close the row in three separate transactions; or they replay
a range: the rows are replaced in one transaction per workflow (`ReplayRange`), or a flow
that failed leaves a dead letter per event, one statement each (`ReplayFails`). What a
replay reads of its events beforehand never changes, so it needs no step of its own.

The flow itself is a nondeterministic outcome. Not in this module: result row keys and
aggregate rows, tenant erasure and retention (`Tenancy`), several tenants (every
row is keyed by tenant and workflow, and nothing crosses), the per-tick claim limit of
ten (it exceeds every bound used).

### SoarRun

| Variable | Code |
|---|---|
| `plan`, `run` | `action_plan_snapshot` and `status` of the one row in `playbook_runs` |
| `status`, `attempt`, `owner` | columns of `playbook_action_results`, one row per plan position (`"absent"` before its insert) |
| `ripe` | the time the row waits for has passed: `lease_expires_at` of a running row, `next_attempt_at` of a scheduled one |
| `posted`, `accepted` | what went over the wire: attempts sent, and positions whose receiver answered 2xx |
| `at`, `stage`, `step`, `try`, `outcome`, `view` | program counter and locals of a request or a worker: where a tick resumes, the position and attempt in hand, the answer, the statuses read by `_refresh_run_status` |
| `crashes` | bound on interruptions |

Requests execute, acknowledge and retry; whoever inserts or claims a webhook posts it,
persists the outcome under its lease and walks on. `_refresh_run_status` is two actions,
`ReadStatuses` and `WriteStatus`, because it is two statements. A worker's tick finalizes
expired last attempts, claims due webhooks one by one, then resumes an open run whose
rows are all settled. An attempt number of 1 marks a first delivery by the inserter, any
other a claimed one. Plans are drawn from `Plans` when the run is created; editing the
playbook later changes nothing because the code reads the snapshot. Left out: playbook
CRUD, matching, listings and audit rows (an audit insert that fails is an `Interrupt`).

### SignalReceipt

| Variable | Code |
|---|---|
| `stored`, `status`, `result` | `content_sha256`, `processing_status`, `processing_result` of the row in `security_signals` |
| `case`, `runs` | the case with this `source_signal_id`; per playbook, the run under this signal's idempotency key, with the version its plan was taken from |
| `version`, `active` | how often each playbook was edited, 0 before it exists; playbooks that are active and whose conditions the signal meets |
| `sent` | what each request carries: content, the flags `correlate` and `run_playbooks`, the caller's scopes for cases and playbooks |
| `at`, `todo`, `draft`, `found` | program counter and locals of each request: playbooks still to execute, the one read and not yet inserted, the result so far |
| `answers` | results clients have been given |
| `edits`, `faults` | bounds on operators and on interruptions |

A request inserts the row or resolves it, opens or finds the case if it is to correlate,
and if it is to run playbooks reads those that
are active and match, and for each reads its plan (`draft`) and inserts a run or resumes the
one there is; it completes the row or, if another request has done so, reloads its result.
Operators edit, create, activate and deactivate playbooks at any time. What a run does
afterwards is `SoarRun`; here it only settles. Correlation rules are code, so whether one
matches is the constant `OpensCase`. Left out: audit records, whose failure is an
`Interrupt`. The receipt of `api/v1/threat_intel.py` works the same way.

### DurableExport

| Variable | Code |
|---|---|
| `status`, `attempts`, `owner`, `key` | columns of the one row in `export_jobs` (`key` is `object_key`; a key is the attempt number and worker that `_artifact_key` puts into it) |
| `ripe`, `old` | the lease or `next_attempt_at` has passed; `expires_at` has passed |
| `objects`, `asked` | keys in object storage; keys a removal has begun to delete |
| `at`, `num`, `held`, `cleaned`, `found` | program counter and locals: the attempt claimed, the key in hand, `cleanup_succeeded`, the status a sweep read |
| `faults` | bound on faults |

`_process_claimed_job` is one action per statement or storage call, from `CleanStale` to
`Finish`, with `Discard`, `Abort` and `Record` as its ways out. The constant `Faults`
says what may go wrong: a `crash`, a call that `raise`s with or without effect, a lease
that `stall`s under its worker although the heartbeat runs, and an `unheard` commit. The
`lease_lost` flag is not a variable, because a worker that lost its lease finds out at
the next fenced statement as well and cannot regain it before it leaves the job. Left
out: rendering, listing and signing of downloads, and the limits per tick (with more jobs
than a tick handles, a job waits for a later tick).

### TaskSchedule

| Variable | Code |
|---|---|
| `state`, `attempts`, `claimedBy`, `lease` | columns of `scheduled_task_runs`; rows are numbered in the order of the claim, `lease` is the ticks until `lease_expires_at` |
| `clock` | how many buckets have begun |
| `at`, `claims`, `got`, `seen`, `beat` | program counter and locals of a replica's scheduler: claims of this pass, the claimed row and its state at the claim, ticks since the heartbeat |
| `triggered`, `executed` | what happened outside the row: the trigger was sent, the native task ran |
| `faults` | bound on faults |

Time matters here, because the question is whether heartbeats are frequent enough, so it
is counted in ticks of the scheduler's pause. With `Punctual` false any step may outlast
any lease; with `Punctual` true only native executions take time, which is what the
lease lengths are chosen for. Statements are fenced by claimer and state, never by the
end of the lease, and so are the actions. `Execute` of `db_cleanup` includes its deletion
of old rows. A replica that crashes comes back under another owner id (`Gone` holds what
its predecessor had claimed).

### StreamBus, OutboxRelay, Normalizer, TelemetryPath

| Variable | Code |
|---|---|
| `entry`, `idle` | where each message stands for the consumer group, and whether it is pending longer than `min_idle_ms` |
| `row`, `published`, `dead`, `attempts`, `owner`, `ripe` | one row of `outbox_events` (`ripe`: `available_at` and the lease have passed) |
| `relayAt` | program counter of each relay |
| `receipts`, `observed`, `quarantined` | `telemetry_ingest_receipts`, observations stored, `telemetry-raw-dlq` |
| `normAt`, `batch`, `reclaimed` | program counter and locals of each consumer |
| `faults` | bound on faults |

Relays lease the row, send it and mark it in three steps, any of which can fail with or
without effect (`raise`), be cut off (`crash`) or outlast the lease (`stall`). A row sent
twice is two messages. Consumers recover stale messages before they read new ones, store
under a receipt, acknowledge, and quarantine what fails after a recovery. `Poison`
messages are refused by `persist_event` whatever happens; `Garbled` ones do not survive
`decode_message` and never reach a consumer. `Forget` is the deletion of receipts after
30 days: it assumes that by then the message is acknowledged and in nobody's hands, since
pending messages are recovered every minute. Left out: the trimming of the stream at a
million entries, what an observation holds, rows of one relay batch after each other (a
relay waits for all of them before it claims again), and deletion of old observations.

### Tenancy

| Variable | Code |
|---|---|
| `tenant` | rows of `tenants`, by id: the slug |
| `role` | `tenant_members` |
| `account` | `service_accounts`: tenant, scopes, active, whether it has a key, the machine principal bound to it, the partner reference in its metadata |
| `provision` | `partner_provisions`: per external reference, tenant and current account |
| `session` | `crypto_sessions`: owner, and live, expired or revoked |
| `sealed`, `queued` | tenants with rows in `telemetry_events`; the unfinished row of `ingest_processing_batches` (`"cut"`: deleted by an erasure that has not committed) |
| `receipt` | `tenant_erase_receipts`: who asked, the tombstone of the credential, and (a history field) with which credential |
| `spent` | ids ever given out: they are random and never come back |
| `call`, `asked` | per request, the handler it is in with its locals; bound on requests |

A request is authenticated (`Principal`), authorised (`Allowed`) and writes, in three
steps; provisioning holds the lock of its reference instead (`provision`, `locked`).
Cascades are those of the foreign keys. Erasure looks for an earlier receipt before and
under its lock, deletes what has no key of its own, then the tenant, all in one
transaction that can fail, and writes the receipt with the tombstone in it. Credentials
are three: a person's JWT, an opaque token, and a service JWT bound to an account.

Reductions: a JWT whose tenant claim differs is folded into the refusal; lists of custom
scopes are the default one with or without `tenants:erase`; retention may act at any time
the ages allow, which the model takes to be always; of the unfinished batches of a tenant
only whether there is one is told. The service JWT of a tenant that was erased cannot
recover a lost answer (its account is gone and only opaque tokens have a tombstone), so
`LostAnswerRecovered` speaks of the other two.

### Supervision

| Variable | Code |
|---|---|
| `phase` | the lifespan of the process, from boot to closed pool, or to a shutdown that an error cut short |
| `up`, `migrated` | Postgres answers; which parts of the schema are complete |
| `soft` | a local build, whose schema check repairs what is missing |
| `pools`, `dialing` | `_ensure_dependencies` and its lock |
| `schema`, `checking` | caches of passed schema checks per mode, and who holds the lock of each |
| `prepared`, `verified` | catalogue written; the workers' own tables checked |
| `task` | the readiness task all probes share |
| `known`, `live` | the registry's entry of each worker (absent, running, over, or ended with an error that its task keeps); how many of its tasks really run |
| `health`, `proved` | what `worker_health` was told since the start; history |
| `probe`, `handler` | requests for readiness and others that need the schema |
| `faults` | bound on what goes wrong: a database that goes away, a worker that ends or hangs, a statement that fails |

A step is what runs between two awaits. A repair commits statement by statement, one part
of the schema each, and can stop at any of them. Only the production image asserts and
only local builds repair. Two workers stand for the seven: `ingest`, the only one started
without a pool, and `exports`, whose tables are checked on their own. Shutdown cancels the
tasks, waits for them and closes the pool (`Stopped`), unless one of them ended with an error,
then or earlier: waiting for it raises the error again, and nothing is closed (`Aborted`).

### StatusTables, StatusPage

| Variable | Code |
|---|---|
| `page`, `service`, `incident` | `status_pages`, `status_services`, `status_incidents`, by id |
| `observed` | `health_probe_observations`, by service and day |
| `spent` | ids once given to a row |
| `bucket`, `prober` | the prober's time bucket, which is also today (a bucket is a day); the list it works on with the bucket it began in |
| `call`, `asked` | per request, the handler it is in and what it has checked; bound on writing requests |
| `reader` | the public or owner's read in progress: candidates, page, how it was found, services and probes read, history |
| `standing` | history: pages published under one slug since the lookup began |

A handler checks the page in one statement and writes in another. A slug is the sequence
of its hyphenated words, which is what the lookup of a stem tells apart. The public
answer reads candidates one by one, then the stem, then services, probes and latency. Probes
are those since `HistoryDays` times 24 hours ago, which takes in the later hours of the day
before those the history shows: any part of that day's may be counted (`Windows`).
`MovePage` moves services, incidents and page in one transaction, which the composite foreign
keys refuse when the page has any.

### LearningState, Learning

| Variable | Code |
|---|---|
| `rows`, `late` | results of the current and the previous hour; a transaction that began in the previous hour and has not committed |
| `bucket`, `past` | `aggregated_analytics` of these hours; the newest earlier bucket |
| `settled` | history: the previous hour was rolled up after it was complete |
| `enough`, `classical`, `temporal`, `noted`, `predicted` | whether history suffices; scores and notes inside their refresh windows; an uptime forecast was recorded |
| `disk`, `hub` | per family, a model's file on each machine; its published copy (none, part, whole) |
| `lease`, `lost` | the session advisory lock of the worker; machines that go on without it |
| `tick`, `request` | where the worker of each machine and the request by hand are |
| `enabled` | the activities, the machines at work and the families whose files are followed, in one deployment |
| `faults` | bound on crashes, errors and lost connections |

Families of models are named for what they predict: `uptime` is the code's `sla`, `temporal`
its `norse_ssn`, and `threat` and `forecast` stand for `threat` and `forecasting`. The first
three are saved in place: the file is a part of a model from `Train` (or `AskTrain`) until
`File` has written it, and stays one if that fails. The temporal model is written beside its
file (`Save`), which `Replace` then renames. Uptime and threat models are saved on the event
loop, so a machine saves one at a time, the others in threads. `Publish` lists the files there
are and `Upload` sends them one after the other, as they are by then.

The overview reads the temporal signal, the uptime forecast, the buckets of the day and, if
there are none, the newest (`ReadSignal` twice, `ReadWindow`, `ReadFallback`). A read of a
forecast that fails is answered with an empty one and the overview goes on; one of the buckets
ends it (`OverviewFails`). `blank` is what there was to show when the overview was asked for
(`ToShow`) and was not found by its reads, `failed` which reads failed.

`Faulty` tenants may fail at every step and their own data is not tracked. Rollup and
training touch different rows and files, so a deployment has the one loop or the other; one
request is served at a time; an hour turns only
after the one before it was rolled up once (ticks come every five minutes), which is the
assumption under which `ClosedHoursWhole` holds: hours missed by an outage of all workers
are never rolled up. `MaxRows` bounds the results of an hour: one in the run, any number in the
proofs. What models compute, and the families that are fitted by hand and never published, are
not modelled.

## 3. What the runs show

| Run | Instance | Question |
|---|---|---|
| `core` (`MCIngestLedger_fence`) | 2 handlers (symmetric), overlapping requests of 2 events in 1 group, 1 projector | `ReceiptsPartitionEvents`, `NothingCommitsBehindCursor` |
| `retry` | 1 event, 2 retriers that retry and replay, 2 retries, worker, projector, handler, 2 attempts | `ResolvedIsProjected`, `NoEventForgotten`, `RetryLeaseRespected`, refinement of `ReceiptContract`; `EveryReceiptSettles` under fairness |
| `soar_plan` | 2 plans of 2 actions that together have every type, 2 requests, 1 worker, 2 attempts, 1 interruption | `EachAttemptPostedOnce`, `OnlyLeaseHolderDecides`, refinement of `PlanContract`; `RunSettles` under fairness |
| `export_ready` | 2 workers (symmetric), 1 removal, 3 attempts, 4 faults of three kinds | `ReadyIsDownloadable`, refinement of `ExportContract` |
| `export_live` | 2 workers, 3 attempts, 4 faults, no stalled lease | `NoOrphans`; `JobSettles`, `ArtifactsExpire` under fairness |
| `path` | 2 relays, 2 consumers, 3 messages, one of them poison, batches of 2, 2 attempts, 2 faults of every kind | `RowsDecided`, `ObservedOnce`, refinement of `DeliveryContract`; `EventArrives` under fairness |
| `schedule` | 2 schedulers, a triggered row and two native ones of different buckets, lease 3, heartbeat 2, only native tasks take time, 2 faults | `NativeExclusive`; `RunsSettle` under fairness |
| `signal` | 2 requests, each with case and playbooks, with neither, or of another content with a case alone, 2 contents, 2 playbooks of which one exists from the start, 2 edits, 1 interruption | `ResultTrue`, `NoneLeftOut`, `PlanFrozen`; `RetryHeals` under fairness |
| `status` | 2 tenants, 2 pages whose slugs share a stem, a service, an incident, 2 handlers, reader and prober, 2 buckets, 3 writing requests | `ChildrenFollowPage`, `HonestAnswer`, `RightPageAnswered` |
| `tenancy` | 2 tenants, 1 person, 1 machine, 3 accounts, 1 reference, 1 session, 2 requests at once, 5 in all | `ErasedForGood`, `OneLiveCredential`, `LostAnswerRecovered` |
| `supervision` | 2 workers, 2 probes, 1 other request, 1 fault | `OneOfEach`, `SchemaHonest`, `NoneAfterStop`; `Recovers` under fairness |
| `learning` | a healthy and a faulty tenant, 1 fault, six deployments: either loop on 2 machines; on one machine, rollups with the overview, and training with the overview and the files of the temporal or the uptime model, or with those of forecasts | `TemporalPublishedWhole`, `NeverBlankAgain`, `ClosedHoursWhole`; `RollupsKeepUp` under fairness |

A property that a contract implies is not asked for again beside it: `ReceiptContract` says
that a completed receipt has all its results and stays completed, `PlanContract` that
successes and acknowledgements are final, `DeliveryContract` that no message leaves the group
without an outcome (`NothingLost`). Each module also states its `TypeOK`, which is a theorem
for every one of them. Where fairness is assumed (`LiveSpec`), TLC
uses no symmetry. Deadlock is looked for except in `status`, `tenancy`, `supervision` and
`learning`, whose requests are bounded or whose process ends.

Six further configurations, to be run by hand, show statements that the code does not
keep:

| Configuration | Violates |
|---|---|
| `MCIngestLedger_orphan` | `NoOrphan`: an event the checkpoint has passed has results, an open dead letter or a receipt in progress |
| `MCSoarRun_lost` | `SucceededRunsWhole`: a run at rest as `succeeded` has executed its whole plan |
| `MCStatusPage_rehome` | `PageMoves`: moving a page past its checks leaves it with the tenant it was told |
| `MCStatusPage_window` | `GreenShown`: a page shown green has a probed day in the history shown with it |
| `MCTenancy_leftover` | `NoBatchLeft`: an unfinished batch does not outlive its tenant |
| `MCLearning_inplace` | `NoneHalfPublished`: no model of any family is published half written |

### Why the bounds are enough

A single event is what a receipt, a dead letter and its retriers compete for, and two
attempts give it a first, a last and a revived attempt; two events in one group give two
requests something to overlap on, and a cursor something to pass. A handler and a worker
are two claimants that compete for a row, each able to be a zombie of the other;
two handlers are what the fence separates; two retriers are what a dead-letter lease
separates, and one of them can replay under the other's lease. In `SoarRun`, two actions
give a predecessor and a successor, two requests and a worker are three walkers of one
plan, and two attempts separate the first from the last. In `DurableExport`, two workers
and three attempts give a zombie, its successor and a last attempt, and four faults are
enough for the cleanup of a failure to fail as well. In `TaskSchedule`, two rows of the
native task give an old bucket that the clean-up may delete and a current one, and the heartbeat
interval is shorter than the lease by one tick (the code's 300 s of 1800 s leave more
room). In `TelemetryPath`, two attempts and two faults let a row be sent twice, once by a
relay that lost it, and batches of two split a group's messages among consumers. In
`SignalReceipt`, two requests are what it takes to complete one signal twice, and a
playbook that is edited beside one that appears only later are the two that a request can
see differently at its two reads.

In `Tenancy`, two requests at once are a check and the write that makes it stale, and five
requests are enough to provision a tenant, rotate its credential, write with it, erase the
tenant and ask again, any two of them overlapping; a third account is one more than a rotation needs. In
`Supervision`, two probes race for pool, readiness task and workers while a handler waits
for the same schema check, and one fault falls at every step. In `StatusPage`, two
pages are what a stem can be ambiguous between, two tenants what a page moves between, two
handlers a check and the write that makes it stale. In `Learning`, two machines are a worker
that lost its lease and the one that took it, beside a request by hand; one machine is enough
for a request that saves or reads while the worker of the same machine rolls up, trains or
publishes, and one family at a time, since files of different families do not meet. The proofs in
section 4 remove the bounds from every safety property of a run.

### Where the code departs from what is said of it

* `MCIngestLedger_orphan`: a receipt is claimed for the last time, its worker dies, and
  lease recovery (`ingest_processing.py:415`) sets it to `failed` with
  `WorkerLeaseExpired` and no dead letter. A later receipt has advanced the checkpoint
  past its event, so no projector will read the event either. Only an exact client retry
  or a replay of the range brings it back, while the comment in `ingest.py:196` says a
  crash can no longer orphan an accepted event. `NoEventForgotten` is the strongest
  statement that does hold: lease recovery is the only way a receipt fails without dead
  letters.
* `MCSoarRun_lost`: the status of a run is computed from the rows inserted so far
  (`playbooks.py:1911`), not from its plan. A refresh between the success of one action
  and the insertion of the next ends the run as `succeeded`; if the walker is interrupted
  there, the continuation worker does not select the run any more and the rest of the
  frozen plan is never executed.
* `MCStatusPage_rehome`: `rehome_status_page` (`status.py:382`) updates the tenant of the
  services before that of the page. The composite foreign key of `sql/028` (line 107) is not
  deferrable, so a page that has services or incidents cannot be moved; the docstring
  (line 345) says they are moved with it. The transaction rolls back and nothing is harmed.
* `MCStatusPage_window`: `_probe_day_rollups` (`status.py:1148`) counts probes since thirty
  times 24 hours ago, `_fill_uptime_history` (line 1083) shows today and the 29 days before it,
  and `_uptime_from_day_stats` (line 1111) is told of all that was counted. A page last probed
  late on the thirtieth day back is answered `operational`, with an uptime, and thirty days of
  `no_data`. `_honest_overall_status` (line 948) is "never claim operational without probe
  evidence"; there is evidence, but none that the reader of the page is shown. `HonestAnswer`
  says what does hold.
* `MCTenancy_leftover`: `ingest_processing_batches` has no foreign key to `tenants`. Erasure
  deletes a tenant's batches in its first statement (`tenant_erase.py:225`), under a lock that
  acceptance does not take; a batch whose transaction commits after that statement and before
  the tenant is deleted stays behind, while the events it names go with the tenant. Outbox
  rows accepted meanwhile stay as well.

* `MCLearning_inplace`: `_publish_tenant_artifacts` (`training_worker.py:183`) uploads every model
  file a tenant has. Only `ml/norse_ssn.py:93` writes beside its file and renames;
  `ml/sla_model.py:183`, `ml/threat_model.py:233` and `ml/forecasting.py:158-201` call
  `torch.save` on the file itself. When saving fails half way, the exception is caught as that
  of an auxiliary model and the same tick publishes what is there; a request that trains by hand
  may also be saving while the upload reads, in its own thread. `TemporalPublishedWhole` says what
  does hold.

Seen while modelling, and not the subject of a configuration:

* `lifespan` (`main.py:347`) waits for each cancelled worker task and suppresses only
  `CancelledError`. A task that ended with another error, while it was cancelled or at any time
  before without having been replaced since, raises it there: Redis, the pool and the engine
  clients are not closed, and the tasks after it are not waited for (`Aborted`).
  `NoneAfterStop` is about a pool that is closed.

* A projector that read its page before a live batch completed the same events executes
  and upserts the page again; the rows are keyed, so they are replaced, not doubled.
* Two overlapping refreshes of a run's status may write in the wrong order, and the run
  rests with a status that its rows contradict.
* A retry of a signal that read `processing` executes the playbooks active by then although
  the first request completes the signal meanwhile; the snapshot does not name those runs.
* `delete_job` and `erase_tenant` read the object key, delete that object and then delete
  the row. A job completed in between leaves an artifact without a row. When the answer to the
  completing statement is lost after its commit, the handler deletes the artifact of the
  completed export (`ReadyIsDownloadable` therefore excludes `unheard`).
* Nothing ever completes a `published` row of the scheduler, so it is claimed again every
  five minutes for ever, before any younger row. Once there are as many published rows as
  claims in five minutes (about 400, eight days of two hourly tasks), the claims of a
  replica never reach newer rows; `db_cleanup`, which does not delete published rows
  either, is one of those that starve. `RunsSettle` is asked of an instance in which the
  claims suffice.
* `decode_message` errors are dropped inside `read_group` and `claim_stale`, so an
  undecodable message stays pending and is recovered every minute for ever; the
  quarantine never sees it. `EventArrives` is asked without such messages.
* The upsert of a revoked session by its owner answers success and leaves it revoked;
  retention deletes revoked sessions after seven days, after which the id may live again.
* Of two concurrent erasures only the first one's credential gets a tombstone.
* `create_service_account` answers 500 where its own checks raise 403 or 409, and commits
  the account before the audit row.
* The training worker does not try again to publish a model when publishing failed; the next
  training does.
* The digest of a signal leaves out `correlate` and `run_playbooks`: the delivery that
  completes it decides. After a delivery that opened a case and was interrupted, one with
  `correlate` off completes the receipt, and its snapshot, final from then on, names no case
  although there is one. `ResultTrue` asks for the case in the snapshot only if no delivery of
  this content does without.
* A request that lost the race to complete answers the other one's snapshot without
  `_authorize_signal_snapshot`; only `Resolve` calls it.

`NoOrphans` holds with crashes, failed calls and lost answers, and with stalls alone, but
not with both: a worker that stalls beyond its lease between the renewal and the upload,
and dies right after the upload, leaves an object that only the deleted pointer knew. The
code accepts this by renewing the lease just before the upload.

### Fairness

`IngestLedger`: eventually no process dies in the middle of a flow and no new
request arrives (`Quiet`; a process may go on dying between flows, which looks the same as
ending a tick); the supervised loop keeps ticking (weak fairness of `StartTick` and
`EndTick`; `Supervision` shows that it is restarted); a due receipt is not passed over for
ever by the ordered claim (strong fairness of `Claim` per receipt); a running flow
returns in some way (engine calls have timeouts); and time passes. Nothing is assumed
about projectors or operators.

`SoarRun` and `DurableExport` assume weak fairness of every walker's or worker's next step
(the event loop runs every coroutine that can run, HTTP calls have timeouts, the
supervisor restarts the worker) and of time. Interruptions and faults are bounded here and
below: a process that dies for ever in the same place settles nothing. No request has to be
made: operators and tenants are not fair. In `SignalReceipt` the client sends again what
was interrupted or refused with 409; without that nobody completes a signal, and the code
has no worker that would. `TaskSchedule` adds that a native task comes to its end (fairness
of `Execute`, which the heartbeat could otherwise put off for ever) and that buckets begin.
In `TelemetryPath` every relay's and consumer's own step is fair, backoffs and leases end
(`Ripen`), and pending messages grow old (`Age`). The producer is not fair: `EventArrives`
is about rows that were inserted.

`Supervision`: the event loop runs every step that can run, workers that run tick, the
platform keeps asking for readiness, and an operator brings back a database that is down and
migrates one that lacks tables. That operator is also assumed for local builds, which would
create the tables themselves, and for a production schema that fails its assertion. Without the
probes nothing is replaced, which is how the code works; without an operator nothing gets well.
A worker that hangs is reported as stale until its next tick and nothing replaces it; `Recovers`
counts on that tick (`Tick` is fair), so a worker that hangs for ever is not covered. `Recovers` is conditional on a process
that stays up. `Learning`: on some machine either worker starts a tick again and again
(which machine is left open), ticks and requests are carried on, transactions commit, and a
note that history is short leaves its window. Hours need not turn and results need not come.

## 4. What is proved

All theorems hold for every value of the constants allowed by the named assumptions of
the modules (finitely many events, each with one group; positive bounds on attempts;
distinct identities, which are fresh UUIDs in the code). They cover every safety property
that a run checks: invariants, action properties and the four refinements.

For `IngestLedger`, for every set of events, handlers, workers, projectors and retriers and
every bound on attempts:

| Theorem | Statement |
|---|---|
| `TypeCorrect` | `Spec => []TypeOK` |
| `CheckpointMonotone` | `Spec => CursorOnlyAdvances` |
| `CompletionFinal`, `FencedSettlement` | `Spec => CompletedIsFinal`, `Spec => OnlyClaimantSettles` |
| `CompletionProjected`, `ResolutionProjected`, `NothingForgotten` | the three invariants on results |
| `LeasedRowsKept` | `Spec => RetryLeaseRespected` |
| `NoCommitBehind` | `Spec => NothingCommitsBehindCursor` |
| `Partition` | `Spec => []ReceiptsPartitionEvents` |
| `Refinement` | `Spec => ImplementsContract` |

The argument: type correctness first, row by row (one lemma per row constructor, so that
records stay opaque in the action steps). Then "writers" lemmas list, per table, the
actions that may change it, and `StatusStep` / `DlqStep` summarise what one step may do
to one receipt and to one dead letter; most invariants follow from those summaries.
Three strengthenings are needed. `RetryInv`: a retry that says it has projected really
has; without it nothing connects `CloseDlq` to results. `AcceptInv`: the fence is held
exactly by the inserting handler, only its rows carry stamps, the stamps are later than
every accepted event, and the checkpoint is the position of an accepted event; the last
part is what turns "later than every accepted event" into "later than the checkpoint".
`WorkInv`: pages, dead letters and retries are about accepted events, which the
refinement needs because the contract projects only events of a known receipt.

For `SoarRun`, for all sets of requests, workers and plans and all bounds:

| Theorem | Statement |
|---|---|
| `RowsTyped`, `Ordered`, `RealSuccess` | `Spec => []TypeOK`, `[]OrderedExecution`, `[]SuccessIsReal` |
| `PostedOnce`, `LeaseFenced`, `FinalDecisions` | `Spec => EachAttemptPostedOnce`, `OnlyLeaseHolderDecides`, `DecisionsFinal` |
| `PlanRefinement` | `Spec => ImplementsPlan` |

`OrderedExecution` is not inductive: `Walks` adds that a walker at position `n` has seen
everything in front of it succeed. `EachAttemptPostedOnce` needs four parts that depend
on each other: attempts about to be sent are new (`Fresh`) and pairwise different
(`Distinct`), what was sent is counted in its row (`Counted`), and the attempt in an
actor's hand is not ahead of the row, and is the row's while the actor owns it (`Calls`).
That an owner is a process and not a claim is what makes the last part necessary: a
worker that lost a row and claimed it again must not mistake the one for the other. The
refinement then follows from `StatusMoves`, which lists the arcs one step may take.

For `DurableExport`, for all sets of workers and removals and all bounds:

| Theorem | Statement |
|---|---|
| `RowTyped`, `LeaseFenced` | `Spec => []TypeOK`, `Spec => OnlyLeaseHolderDecides`, whatever the faults |
| `Downloadable`, `Refinement` | `Spec => []ReadyIsDownloadable`, `Spec => ImplementsContract`, without `unheard` |
| `Pointed` | `Spec => []NoOrphans`, without `stall` and removals |

The invariant orders keys by attempt: a worker deletes only keys of its own or an earlier
attempt (`HeldInv`), the pointer of a completed job is of the last attempt (`KeyInv`), and
a worker that lost the last attempt knows that this attempt did not win (`LostInv`, the
part that a lost answer breaks). `PointInv` adds where pointer and store stand at every
place of the worker, and needs that a working owner keeps its lease.

For `SignalReceipt`, for all sets of requests, contents and playbooks and any number of
edits:

| Theorem | Statement |
|---|---|
| `Typed`, `Truthful`, `Whole` | `Spec => []TypeOK`, `[]ResultTrue`, `[]NoneLeftOut` |
| `Agreed`, `Refused` | `Spec => []AnswersAgree`, `Spec => []OtherContentRefused` |
| `Frozen`, `Final` | `Spec => PlanFrozen`, `Spec => ResultFinal` |

`FoundInv` says that what a request holds is true in as far as it has got, `ReplyInv` that
who replies holds the completed result; without the second, a request that lost the race
could still answer with its own. `WalkAsked` says that only who asked for automation walks
over playbooks, so that every run has a delivery that asked for it. `WalkInv`, for `NoneLeftOut`, says that a playbook that was
there from the start, active and never edited, is still to be executed or already in the result.

For `TaskSchedule`, for all sets of schedulers, tasks and rows, all lease lengths with a
heartbeat shorter than the native lease, and all faults:

| Theorem | Statement |
|---|---|
| `Typed`, `Truthful`, `Bounded` | `Spec => []TypeOK`, `[]OutcomesTrue`, `[]AttemptsBounded` |
| `Decided`, `Final` | `Spec => OnlyClaimerDecides`, `Spec => CompletedIsFinal` |
| `Exclusive` | `Spec => [](Punctual => NativeExclusive)` |

`Held` says that a scheduler whose statement will pass the fence counts from below the
limit (`AttemptsBounded` alone does not survive a zombie's `mark_failed`), and `Owning`
that, when only native tasks take time, whoever is at a row owns it and the ticks left on
its lease and those since the heartbeat add up to the native lease.

For `TelemetryPath`, for all numbers of relays, consumers, messages and faults, and all
sets of poison and undecodable messages:

| Theorem | Statement |
|---|---|
| `Typed`, `Settled` | `Spec => []TypeOK`, `Spec => [](PublishedIsSent /\ RowsDecided)` |
| `Once`, `Kept` | `Spec => []ObservedOnce`, `Spec => []NothingLost` |
| `Carried` | `Spec => []PublishedIsOnItsWay` |
| `DeliveryRefinement` | `Spec => ImplementsDelivery` |

The invariant has a part for the row (`RowInv`: only an open row has an owner), the relays
(`SentInv`: who marks has sent), the batches (`BatchInv`: what a consumer holds was
delivered), the receipts (`ReceiptInv`: an observation without a receipt is of a message
that nobody will process again, which is where `Forget`'s assumption is used) and the
acknowledgements (`AckInv`: what is acknowledged next has an outcome). Steps of the relay
reach the normalizer only as a new message (`Unaware`), steps of the normalizer reach the
relay not at all. The refinement rests on the same invariant and on `Resting` (no relay is at
a row before there is one): `Handing`, `Observing` and `Keeping` show which step of the
contract an `XADD`, a transaction of `persist_event` and a dead letter are, and whatever
leaves row, stream and outcomes as they are is none (`Aside`). A lapsed lease, a lost answer
or a crash in between therefore changes what is promised in no other way.

For `Tenancy`, for all sets of tenants, accounts, people, machines, references, sessions and
requests:

| Theorem | Statement |
|---|---|
| `Typed` | `Spec => []TypeOK` |
| `GoneForGood` | `Spec => []ErasedForGood` |
| `OneCredential` | `Spec => []OneLiveCredential` |
| `AnswerRecovered` | `Spec => []LostAnswerRecovered` |

`ErasedForGood` follows from `Rooted` (a tenant that does not exist has no rows, and an
erased one does not exist) and `Known` (an erased id is never drawn again). The other two
need what a request carries to be true: `CallsTrue` says that the principal in a request is
one its credential stood for, `Linked` that the live account of a reference is the one its
row names, in the tenant its row names, `SeenTrue` that whoever holds the lock of a
reference has seen its row as it is, and is the only one; `Recorded` that a receipt's
tombstone is that of the credential which asked. Without `SeenTrue` a rotation could revoke an
account that is no longer the current one.

For `Supervision`, for all sets of probes and other requests and all bounds:

| Theorem | Statement |
|---|---|
| `Typed` | `Spec => []TypeOK` |
| `Single` | `Spec => []OneOfEach` |
| `Honest` | `Spec => []SchemaHonest` |
| `NoneLeft` | `Spec => []NoneAfterStop` |

`Counted` says that the registry is right (a worker it takes for running has one task, any
other has none), `Shut` that a closed process has none, `Early` and `Dialing` that the lock
is held exactly by the probe that dials, and only while there is no pool; `Concluded` that a
readiness task past its checks stands on a schema that has the tables. What is complete in
the schema stays complete, which is why conclusions of one check may be used later.

For `StatusPage`, for all sets of tenants, pages, services, incidents and handlers, all slugs
and bounds, under `StatusAssumption`:

| Theorem | Statement |
|---|---|
| `PagesWell` | `Page!Spec => []Page!TypeOK` |
| `ChildrenKept` | `Page!Spec => []ChildrenFollowPage` |
| `GreenTrue` | `Page!Spec => []HonestAnswer` |
| `RightPage` | `Page!Spec => []RightPageAnswered` |

`Carried`, `Probed` and `Reader` say what each handler, the prober and the reader hold at each
place; `Spending`, that an id once given to a row is not given to another, so that what was
checked of an id and the row written later are about the same thing. `ChildrenFollowPage` then
survives each write (`Follow`): a child is inserted only while the key finds its page, a
deletion takes the children along, and `MovePage` moves no page that has any. `HonestAnswer` is
`Told`, which rests on `Timely` (nothing was observed after today) and `Counting` (what a reader
counted is finite, and of today or before): when the days are laid out, each counted probe is
on a day shown (`Days`) or behind them all (`ShownOrBefore`), although a day may have turned since it was
counted.
`RightPageAnswered` needs `Unique` (two pages never share a slug), `Stands` (pages in the history
are published) and `Looking`: a lookup has moved on from the identifier's own slug only if
no page stood under it all along, which is what makes the answer of a stem right.

For `Learning`, for all sets of machines and tenants, healthy or faulty, every number of
results an hour, every set of deployments and every number of faults, under
`LearningAssumption`:

| Theorem | Statement |
|---|---|
| `LearningTyped` | `Learn!Spec => []Learn!TypeOK` |
| `ModelsWhole` | `Learn!Spec => []TemporalPublishedWhole` |
| `OverviewFull` | `Learn!Spec => []NeverBlankAgain` |
| `ClosedWhole` | `Learn!Spec => ClosedHoursWhole` |

`TemporalPublishedWhole` follows from `Files`: no machine has a part of a temporal model under
the name that is published, since `Save` writes beside it and `Replace` renames (`Writes`, one
lemma for whatever writes a file, asks for this of no other family). `NeverBlankAgain` needs
`Showing`: at each place between two reads of one overview, what is still blank is of the reads
to come or of one that failed, and all of it is there still. The latter is `ShowsStay`: scores
and forecasts are never taken back, and a tenant's series does not vanish when hours turn or
buckets are written again (`SeriesStay`); that the reads then find it is `Finds`.
`ClosedHoursWhole` is the hardest: any number of workers that lost the lease
may hold counts of one hour, and the last to write wins. `Kept` says that once one count of a
closed hour is clean (it began after the hour's last transaction committed, with nobody else
at a count of that hour), every count of it still to be written is right, so that none of them
takes rows away again; `settled` means that one of them was written.

Only model-checked: the liveness properties (`EveryReceiptSettles`, `RunSettles`,
`JobSettles`, `ArtifactsExpire`, `RunsSettle`, `EventArrives`, `RetryHeals`, `Recovers`,
`RollupsKeepUp`), since temporal proofs under fairness and `ENABLED` are beyond the prover;
and `NoOrphans` with stalls alone (section 3), which `Pointed` leaves out. The six statements
of section 3 that the code does not keep have nothing to prove.
`CompletedIsFinal`, `CompletedIsProjected`, `CursorOnlyAdvances`, `OnlyClaimantSettles`,
`OrderedExecution`, `SuccessIsReal`, `DecisionsFinal`, `AnswersAgree`, `ResultFinal`,
`OtherContentRefused`, `OutcomesTrue`, `AttemptsBounded`, `OnlyClaimerDecides`,
`PublishedIsSent`, `NothingLost` and `PublishedIsOnItsWay` are proved and in no run's
configuration.

## 5. Not modelled

* Rate limiting (`core/rate_limit.py`): one Lua script that Redis runs atomically, with a
  window in process memory behind it. The window is trimmed by the clock of whichever
  replica asks, so admission is approximate when clocks differ.
* Threat intelligence and correlation: outbound lookups and alert rows; the correlation
  receipt works like that of `SignalReceipt`.
* Workflow registry, add-ons, routes: static configuration and thin wrappers. Processors of
  the engine are pure functions over numbers.
* Scanners, reports, asset inventory: outbound HTTP, parsing, document layout.
* Row-level security, the verification of a JWT, key material, embeddings: what they decide
  is an input of the models, or nothing depends on it.
* Result row keys and aggregate rows: aggregate rows are keyed by the exact set of event
  ids, so a page of the projector and a live batch that overlap in part store two
  aggregates of the shared events. The models keep the set of projected events only.
* Retention of results, dead letters and audit rows, which deletes by age alone.
* The HLL refresh and the other deletes of `maintenance.rs`, and the trimming of the stream.
* The Neon to Supabase copy (`scripts/neon_supabase_etl`): one process, one pass per table.
  Read, not modelled: its incremental watermark is compared with strict `>`, so rows that
  share the last time of a page or commit late are skipped until a full copy; a batch in
  which every row fails is fetched again for ever; the row-by-row fallback runs inside a
  transaction that is already aborted; verification compares counts and presence only.
* The edge function for peer sessions: short statements over one table.

## 6. How the project grew, and what is left

The order was by importance: the ledger of accepted events first, with its contract and
proofs; then playbook runs, exports, signals, the scheduler and the message path, each with
its fault model; then what surrounds them: tenants and their credentials, the process and its
schema, status pages, and the learning loops.

Worth doing next:

1. Result rows with their keys in `IngestLedger`: reprocessing changes no other event's rows.
2. `SignalReceipt` composed with `SoarRun`, so that a settled run is one of a real plan.
3. `IngestLedger` composed with `Tenancy`: erasure and retention under running batches.
