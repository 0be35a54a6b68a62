# A TLA+ model of the CISStat time-series analysis backend

This directory holds a formal model of the stateful core of the repository, the
FastAPI backend under `apps/api`. The scientific code (models, preprocessing,
statistics) is numerical and sequential; what is hard to get right, and hard to
test, is the part that moves records between states while several threads,
processes and retries act on them. That is what is modelled here.

- `RenderJobs` — the queue of document renders and its worker; `RenderJobsProofs` its theorems.
- `ProgressLedger` — the journal of a research run, its outbox and the copy of it in the
  session; `FactLog` is the abstract journal it implements; `ProgressLedgerProofs` its theorems.
- `DocumentLifecycle` — revisions, approval, publication and retention of documents; `DocumentLifecycleProofs` its theorems.
- `BrowserSessions` — logins, second factors and what fences them; `BrowserSessionsProofs` and `BrowserSessionsMfaProofs` its theorems.
- `ModelingJobs` — tuning jobs kept inside the session document; `ModelingJobsProofs` its theorems.
- `Checkpoints` — checkpoints of a run, their files, promotion and restoration; `CheckpointsProofs` its theorems.
- `FrozenInputs` — report snapshots and print revisions, and what is pinned for them; `FrozenInputsProofs` its theorems.
- `MC*.tla` and the `.cfg` files — instances for TLC.

Paths below are relative to `src/` of the repository snapshot, `apps/api/` unless they say otherwise.

## 1. Inventory

One API process serves requests from a thread pool (FastAPI runs the plain `def`
handlers on it) and starts two daemon threads, `DeliveryWorker` and
`DocumentRenderWorker` (`main.py`, lifespan). State lives in PostgreSQL in the durable
deployment (`CISSTAT_STORAGE_MODE=required`), bytes in content-addressed files, and all of it
in process memory otherwise. Each registry method is one transaction; the service methods that
call several of them hold no lock across the calls. So every service method is a sequence of
atomic steps that interleaves with all the others, and a record read in one step is often
written back, whole, in a later one.

| Component | Code | State | Operations | What is hard | Correct when |
|---|---|---|---|---|---|
| Render queue | `document_jobs.py` | `document_jobs`, `document_renditions`, object store | request, cancel, complete, fail | whole-record writes of stale copies, check-then-insert, order of bytes, row and job | a ready row has its bytes, a ready job its row; one open job per target; a cancel is final; quotas hold |
| Render worker | `document_render_worker.py` | leases on jobs | reclaim, select, claim, requeue | claims from a stale list, lapsing leases, several workers, death in mid-job | no job is stuck, retries are bounded, a live lease is respected |
| Run ledger | `research_runs.py` | runs, gapless event sequence, receipts, checkpoints | commit batch, mirror, supersede | idempotency keys, comparison of contexts, metadata written from an older read | a fact once and under one key; receipts true; status changes not lost |
| Run control | `routers/progress.py` | status of a run | pause, resume, restore | the guard and the write are two transactions | one pause per resumption |
| Status reports | `progress_maps.py` | — | accept a report | gate, commit and projection in separate steps | a report is recorded in its own context only, and reaches the session |
| Delivery outbox | `delivery_outbox.py`, `delivery_worker.py` | outbox tasks | register, deliver, retry, mark | at-least-once, late marks, handler and worker on one event | nothing owed is forgotten, nothing is shown twice, every task ends |
| Trace hook | `trace_hook.py` | — | record a request after its answer | failures are swallowed, the session has moved on | the event belongs to the run of the session |
| Session store | `session_store.py` | documents with `storage_revision` | load, compare-and-save, expire | optimistic concurrency, lost documents | a stale copy is never written |
| Document lifecycle | `document_lifecycle.py` | append-only lifecycle records, retention marks | request approval, decide, publish, retract, sweep | the state is derived from the last record, read and appended in different steps; the sweep purges by what it has read and by a date that a new render does not renew | one decision per request; one published revision; nothing published or held is purged |
| Checkpoints | `routers/progress.py`, `delivery_outbox.py` (sweep), `research_runs.py` | snapshot files and rows | create, restore, prune, sweep | file first and row later; the sweep lists files without grace | a row has its file |
| Artifact store, promotion | `artifact_store.py`, `artifact_promotion.py`, `promotion_integration.py` | staged and committed files, rows, pins | stage, commit, register, pin, unregister, sweep, promote | idempotent producers, pins against unregister | a registered artifact has its bytes; pinned ones stay |
| Browser sessions, MFA | `authentication/` | sessions, challenges, epochs and versions, audit outbox | login, verify, step up, revoke | revocation against verification | a revoked credential opens nothing later |
| Accounts | `accounts/` | status and versions | change, membership | version comparison and invalidation in one transaction | no change is lost, old sessions die |
| Modeling jobs | `routers/modeling_session.py`, `model_jobs.py` | jobs inside the session document | submit, run, cancel | run and cancelled by concurrent requests | a cancel is not overwritten |
| Report snapshots, prints | `snapshot_builder.py`, `report_snapshot.py`, `visual_exports.py`, `visual_artifacts.py` | frozen snapshots, print inputs and revisions | build, freeze, export | reads several stores at different times; a failed export takes back what it did | a snapshot is of one moment; a print revision keeps its basis |
| Organisational profiles | `doc_profiles.py` | profiles, validations | create, retire, validate | retirement against a running render | no document under a retired profile |
| Security audit, monitoring | `security_audit.py`, `monitoring.py`, `telemetry.py` | append-only records, counters | record | a durable sink that overflows | — |
| Scientific code, knowledge, UI | the rest | — | — | numeric or presentational | out of scope |

The components meet in four places. A request handler changes a session document and the trace
hook mirrors it into the ledger; a pause or a report also registers an outbox task in the
ledger's transaction, and the delivery worker writes the event into the session. Frozen
snapshots feed render jobs, whose renditions the lifecycle publishes and the retention
sweep purges. Checkpoints and artifacts are files that sweeps compare with rows. Accounts and
passwords invalidate browser sessions. `PROJECT.json` lists, under "hazards", the lines where each difficulty bites.

## 2. Plan

| Step | Module | Content | Status |
|---|---|---|---|
| 1 | `RenderJobs`, `RenderJobsProofs` | render queue and worker; theorems for any number of threads, and for the deployed instance | done |
| 2 | `FactLog`, `ProgressLedger` | ledger, control, reports, hook, outbox, session document; refinement | checked |
| 3 | `DocumentLifecycle` | revisions, records, approval, publication, retraction, holds, sweep, with the rows of `RenderJobs` in brief | done; proofs in step 8 |
| 4 | `BrowserSessions`, `BrowserSessionsProofs`, `BrowserSessionsMfaProofs` | login, second factor, step-up, recovery, password and account commands of one person; eight theorems, which state every property of the runs | done |
| 5 | `ModelingJobs`, `ModelingJobsProofs` | jobs in the session document under compare-and-save; four theorems | done |
| 6 | `Checkpoints`, `CheckpointsProofs` | file and row, prune, sweep, promotion, restoration; three theorems | done |
| 7 | `ProgressLedgerProofs` | type correctness, receipts, single projection and context of reports, projection or obligation, the refinement of `FactLog`, for any number of handlers and workers | proved |
| 8 | `DocumentLifecycleProofs` | every invariant of step 3 for any number of handlers, documents and snapshots; seven theorems | done |
| 9 | `FrozenInputs`, `FrozenInputsProofs` | snapshots, their registry, print inputs and revisions with their pins; four theorems | done |
| 10 | profiles | a small module | not done |

Abstract specifications worth stating: the journal (`FactLog`, done and proved); a lifecycle that follows the
diagram of its docstring, and what must be serialised for it; a store in which a row implies its file.

## 3. RenderJobs

### State and actions

`jobs` is `document_jobs` in the order of registration, `rows` is `document_renditions` (one row per
target, as its UNIQUE key has it), `objects` the contents committed to the object store. A thread keeps what the
Python code keeps in locals: `cur` the job record in hand, `found` the row it has read, `bytes` what
it rendered, `todo` the jobs a worker has listed; `pc` says which registry call comes next.
A target stands for snapshot or print revision, format and redaction profile. Heavy targets (PDF, PNG, XLSX, print)
wait for the worker, others are rendered by the handler inside the request.

| Code | Actions |
|---|---|
| `request_rendition`, `request_print_rendition` | `RequestFinds`, `RequestLists`, `RequestCounts`, `RequestRegisters`, `SyncStarts` |
| `cancel_job` | `CancelReads`, `CancelWrites` |
| `run_once`, `_reclaim_expired_leases`, `_select_claims`, `_process` | `ReclaimLists`, `ReclaimWrites`, `SelectClaims`, `ClaimJob`, `CycleEnds` |
| the render itself | `RenderSucceeds`, `RenderFails` (terminal), `Requeues` (transient, attempts left) |
| `complete_render` | `CompleteChecks` (first look for a cancel), `ProfileRefuses`, `CompleteFinds`, `CommitBytes`, `PublishRow`, `Confirm` (second look), `Discard`, `Finish` |
| `fail_render` | `FailRender`, `FailFinds`, `FailMarks` |
| process death, unhandled exception | `Abort`; `LeaseExpires` is the clock |

Abstractions: `created_at` order is the order of registration; a lease is none, live or expired; whether
a render fails, and whether for good, is nondeterministic; of profiles and signatures only the refusal is kept; rows purged by
retention belong to the lifecycle module; the in-memory registry, which has no unique key, is not modelled.

### Properties

As deployed (one worker, heavy targets): `ReadyJobNamesItsRow` and `JobsGoForward` (action property: a ready job is not reopened and no write of a
stale copy takes an attempt back). For any threads: `ServedBytesExist` (AC08), `ReadyJobHasRow`,
`RenderingIsRecoverable` and, under fairness, `HeavyJobsSettle`: a heavy job ends, unless it is starved or out of sight. A light job
whose handler died in mid-render stays `rendering` without a lease. Reclaim skips it, `_select_claims` counts it against its tenant (`IsLost`), and
only a client that cancels it ends it; `PerTenant` of them stop every heavy job of the tenant (`IsStarved`), and `ListLimit` jobs that are stuck in one of
these ways hide every younger job from reclaim (`IsOutOfSight`). The property says that nothing else stops a heavy job; that every heavy job ends
(`HeavyJobsAllSettle`) is refuted below. Those of the first group fail with
a second worker or with two threads that render one light target, which is why they are checked on the deployed
instance, and proved for it with any number of handlers (section 11); a second worker exists during a rolling deploy and when `scripts/prograudit6b_recovery_runner.py` is run.

## 4. ProgressLedger

### State and actions

`runs`, `ledger`, `receipts` and `tasks` are the tables of the ledger's database; `commit_event_batch`
is one transaction under a row lock of the run, so one action. `sessions` are the documents of the session store (layer 1: the
trace the user sees), with their revision; a save is a comparison of revisions. `drafts` are the reports clients have composed: a report has an
id and a context chosen by the client and may be sent again. `my` is what a thread has read.

| Code | Actions |
|---|---|
| an upload (`set_dataset`), a correction or choice of target | `Upload`, `Edit` |
| `TraceHookMiddleware`, `record_run_event` | `HookReads`, `HookSaves`, `ReadBase`, `Supersede`, `LookUp`, `Commit` |
| `pause_run`, `resume_run`, `_run_level_delivery_task`, `_mirror_to_layer1`, `_mark_delivered_safe` | `PauseReads`, `ResumeReads`, `OwesDelivery`, `Commit`, `MirrorReads`, `MirrorSaves`, `Marks` |
| `accept_map_report`, `commit_map_report` | `ReportLoads`, `ReportGates`, `ReadBase`, `LookUp`, `Commit`, `ReportSaves`, `Marks` |
| `run_delivery_recovery`, `deliver_layer1_mirror`, `mark_delivered`, `mark_failed` | `ListDue`, `DeliverReads`, `DeliverSaves`, `Marks`, `MarkFailed`, `CycleEnds` |
| backoff, TTL or restart of the store, death | `RetryDue`, `SessionLost`, `Abort` |

Three choices need a word. The hook's `_record` awaits nothing and runs on the event loop, so hooks of
different requests do not interleave with each other (`LoopIsBusy`; one uvicorn process, `Dockerfile:266`), while pool threads and the worker
interleave with them. A handler's own read, change and save of the session document is one step, because the
revision comparison makes it take effect only if nothing came between. The lookup of a receipt and the
commit are separate steps: an absent receipt locks nothing, and it is the primary key of `run_commit_receipts`
that refuses the second insert.

Left out: uploads that choose a single numeric target by themselves, forecasting events, the advisory batch and
legacy map producers, the cap on trace length, the limit of 100 in `list_due`, restore and checkpoints,
authorisation, in-memory stores. Report ids are compared within one run, and contexts belong to one run.

### Properties

`ReceiptsMatchLedger`: a receipt points at its event and every event has a receipt. `ReportIsProjectedOrOwed`: a report
with a receipt is in the trace or its task is open. `ReportsAppearOnce`. `ReportsMeetContext` (action
property): a report is recorded only while the run is in the context it was composed in.
`RefinesFactLog`: each step of the ledger is a step of `FactLog` or leaves log and keys alone. `TasksSettle` (liveness).

`ReportIsProjectedOrOwed` is checked with no loss of sessions: after a loss a new document
passes through old revision numbers (`SessionIsNotRolledBack`, refuted below), and a stale copy can then erase a delivered report too.

## 5. DocumentLifecycle

### State and actions

`records` is `document_lifecycle`, from the last of which `StateOf` computes the state of a revision (`revision_state`);
`approvals` is `document_approvals`, `audit` counts the mandatory audit records, `documents`, `current` and `version` are the
tables of documents and revisions, `hold` is `document_retention`, `rows` and `objects` the renditions and their
files. A revision is named by its snapshot: a snapshot is of one kind (`routers/documentation.py:495`), so it has at most one.
A row carries two facts about time: `old`, that its `created_at` lies before the cutoff of a sweep, and `aged`,
that its present file was rendered before it. They differ, because a render does not renew `created_at`.

| Code | Actions |
|---|---|
| `ensure_document_revision`, `register_document`, `register_revision` | `EnsureFinds`, `EnsureOpens`, `EnsureLists`, `EnsureRegisters` |
| `request_approval` | `RequestReads`, `RequestAppends` |
| `decide_approval` | `DecideReads`, `DecideBinds` (the manifest), `Audits`, `DecideRecords` (the approval), `Appends` |
| `publish` | `PublishReads`, `PublishChecks` (bound hashes), `PublishLists` and `PublishPrecedes` (the state of one revision after the other), `Audits`, `Appends`, `Supersedes` |
| `retract` | `RetractReads`, `Audits`, `Appends` |
| `request_rendition`, `complete_render` | `RenderStarts`, `RenderCommits`, `RenderPublishes` |
| `set_retention` | `SetRetention` |
| `sweep_retention`, `_purge_rendition` | `SweepBegins`, `SweepLooks`, `SweepJudges`, `SweepPasses`, `SweepPicks`, `SweepUnlinks`, `SweepMarks` |
| rights, the policy of two persons, hashes that differ, gaps | `Refuses` |
| process death, a database error | `Abort`; `Ages` is the calendar |

Every transaction is a step, except that two reads with no write of another table between them
(the approvals and the rows in `PublishChecks`, the revision and the versions in `EnsureLists`) are one. A month is longer than a
request, so `Ages` happens only between requests. Records are in the order of their insertion; the code orders them
by a time stamp taken a moment before. Holds and sweeps wait for the first
rendition, without which they change nothing that is read. Left out: several formats of one snapshot, failed rows, the standard (not mandatory) audit, the pin of a
published snapshot, the hold that a profile with a WORM lock sets, archive bundles and comparisons. The writes are taken to work:
`append_approval` and `append_lifecycle` of the Postgres registry name `psycopg.types.json.Jsonb` (`document_lifecycle.py:520`, `583`) while `psycopg` is imported in `_connect` only, so that
as the file stands they end in a NameError there; the in-memory registry has the behaviour modelled.

### Properties

`PublishedWasApproved`: no revision is published without an earlier approval. `NothingUnaudited`: there are no more
events of a mandatory kind than audit records. `DecisionsAreBound`: each decision has the approval that binds it. `VersionsInOrder`: numbering, and the
pointer to the last version, survive concurrent requests, thanks to the unique keys. `SupersededHasSuccessor`: two publications of the
document are behind every supersession, an earlier one of the revision superseded and one of the revision that superseded it, wherever `publish` dies. The two revisions may be one: of two
publications of a revision in flight the second finds the revision itself published and supersedes it, which leaves the document without a current revision (`SupersededByAnother`, refuted below).
`LostFilesAreTakenUp` (action property): a row that is ready without its file is passed over by no sweep that goes through the rows of its document; it is found due, and marked next unless the
sweep dies too. (`ServedBytesExist` of `RenderJobs` is about renders alone; a sweep that dies between the file and the row breaks it, and this is what is left.) It is not said that such a sweep
comes: once the revision is approved or published, or the document is held, sweeps leave it alone and the row stays ready without a file (`PublishedFormExists`, refuted below).

## 6. BrowserSessions

### State and actions

One person: `identity` is the row of `auth_identities`, `credential` the password with its version, `security` the session
epoch and the permission to enrol, `accounts` the accounts with the person's membership. `sessions` and
`challenges` are the tables in the order of issue, so a token is a position; `factors` and `codes` the TOTP factors and the unused recovery codes.
Nearly every command begins with `SELECT ... FOR UPDATE` on the identity and is one action. Two things are not: the login, whose candidate and
password hash are read before the transaction, and whose transaction reads the account while the commands of `AccountLifecycle`, which lock the
account and not the identity, may run (`lock` is the row lock); and a code, which is looked at, counted and compared in three
transactions. `pc` and `hand` are what such a request does next and has read.

| Code | Actions |
|---|---|
| `SessionService.login` | `LoginReads`, `LoginLocks`, `LoginCommits` |
| `logout`, `revoke`, `change_password` | `Logout`, `Revoke`, `RevokeAll`, `ChangeReads`, `ChangeCommits` |
| `set_password`, `revoke_password`, `IdentityRepository.set_status` | `SetPassword`, `RevokePassword`, `SetStatus` |
| `MfaService.begin_enrollment`, `_attempt`, `complete`, `recover` | `BeginEnrollment`, `AttemptChecks`, `AttemptCounts`, `CodeIsWrong`, `CompletesEnrollment`, `CompletesLogin`, `CompletesStepUp`, `Recovers` |
| `start_step_up`, `rotate_recovery`, `replace_factor` | `StepUpReads`, `StepUpMints`, `RotateRecovery`, `ReplaceFactor` |
| `AccountLifecycle.change`, `membership` | `AccountChange`, `MembershipChange` |
| what is read on each request: `_load`, `_challenge`, `consume_step_up` | `Loads`, `Usable`, `ProofOf` |
| expiry of a session, a challenge, a plan; a lost request | `SessionExpires`, `ChallengeExpires`, `PlanExpires`, `Abandon` |

`from`, `by`, `root`, `pwd` and `tried` are history variables kept in the rows. Left out: rate limits, audit intents, cookies and CSRF, external
identities, several persons, seats and ownership, `bootstrap` (the instance begins with its outcome) and the break-glass commands.

### Properties

`NothingIsRevived` (action property): a session or challenge that is refused once is refused for ever, though nothing is deleted and every refusal
is computed from versions, states and expiries that all change. `PasswordWasProved`: what is accepted was obtained with the present password.
`ChallengeIsExchangedOnce`, `SecretIsAcceptedOnce`, `ComparisonsAreBounded`: what may be used once, or a few times, under concurrency.
`SessionKeepsItsBindings`: a login completed with a second factor is bound to the versions of its beginning.
`FactorIsNeverBypassed`: no order of enrolment, recovery and replacement leads to a session or an enrolment without the factor.

## 7. ModelingJobs

### State and actions

`doc` is the session document as stored, as far as jobs depend on it: the series and the validation contract (numbers that
grow), the series the artifacts were made of (`source`), which series the analyst has confirmed, jobs, tuning results, skips. A request reads the
whole document, works on its copy (a step trains a model) and saves it under a comparison of `storage_revision`; `request` holds the copy
it means to save, or `Overtaken` once another save has moved the revision.

| Code | Actions |
|---|---|
| `start_modeling_job` | `StartReads`, `Saves`, `Loses` |
| `step_modeling_job` | `StepFindsLate`, `StepFindsStale`, `StepRuns`, `Saves`, `Loses` |
| `cancel_modeling_job` | `CancelReads`, `Saves`, `Loses` |
| `tune_modeling_candidate`, `skip_modeling_tuning`, `skip_all_pending_modeling_tuning` | `TuneAtOnce`, `SkipTuning`, `SkipPending` |
| `_prepare_state`, a new strategy, a correction or another target, a confirmed checkpoint, any other save | `Prepares`, `ContractChanges`, `SeriesChanges`, `Confirms`, `OtherSaves` |
| the clock | `DeadlinePasses` |

The memory store returns the live object instead of a copy and has no revision; it is the development mode and is left out, as are the older `/tuning/start` and
`/tuning/step` jobs. Whether a trial succeeds is nondeterministic. Other requests of the session have no effect unless their save wins, so they are one step.

### Properties

`NothingIsTakenBack` (action property): no save loses a job of the same series, a trial of it, or its end. `OneLiveJobPerPlan`: two starts of one plan get one job.
`TunedIsNotSkipped`: no model has both a result and a decision to do without one. `JobsSettle` (liveness).

## 8. Checkpoints

### State and actions

`run` and `rows` are the run and its checkpoints in the ledger (ids are in the order of creation), `files` the checkpoint files, `objects`, `artifacts` and `pins` the
artifact store as far as promotion uses it, `sessions` the documents bound to the run with the context of their data, `sweep` where the delivery worker's sweep is.
Data is told apart by its analytical context only, which is what a checkpoint says of it.

| Code | Actions |
|---|---|
| `create_checkpoint`, `_commit_run_level` | `CreateReads`, `CreateStages`, `CreateRefers`, `CreateCommits`, `CreateConflicts`, `PruneLists`, `PruneLooksUp`, `PruneRemoves` |
| `promote_checkpoint_data`, `_persist` | `PromoteReads`, `PromoteFinds`, `PromoteStores`, `PromoteRegisters`, `PromotePins` |
| `restore_run` | `RestoreReads`, `RestoreSaves`, `RestoreCommits` |
| `sweep_orphaned_checkpoints` | `SweepListsRows`, `SweepListsFiles`, `SweepRemoves` |
| facts of the sessions, `supersede_active_runs`, death | `Corrects`, `Abandons`, `Dies` |

`Corrects` and the commit of its fact are one step; `ProgressLedger` has them apart. Left out: the paused status, the idempotency key and watermark of the
commit, the delivery of the event to the session (both in `ProgressLedger`), the producers of print inputs, unpinning and unregistration (`FrozenInputs`), other producers.

### Properties

`SnapshotIsOfItsContext`: the file and the artifact of a checkpoint are in the context its row names. `ContextIsNotUndone` (action property): a commit
of a checkpoint does not move the context of the run, although it writes the whole row. `OrphansAreSwept` (liveness): a file whose row was never committed goes.

## 9. FrozenInputs

### State and actions

`journal` is the context of the run after each of its events, so the last one is the run's mirror (`_mirror_key`) and the length its position; `artifacts` is the context each artifact is of;
`snapshots` is `report_snapshots` by idempotency key, `objects` the stored bytes, `pins` is `research_artifact_pins`, `inputs` the registered
`visual_print_snapshot` artifacts by the figure in their producer key, `revisions` is `document_print_revisions` and `current` the revision the document points to. `pc` and `my` are where a request is and what it has read.

| Code | Actions |
|---|---|
| facts of the run, promotion of their results | `Commits`, `Promotes` |
| `build_snapshot` | `BuildReads`, `BuildCuts`, `BuildFinds`, `BuildIndexes`, `BuildRereads`, `BuildCompares`, `BuildStores`, `BuildReturns` |
| `register_snapshot`, `_pin_dependencies` | `BuildRegisters`, `BuildPins` |
| `request_visual_export`, `freeze_visual_print_snapshot`, `persist_visual_artifact` | `ExportFinds`, `FreezeNotes`, `FreezeRegisters`, `FreezePins` |
| `unregister_artifact` | `UnregisterLooks`, `UnregisterDeletes` |
| `ensure_print_document_revision` | `PrintValidates`, `PrintLooks`, `PrintNumbers`, `PrintNotes`, `PrintPins`, `PrintRegisters`, `PrintUnpins` |
| death, refusals and failures that take nothing back | `Dies` |

A client may bring a key or leave it to the server, which makes it of the body and the position. A body may name a context. All artifacts are taken to be referred to by the sections, which
is the case with the most pins; what the sections say, completeness and its reasons are left out, except that a snapshot is ready to be reproduced only with data of its own context. There is one
print document, and a figure stands for its producer key, digest of the screen included. The memory registries, which do everything under one lock, are left out.
The answer of the commit in `register_print_revision` may be lost: the revision is there, and the request takes back its pin as after a failure (`PrintUnpins` from "unpinning").

### Properties

`SnapshotIsOfOneMoment`: what a snapshot says of the run was true at the position it names, though nothing is locked and the run may leave its context and come back between the readings. `AnswerIsWhatWasAsked`:
the answer is the snapshot registered under the key, of the body and the position asked for, whichever of two builds was first. `PrintRevisionsInOrder`: print revisions are numbered 1, 2, ...
without a gap, there is one of each basis and profile, and the document points to the last, in whatever order exports that looked and took their numbers before come to register, and whether or not they hear of it. The basis
of a revision is not kept as surely: the pin is taken back by a request that does not hear of its own commit, or by another that failed (`BasisIsPinned`), and the input itself by one that failed (`BasisExists`, both refuted below).

## 10. Runs

| Run | Expect | Shows |
|---|---|---|
| `render_one_worker` | pass | deployed instance: 2 handlers, 1 worker, 2 heavy targets, 2 jobs, 1 death |
| `render_threads` | pass | 1 handler that renders a light target beside a worker that may take the same job, 2 jobs of one tenant, 2 deaths; every limit of the worker is 1; safety and liveness |
| `ledger_safety` | pass | 2 handlers, 1 worker, 3 requests, 2 contexts, 1 death: five safety properties and the refinement |
| `ledger_settles` | pass | liveness: 1 handler, 1 worker, 3 requests, 1 death, 1 lost session |
| `lifecycle_publication` | pass | 2 handlers, 2 revisions of one document, up to 3 records on each when a request begins, 1 death, no renditions |
| `lifecycle_retention` | pass | 2 handlers, 1 revision, 2 renders, 3 records, 1 death |
| `sessions_fenced` | pass | a person or an administrator about to enrol: 2 requests, 2 sessions, 2 challenges, 3 commands or expiries |
| `sessions_mfa` | pass | an administrator: 2 requests, 3 challenges of 2 attempts, 2 time steps, 2 sessions, no commands |
| `jobs_document` | pass | 2 requests, 2 jobs of 2 trials, 1 save by another request; safety and liveness |
| `checkpoints_kept` | pass | 1 handler that creates and promotes, 1 that restores, the sweep; 2 checkpoints, 1 kept; safety and liveness |
| `frozen_inputs` | pass | 2 builds of 2 bodies, with and without a key, 3 events in 2 contexts, 1 artifact; or 2 printers, 1 figure, 2 profiles, 2 inputs; any of them may die at any step |
| `checkpoints_lost` | violation | a prune or a sweep removes the file of a checkpoint that is being made |

Bounds. Nearly every hazard listed is a race of at most two requests on one record, with one thread lost, so two handlers
(or a handler and a worker), one target that is contended and one more for the worker's list, and one death reach it; the counterexamples
below, which the same bounds produce, show that they are not too small. `render_threads` has two deaths, since a light job that lost its handler and a heavy one that lost its worker
together are what starves, and `Batch`, `PerTenant` and `ListLimit` at 1, so that with two jobs each of them binds; with two tenants, which takes longer, `HeavyJobsSettle` passes as well and fails
without `IsOutOfSight`. The window of `Batch * 4 + 16` open jobs from which claims are chosen is not reached in the instance. `JobBound`, `OpBound`, `RecordBound`, `RenderBound`, `AbortBound`, `LossBound`,
`SessionBound`, `ChallengeBound`, `ChangeBound`, `IdBound`, `EventBound`, `BuildBound` and `InputBound` are the model's
and have no counterpart in the code; the limits `MaxAttempts`, `MaxJobAttempts`, `MaxOpenJobs`, `Batch`, `ListLimit`, `CodesPerSet`, `TotalSteps` and `Kept` are the code's at small values.
`CHECK_DEADLOCK FALSE` is set where the system really may stop: when the requests of the bound have been served and every task has ended, nothing is left to do.

Publication and retention are checked apart because their product is out of reach; each has the whole of `Next`. Three records take a revision to its publication,
and a supersession or a retraction comes on top; two renders are the one that a sweep purges and the one after.
In the same way `sessions_fenced` has the operator's commands and `sessions_mfa` the long chains of challenges; three changes are what it takes to suspend an account,
bring it back and do one thing more, and three challenges are a login, a recovery and the enrolment that follows, or a step-up and its proof beside another. In `checkpoints_kept` the creation and the
promotion share a handler; the theorems cover every other division of the work. `frozen_inputs` explores builds and prints one beside the other and not their product (`Apart`, a state constraint): the two halves share
the table of pins and never a reference in it, and the theorems have no such restriction. Three events let the run leave a context and come back.

Symmetry is used for handlers, workers, requests, contexts and snapshots of one document where the run has no liveness property; the specification
never tells two of a kind apart.

Fairness. `FairSpec` of `RenderJobs` assumes that a living thread is scheduled and that time passes (a live lease lapses);
nothing obliges a client to ask or a render to succeed, and a worker that dies is restarted with its process.
`FairSpec` of `ProgressLedger` assumes the worker's loop goes on and the backoff elapses; deliveries may fail
every time, and still end because attempts are counted. `FairSpec` of `Checkpoints` assumes the sweep, which the same worker runs. The loops (`_loop` of both workers) catch every exception and wait a fixed interval, which justifies it.
`FairSpec` of `ModelingJobs` assumes that a request is carried to its end, that deadlines pass, and that somebody goes on asking for the next step of a job in progress, which is what the interface
does; a job nobody asks for is never looked at again, the code has no background pass. Saves by other requests are finitely many: that they might starve a step for ever is not excluded by the code and not claimed.

### Counterexamples

Further claims of comments and docs, each defined in its module, that TLC refutes within a minute on the instance named here, when the claim takes the place of its properties (and, unless it is a liveness property, `Spec` of `FairSpec`).
`render_quota`, `render_lease_stolen` and `jobs_other_metric` are instances of their own.

| Instance | Property | The claim, and what happens |
|---|---|---|
| `render_threads` | `CompletionKeepsCancelled` | `document_jobs.py:2499` — the completion looks again before it writes, so as not to overwrite a cancel; one made between that look and the write becomes ready |
| `render_threads` | `ReadyJobNamesItsRow` | a ready job names its rendition; with two handlers on one light target it names one that no row has |
| `render_threads` | `HeavyJobsAllSettle` | `document_render_worker.py:377` — what counts against a tenant are live leases; a light job whose handler died counts for ever, and the heavy jobs of its tenant wait for ever |
| `render_quota` | `TenantQuotaHolds` | `document_jobs.py:2135` — a quota per tenant over the whole queue; it is counted within a list cut at its default limit |
| `render_lease_stolen` | `LiveLeaseIsKept` | `document_render_worker.py:27` — a live lease is not taken; two workers that listed one job both claim it |
| `render_threads` | `CancelledIsNotReopened` | `document_jobs.py:2334` — a cancel is not rewritten; the worker's claim writes over a cancel made after it listed the job |
| `render_threads` | `CancelKeepsOutcome` | `document_jobs.py:2580` — cancelling a ready or failed job is a no-op; the test and the write are two steps |
| `render_one_worker` | `OneOpenJobPerTarget` | `document_jobs.py:2104` — a double click returns the same job; two requests both list before either registers |
| `render_threads` | `FailureKeepsReadyRows` | `document_jobs.py:2540` — a failed row is marked failed; so is a ready one of another job |
| `ledger_safety` | `NoDoublePause` | `routers/progress.py:1315` — a double pause is a 409; two simultaneous ones both succeed |
| `ledger_safety` | `OneCopyPerEvent` | `docs/progress_audit_contract.md:236` — one fact, one event; the handler's mirror appends what the worker has delivered |
| `ledger_safety` | `TraceOfOwnRun` | `routers/progress.py:1269` — a session of another run is not touched; the worker's delivery does not look |
| `ledger_safety` | `AbandonedStaysAbandoned` | `research_runs.py:2632` — earlier runs are abandoned; a report in flight makes one active again |
| `ledger_settles` | `SessionIsNotRolledBack` | `session_store.py:1083` — a stale copy is refused; a copy of a lost document overwrites its successor, which has come to the same revision |
| `lifecycle_publication` | `PublishedIsFinal` | `document_lifecycle.py:18` — published becomes retracted or superseded; a decision that read its state earlier arrives late |
| `lifecycle_publication` | `RetractionIsFinal` | the same diagram; a second publication in flight appends after the retraction |
| `lifecycle_publication` | `OnePublishedRevision` | `document_lifecycle.py:1064` — the previous published revision is superseded; not if `publish` dies before it |
| `lifecycle_publication` | `SupersededByAnother` | `document_lifecycle.py:1066` — what is superseded is the previous revision; of two publications of one revision the second supersedes the revision itself |
| `lifecycle_retention` | `PublishedFormExists` | `document_lifecycle.py:1310` — a purge leaves an honest tombstone; a sweep dies between the file and the row, and the revision is published without its form, which no sweep repairs |
| `lifecycle_retention` | `PublishedFilesAreKept` | `document_lifecycle.py:48` — published documents are not swept; the sweep judged before the approval |
| `lifecycle_retention` | `FreshFilesAreKept` | `document_lifecycle.py:1255` — what the sweep removes is older than the cutoff; a form rendered anew after a purge keeps its date and is purged by the next sweep |
| `ledger_safety` | `PauseIsKept` | `routers/progress.py:1313` — a pause is recorded explicitly in the status of the run; a mirror writes the status it read earlier |
| `ledger_safety` | `DeliveredIsProjected` | `routers/progress.py:1249` — the obligation is closed after a successful mirror; it is closed after one that failed too |
| `jobs_document` | `StaleCanStartAgain` | `routers/modeling_session.py:2276` — a stale job is to be started again; its idempotency key still answers 409 |
| `jobs_document` | `ResultIsOfTheJob` | the result shown with a completed job is its own; a later tuning of the model replaces it |
| `jobs_document` | `NotSkippedWhileTuning` | `modeling_session.py:1716` — the bulk skip leaves a model alone that a job is tuning; the single one (line 1662) does not look |
| `jobs_other_metric` | `ReplayHasTheMetric` | `model_jobs.py:123` — the signature names what a job does; the metric is not part of it |
| `checkpoints_kept` | `PinnedIsKept` | `routers/progress.py:1475` — the snapshots of pinned checkpoints survive the prune; not one whose file went before the pin, or whose pin came after the prune had looked |
| `checkpoints_kept` | `PromotedIsPinned` | `artifact_promotion.py:597` — a promotion pins its checkpoint by itself; not when an earlier one died before it pinned |
| `checkpoints_kept` | `CheckpointKeepsRun` | `routers/progress.py:1395` — an abandoned run takes no checkpoint; one that was begun before makes it active again |
| `frozen_inputs` | `RepeatSeesArtifacts` | `snapshot_builder.py:1172` — a change of the state gives a new snapshot; an artifact is promoted without an event, and the old one is the answer until the next event |
| `frozen_inputs` | `PinsAreExplained` | `snapshot_builder.py:1318` — the pins say for whom they are; those of a build that lost the race for its key name a snapshot that there is not |
| `frozen_inputs` | `BasisIsPinned` | `document_jobs.py:1833` — only pins this operation has made are taken back; the revision was registered and the answer lost, or another request that looked before the pin fails and takes it back |
| `frozen_inputs` | `BasisExists` | `document_jobs.py:1778` — no revision on a dangling basis; the input found by one request is unregistered by another that failed to pin its figure |

## 11. Proofs

`RenderJobsProofs` proves, for any finite or infinite sets of threads, targets, tenants and contents and any limits
allowed by `ConstantsAssumption` and `NoneAssumption`:

| Theorem | Statement |
|---|---|
| `TypeCorrect` | `Spec => []TypeOK` |
| `Recoverable` | `Spec => []RenderingIsRecoverable` |
| `ServedBytesAlwaysExist` | `Spec => []ServedBytesExist` |
| `ReadyJobsHaveRows` | `Spec => []ReadyJobHasRow` |
| `ReadyJobsNameTheirRows` | `OneWorker => (Spec => []ReadyJobNamesItsRow)` |
| `JobsOnlyGoForward` | `OneWorker => (Spec => JobsGoForward)` |

The argument has three layers. `TypeInv` adds to `TypeOK` that a job's id is its place in `jobs` (`Keyed`; without it
`UpdateJob` could write out of range) and what a thread holds at each `pc` (`HandsOK`: a thread that publishes has a
job and bytes). `JobInv` says that a job that is heavy and
rendering has a lease. Copies are written back whole, so it speaks of what threads hold as well (`CopiesOK`): the copy a handler is about to register is queued, and a handler is never about to start a heavy job.
`RowInv` says of every row that its bytes are committed, and of a thread between `CommitBytes` and `Finish` that its
bytes are committed and its target has a row; it rests on two monotonicity facts, that objects are never removed and a row never disappears.
Each step lemma splits `Next` by group of actions (read, client write, worker write, render, row write, environment) with one lemma per group.

The last two theorems are about the system as deployed: `OneWorker` says that there is at most one worker and that every target is heavy, and leaves handlers, deaths, cancellations and limits free. Then no handler renders, so
that every write that is not the worker's cancels a job, registers one or changes a lease (`Mildly`). `DeployedInv` says of the copies the worker holds (`WorkerOwns`) that they are of different
jobs and that the table has not made such a job ready nor counted more attempts since the copy was read (`Held`); without the first part the write of one copy could overtake another. Of a render between its look at
the row and its last write it says that the row is still as it was found: it is absent, or has the id that was read; rows never change their id (`IdsKept`).

`BrowserSessionsProofs`, for any sets of threads and accounts, and any codes, attempts and bounds:

| Theorem | Statement |
|---|---|
| `NothingRevived` | `Spec => NothingIsRevived` |
| `PasswordProved` | `Spec => []PasswordWasProved` |

Both rest on `Inv`: the rows have their types (`Person`, `Tables`), every row carries versions that are not later than the present ones and, if it carries the
present version of the password, the present password (`Bound`), and so does what a request has read and still holds (`Requests`). A step then has to show four things: rows age (they keep what they are bound to, and revoked, consumed or
expired rows stay so), versions rise, a version that did not move is of an unchanged row, and what is given back is *fenced*: an account admits again, or a factor is active again, only together
with the end of every row that depended on it. `RevivesNothing` derives `NothingIsRevived` from these; there is one lemma per action that shows them. The second invalidation of
`AccountLifecycle`, on reactivation, is the place where the argument would fail without it (the mutant of `NothingIsRevived` drops it).

`BrowserSessionsMfaProofs`, under the same assumptions:

| Theorem | Statement |
|---|---|
| `TypeCorrect` | `Spec => []TypeOK` |
| `ExchangedOnce` | `Spec => []ChallengeIsExchangedOnce` |
| `SecretOnce` | `Spec => []SecretIsAcceptedOnce` |
| `ComparisonsBounded` | `Spec => []ComparisonsAreBounded` |
| `BindingsKept` | `Spec => []SessionKeepsItsBindings` |
| `NeverBypassed` | `Spec => []FactorIsNeverBypassed` |

The proof first brings every step into one of ten forms (`Form`, `FormStep`): nothing new, codes rotated, a session for the password alone, a challenge for nothing, an enrolment begun, an enrolment, a login or a step-up
completed, a recovery, a replacement. A form says which row is new, which challenge it uses up (`Spends`: usable before, consumed after) and what becomes of factors and codes. The inductive
invariant `MfaInv` is then kept form by form. None of the properties is inductive as it stands:

- *Exchanged once* needs that whatever a row was exchanged for is consumed (`Exchanged`); the next exchange needs a challenge that is not.
- *A secret once* needs what has become of each secret (`Secret`): of a time step, that the factor exists and has moved past it; of a recovery code, that its set has been minted and the code is gone. A time step
  would come back with a second factor row of the same id, and a code with a second set of the same origin. The first cannot be because an id names the challenge the enrolment goes back to (`Origins`), two enrolments of one id would come from one challenge, and
  *that* is `Exchanged`; the second because a set is named for a challenge that is consumed when it is minted.
- *The bound on comparisons* needs a count of the threads between the count and the comparison (`Counted`: the comparisons made, and the threads about to make one, are at most the attempts).
- *No bypass* needs that the first factor ends every session and moves the epoch: an enrolment that goes back to the password is then of an epoch that has gone by (`NoBypass`); the epoch never comes back.
- *The types* need a bound of the epoch that is inductive: each rise has its own row, its own command, or was made by a session that was open and ended with it. So the bound is one tighter while a
  session is open (`EpochBound`).

`SessionsAssumption` says, beside the types of the constants, that `None` is no thread, no account and no number: the SQL NULL is not a value of those columns.

`ModelingJobsProofs`, for any requests, models, plans, trials and jobs:

| Theorem | Statement |
|---|---|
| `TypeCorrect` | `Spec => []TypeOK` |
| `PlanHasOneLiveJob` | `Spec => []OneLiveJobPerPlan` |
| `TunedNeverSkipped` | `Spec => []TunedIsNotSkipped` |
| `NothingTakenBack` | `Spec => NothingIsTakenBack` |

A request that has not been overtaken holds a document made of the one that is stored now (`Promises`): it follows from it without taking anything back and is itself sound, so its save may
replace the stored one. This is what the revision buys, and it is inductive because every save overtakes all the others. `OfSource` says the jobs of a document are those of the series it was made of, without which a
cleared document could not be told from one whose jobs were lost.

`CheckpointsProofs`, for any handlers, all of which may create, promote and restore, any sessions, contexts and number of kept snapshots:

| Theorem | Statement |
|---|---|
| `TypeCorrect` | `Spec => []TypeOK` |
| `SnapshotOfItsContext` | `Spec => []SnapshotIsOfItsContext` |
| `ContextNotUndone` | `Spec => ContextIsNotUndone` |

What a handler holds of a checkpoint is true of it (`Local`, `Says`); no two are about to commit one id (`Apart`), for which files and rows appear only under ids given out (`Grows`).

`DocumentLifecycleProofs`, for any threads, documents, snapshots and contents, none of which need be finite:

| Theorem | Statement |
|---|---|
| `TypeCorrect` | `Spec => []TypeOK` |
| `PublicationsWereApproved` | `Spec => []PublishedWasApproved` |
| `SupersededAfterPublication` | `Spec => []SupersededHasSuccessor` |
| `VersionsOrdered` | `Spec => []VersionsInOrder` |
| `LostFilesAreNotPassedOver` | `Spec => LostFilesAreTakenUp` |
| `AuditedFirst` | `Spec => []NothingUnaudited` |
| `DecisionsBound` | `Spec => []DecisionsAreBound` |

The first five follow from `Inv`. What a handler has read in one transaction it may rely on in a later one (`Relies`) because nothing it relies on goes away (`Grows`): an approval that
was recorded stays recorded, a version that was taken stays taken, a row that was old stays old although it is rendered anew. `Numbered` says that no version is left out below a version
that is taken; then a number that is free, and was one above the highest when the versions were listed, is the highest when the unique key lets it in. `Filed` says that a ready row without its file is old, and therefore due; it needs that the file a sweep removes
is one of an old row, and that a render that publishes over a removed file publishes an old row. A supersession rests on what the publish read: that a revision of this document, its own not excluded, was published before its own record came. The properties the code does not keep (section 10) are those about the *last* record, which does change.
The last two theorems count: `Counted` adds to the records there are the threads that have written the audit (or the approval) and not yet the record, a set that is finite because it is empty at first and changes by one thread at a time.

`FrozenInputsProofs`, for any builders, printers, bodies, keys, artifacts and figures, and any number of events, builds and prints:

| Theorem | Statement |
|---|---|
| `TypeCorrect` | `Spec => []TypeOK` |
| `SnapshotsAreOfOneMoment` | `Spec => []SnapshotIsOfOneMoment` |
| `AnswersAreWhatWasAsked` | `Spec => []AnswerIsWhatWasAsked` |
| `PrintRevisionsOrdered` | `Spec => []PrintRevisionsInOrder` |

What a builder has read is true of a moment between its readings: when the run is read again there is a position, not before the cutoff and not after the present end, at which the run was in the context read; when
the comparison finds the end still at the cutoff that position is the cutoff. A key the server makes carries the body and the position, and a client's key the body that came first, so whatever is found under a key answers
the request (the two kinds of key are told apart by their second component). A print that has its number
knows that every number below is taken (`Below`), which stays so because no revision goes away; if the number is then free, no higher one can be taken, for revisions have no gap, so the new revision is the last.

`ProgressLedgerProofs`, for any handlers, workers, sessions, reports and contexts, any number of requests, and deaths and (but for the last) losses without limit:

| Theorem | Statement |
|---|---|
| `TypeCorrect` | `Spec => []TypeOK` |
| `ReceiptsAreTrue` | `Spec => []ReceiptsMatchLedger` |
| `ReportsAreNotRepeated` | `Spec => []ReportsAppearOnce` |
| `ReportsKeepContext` | `Spec => ReportsMeetContext` |
| `LedgerRefinesFactLog` | `Spec => RefinesFactLog` |
| `ReportsAreProjectedOrOwed` | `Spec => []ReportIsProjectedOrOwed`, if `LossBound = 0` |

What makes these inductive is that identifiers are fresh. Until a handler has committed its event (`PreCommit`) nothing that has been written bears the id (`Written`), no other thread holds
an event with it, and if it is a report no trace and no copy of one shows it either (`Seen`): `Fresh`. From this the batch always appends (the branch of `WriteBatch` that finds the event is never taken), the
handler of a report appends to a copy that cannot have it, and a worker looks before it does, so a trace shows a report once (`OnceOnly`), also in the copies that threads hold and may yet
save. `Relies` says what a thread may count on in the tables it read earlier: a draft does not change once composed, a task and a row do not go away, and the context of a run never returns to None; with it
the comparison in the commit is one with the context of the draft. One general lemma per kind of step (`LookStep`, `SaveStep`, `TableStep`, `BeginStep`) and one lemma per action.

The last theorem has an invariant of its own, `Kept`, on top of `Inv`, and needs that the store loses no session (a new document starts its revisions over, see section 4). A task that is delivered is
`Shown`: its session follows another run or has the event. It stays so because a session only changes in three ways (`Succeeds`): it begins a new trace without a run, it keeps its run and all it has,
or it takes a run that no session and no draft refers to (`Opened`), which cannot be the run of a report. That saves are of this kind is `Timely`: a copy as old as its session has all the session has,
and with compare-and-save no other copy is written. `Reported` ties a receipt of a report to its task; that the first batch of a report finds no task rests on a draft having one run, so that another
task would mean a receipt under the same key.

Only model-checked: liveness, which is out of the prover's reach (`HeavyJobsSettle`, `TasksSettle`, `JobsSettle`, `OrphansAreSwept`), and the findings. Every other property of a passing run is a theorem.

## 12. Not modelled

Organisational profiles were planned (section 2) and are not there. Of the components that are modelled in part, the sections above say
what is left out; the largest pieces are the in-memory stores, which share live objects instead of comparing revisions and serve development, the older tuning jobs, the other producers of
artifacts, and archive bundles. Access decisions (`identity.py`, `auth.py`, `plans.py`), projections and reports are pure functions of one request. The
security audit and the counters are written and never read back to decide. Wording, layout, logging, the scientific code, the knowledge registry,
the web clients, the print renderer and the Streamlit application are left out: they are most of the lines of the repository, and numeric, presentational or sequential.
