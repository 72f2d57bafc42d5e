# A TLA+ development for django-ray

`django-ray` runs Django tasks on Ray behind a database-backed control plane.
Application processes enqueue rows; task-manager processes
(`django_ray_worker`) claim them, submit them to Ray, watch them, and recover
what other managers left behind; the remote entrypoint writes its result back
into the row. Nothing but the database coordinates these processes, and
Ray's answers may be late, lost or wrong about a job that has just ended.

This directory models the coordination core, checks it with TLC on small
instances, and proves parts of it with TLAPS for every instance. Paths below
are relative to `src/django_ray/` of the repository.

## The system

| Component | State it keeps | Operations | What makes it correct |
| --- | --- | --- | --- |
| Task lifecycle (`lifecycle.py`, `runner/retry.py`, `runner/reconciliation.py`) | `RayTaskExecution` row, `TaskAttempt` history | claim, expire, fail, requeue, lose, succeed, cancel, retry | history without gaps or rewrites; identities never reused; a published envelope decides |
| Task manager, Ray Job mode (`management/commands/django_ray_worker.py`) | `active_tasks`, the snapshot each step acts on | submit, confirm, poll, reconcile, adopt, time out, recover, cancel, hand off | submits once, never retries over a live job, one monitor per execution, everything is resolved |
| Ray Job runner, entrypoint (`runner/ray_job.py`, `runtime/entrypoint.py`) | Ray's job table | submit, status, stop, publish | a job decides only its own execution |
| Request storage (`ray_job_request_storage.py`) | stored request, binding on the row | attach, release | a job exists only for a bound request; failures before the request release the reservation (a finding says when not) |
| Worker leases and policy (`runner/leasing.py`, `lease_policy.py`) | `TaskWorkerLease`, `TaskWorkerLeasePolicy` | create, renew, lose, take over, clean up, delete, change duration | authority is earned by the process, not by the ID |
| Ray Core runner (`runner/ray_core.py`) | in-memory object references | submit, poll, reconnect | exact handles only; a lost connection loses nothing silently |
| Payload registry and purge (`payload_registry.py`, `input_storage.py`, `management/commands/django_ray_purge_inputs.py`) | stored objects, `TaskInputPayload` rows, references on executions | prepare, register, attach, release, purge, reap | nothing a live execution names is removed; a row vouches for every reference |
| Claim and poll loop over many rows (`management/commands/django_ray_worker.py`) | `active_tasks`, completion cursor and cycle end | claim, poll, reconcile | slots bound claims, no receipt and no urgent row starves |
| Execution protocol (`protocol_coordination.py`, triggers of migrations 0019 and 0020) | protocol policy row, admission token, worker capabilities | close, reopen, admit | no cohort claims what it cannot run; operators, workers and producers never block each other for good |
| Targets (`target/`) | policy and attestation revisions, routes, evidence | revise, attest, route | a task runs only on an attested target |
| Workflow progress (`workflow/progress/`) | run allocation, current and pending topology, pages, node details, summaries and their archive | allocate, stage, publish, archive, clean up, read | a summary finds its detail, counters match rows, a reader sees one publication, everything superseded expires |
| Compiled graph lifecycle (`runtime/compiled_graph_lifecycle.py`) | a reducer's phases | events and deadlines | no phase is skipped, teardown always happens |
| Bounded fan-out (`runtime/result_buffer.py`, `runtime/result_fold.py`, `workflow/concurrency.py`) | windows and buffers | push, pop, fold | bounds hold, order is kept |

Hard behaviours: managers interleave at every database access; they stall past
their lease and resume with old snapshots; they die between two effects; a
submission may be accepted without an answer; a job may outlive the execution
it belongs to; administrators cancel, retry, retire and delete in between.
`PROJECT.json` lists these hazards with the properties aimed at them.

## Modules

`TaskExecutionRow` has the row (`Row`) and one operator per row transition
(`Claimed`, `Tracked`, `RequeuedByRetry`, ...), each the assignments of one
transaction. A submission ID is a digest of the row's attempt and generation,
so it is that pair; timestamps are reduced to what is asked of them (recent or
stale, in time or overtime, ahead or passed).

`TaskLifecycle` is the abstract machine: `row` and `attempts`, one action per
row-locked transaction. Its guards are what every caller has established when
the transaction commits. It covers rows executed as Ray Jobs.

`RayJobExecution` is the detailed machine. Beside the row and its history there
are the leases (none, live, dead), the workers (phase, step, tracked identity,
snapshot, last status) and Ray's jobs. A worker's step is one database
transaction or one RPC, because that is where other processes may run:

| Code | Actions |
| --- | --- |
| `claim_and_process_tasks`, `process_task`, `_handoff_unsubmitted_task` | `ExpireQueued`, `Claim`, `ProcessTask`, `HandBack` |
| `submit_task_to_ray` | `Reserve`, `AttachRequest`, `PreparationFails`, `Submit`, `Confirm`, `Release`, `ReleaseRaises`, `SubmissionFails` |
| `_handle_ray_job_confirmation_loss` | `ConfirmationLoss` |
| `poll_ray_job_completions`, `reconcile_tasks`, `_reconcile_ray_job_task` | `PollCompletion`, `ReconcileTracked`, `Consume`, `ConsumeNothing`, `GetStatus`, `Refresh`, `Decide`, `ReadOrphan`, `AdoptOrphan` |
| `detect_stuck_tasks` | `ReadStuck`, `TimeOut`, `RecoverLost` |
| `process_cancellations` | `ReadCancelling`, `FinishCancellation` |
| `shutdown`, `_request_shutdown_for_lease_loss` | `Signal`, `ReadHandoff`, `Handoff`, `Stopped`, `LoseLease` |
| entrypoint and Ray | `JobArrives`, `JobPublishes`, `JobEnds` |

A stop request is sent inside the transaction that ends an execution;
`CrashAfterStop` is the crash between the two. One row stands for all, because
every transaction locks one execution row. Worker IDs are not reused here:
that is what `WorkerLease` is about.

`RayCoreExecution` is the same manager in Ray Core mode, over the same row. The
worker is the Ray driver of what it submits: `handle` is the entry of
`RayCoreRunner._pending_tasks` for the row, `reply` the answer last polled
(kept after its step as history), `connected` whether Ray is initialized, and
`moved` whether `last_heartbeat_at` has changed since the snapshot, which the
row fence compares exactly. `tasks` are the remote tasks by execution identity.

| Code | Actions |
| --- | --- |
| `submit_task_to_ray_core`, `submit_durable` | `Submit`, `SubmissionFails`, `Track`, `TrackingFails` |
| `poll_ray_core_tasks`, `poll_completed` | `Partition`, `Wait`, `ReadReplied`, `Apply`, `Finalize`, `DropAnswer` |
| `_check_ray_connection`, `_reconnect_ray`, `_terminalize_lost_ray_core_handles` | `BeginReconnect`, `Reconnect`, `ReadLost`, `Terminalize` |
| `detect_stuck_tasks`, `process_cancellations` | `ReadStuck`, `TimeOut`, `RecoverLost`, `ReadCancelling`, `FinishCancellation` |
| `shutdown`, errors that end `run_loop` | `ReadHandoff`, `Handoff`, `Stopped`, `LoopFails` |
| Ray and the task code | `Disconnect`, `TaskReturns`, `PublishActivity` |

`RayJobPolling` is the loop of one Ray Job manager over several rows: expiry and
claims by priority and age into free slots, the completion scan a page at a
time, reconciliation, which may end executions and adopts jobs of dead workers
beyond the slots. Only the order of primary keys is kept: `rows` is the
sequence of unfinished rows and a key the number of rows up to it, so that rows
may arrive without end in a finite state space (`Shifted` moves cursor and
cycle end when a row leaves). One row may be `watched`; the liveness
properties follow it. `Poll`, `Claim` and `Reconcile` are the three phases of
`run_loop` that matter here.

`WorkerLease` has a clock, the policy row, the lease rows by worker ID, the
processes, and which rows each ID and each process holds (`holder` and
`deposed` are history variables, nothing reads them but the properties). One
action is one transaction under the policy lock.

`PayloadRegistry` has one content-addressed object, the registry row under each
spelling of its reference, the executions that hold one, and three kinds of
process: producers (`prepare_task_input` and `register_task_input` inside
`enqueue`, `prepare_ray_job_request` and `register_and_attach_ray_job_request`),
the purge command (`_process_reference`) and the reaper of unregistered objects
(`_reap_unregistered_object`). `lock` is the row lock, or the unique key an
uncommitted insertion holds; what a transaction writes appears at its commit
(`Attach`, `CommitPurge`, `CommitReap`), what it does to the object appears at
once, and any delete or commit may fail after the object is gone. An object that
a reap took while its tombstone was rolled back is told from one that is just
absent (`"taken"`); no action looks at the difference. A producer may register
under an earlier release's spelling too, if that has its row. Ages are compared with fixed cutoffs only, so an object, a row and an
ended execution are recent or old. `Init` allows what an installation can start
with: rows of either spelling or of both, tombstones and orphan objects.

`ProtocolAdmission` is a rolling upgrade on PostgreSQL, lock by lock. A
transaction (`tx`) has a stage and the locks it still has to take, in the order
in which its statements and triggers take them; `shared` and `exclusive` say
who holds what until its end, and its writes appear at its commit.

| Code | Actions |
| --- | --- |
| `close_legacy_worker_admission` | `BeginTransition`, `ScanLegacyLeases`, `ValidateClose`, `CommitClose` |
| `reopen_legacy_worker_admission` | `BeginTransition`, `FenceWriters`, `CommitReopen` |
| a legacy manager under the triggers of migration 0019 | `InsertLegacyLease`, `BeatLegacyLease`, `GuardLegacyLease`, `CommitLegacyLease`, `WorkOrCommitLegacy` |
| `_create_lease`, `claim_and_process_tasks`, `_lock_authoritative_leases`, `_authoritative_task_owner` | `InsertLease`, `BeginClaim`, `SelectQueued`, `BeginOwned`, `LockOwned`, `CommitOwner`, `CommitFinish` |
| lease expiry and the administrator | `Deactivate`, `DeleteInactive` |
| producers of the old, this and a newer release, with the trigger of migration 0020 | `InsertOld`, `GuardLegacyExecution`, `Insert`, `Retry`, `RetryLocked`, `GuardNewWork` (the trigger's check of policy and token), `CommitWrite` |

The row of the lease policy is left out: it is taken `NOWAIT`, so nobody ever
waits for it.

`WorkflowProgress` has the task row with its run identity and summary, the
archive of attempts, the storage of each run (current and pending topology,
pages, node details and the counters kept beside them, deadline), one
coordinator per run, the cleanup command and a reader behind a cursor.

| Code | Actions |
| --- | --- |
| `runs.py` | `Allocate`, `Reclaim` |
| `storage.py` | `StageBegin`, `StageWrite`, `StageCommit` (the check of the task row, the writes and the commit of one staging), `Publish`, `Discard` |
| `publication.py` | `PublishUnavailable` |
| `lifecycle.py`, the claim | `Claim`, `Finish`, `FailAndRetry`, `RequestCancel`, `Cancel`, `RequestRetry`, each with `RecordAttempt` and `Stamp` |
| `cleanup.py` | `CleanupSelect` (a batch read without locks), `CleanupProcess` |
| `reads.py` | `ReadPage` |

It models the storage interface, which accepts a sequence of publications for a
run; the coordinator in `workflows.py` sends only the terminal one today. Two node
states, RUNNING and SUCCEEDED, each with its count in rows and summaries, stand
for the four; a publication is refused, as in `_storage_bound_summary` and
`normalize_workflow_progress_summary`, when its rows are in states the summary
does not count or success would leave nodes running, and a reader compares the
counts state by state (`EpochConsistent`). The lifecycle rewrites a summary whose
terminal state was never published, with the mark (`lastObserved`) that excuses
the difference. One variable stands for all coordinators of a run: after
`Reclaim` the next steps may be the earlier one's or a new one's, and a staging
in its transaction goes on. The hour a pending topology or page is left alone may have passed at any time,
since nothing bounds how slow a coordinator is, and a batch of the cleanup is
any set of candidates up to its size.

`RayJobExecution` and `RayCoreExecution` instantiate `TaskLifecycle` with their
own row and history; its specification is a property of the former.

The modules whose names begin with `MC` instantiate these for TLC. The modules
whose names end in `Proofs` hold the theorems about the module they are named
after. Those about modules that extend `TaskExecutionRow` each begin with the
same lemmas about its row transitions.
Operators commented as a faulty variant are the forms that plausible bugs
would give to the definition that follows them; every property is violated by
one of them.

## Runs

| Run | Bounds | Shows |
| --- | --- | --- |
| `task_lifecycle` | 2 workers, 3 attempts, 4 generations | the history is complete and never rewritten, attempts stay behind generations, a claim opens a generation, an envelope decides its attempt |
| `ray_job_safety` | 1 unreliable and 1 reliable worker, 2 attempts, 3 generations, lost commit answers | the manager implements `TaskLifecycle`; submissions happen once, automatic retries never overlap a job, ownership moves only from the dead, one live monitor, bound requests, late publications of earlier generations decide nothing |
| `ray_job_prerequest` (violation) | 1 worker, lost commit answers | a reservation that a pre-request failure does not release, see the finding |
| `ray_job_liveness` | 1 unreliable and 1 reliable worker, 2 attempts, timeouts | every claimed execution is resolved; only an entitled live worker stops the current job |
| `ray_core_safety` | 2 unreliable workers, 2 attempts, 2 generations, workflow activity and errors | a live handle keeps its execution from being queued again, a requested cancellation wins over a polled result, no handle of an earlier execution refuses the next submission |
| `ray_core_liveness` | 1 unreliable and 1 reliable worker, 2 attempts, 1 generation, timeouts and errors | every claimed execution is resolved |
| `worker_lease` | 3 processes (one with another duration), 2 IDs, 1 task, clock to 4, 2 policy revisions | authority is earned, deposed processes never act, durations agree, retired leases stay retired |
| `payload_registry` | 2 producers, 1 purger, 1 reaper, 2 executions, each with a task input or a Ray Job request; any delete or commit may fail | bytes and registration outlive what was enqueued, except for a reap that rolls back after its delete; nothing deletes under a live execution |
| `ray_job_polling` | 3 unfinished rows at a time, 2 priorities, 2 slots, pages and expiry batches of 1, 1 fault | claims stay within the slots, every persisted completion is consumed, every claimable row of the highest priority leaves the queue |
| `protocol_admission` | 2 operators, 1 legacy worker, 1 worker of both protocols, 1 producer, 1 execution, 4 revisions | no legacy worker is active after a closure, no newer work is live after a reopening, and no transactions wait in a circle |
| `workflow_progress` | 1 run, 2 attempts, topologies {1,2} and {2}, 2 revisions, 2 days, limits of 2 records and 3 bytes, a reader of the first attempt | counters match rows within the limits, linked pages are stored, a reader's pages belong to one publication and are never found corrupt, also after an end that was not reported |
| `workflow_runs` | 2 runs, 2 attempts, 1 node each, 2 days | a summary that has not expired finds its detail; superseded detail has a deadline |

Why the bounds are enough for the cases of interest. Two workers are a stalled
one and the one that takes over; what a third would do, the first does again in
another generation, and the proofs are for any number of workers that may all
fail. A manual retry opens a generation and the claim after it another, so that
three let an old job meet the execution that replaced its own. Two attempts give one automatic retry and its exhausted
budget. In `worker_lease` two IDs and three processes give reuse and collision,
and the clock passes both durations, the boundary included. In `payload_registry`
two producers share one content, one prepared while the other attaches, and one
execution is purged while another is enqueued; the proofs remove these bounds.
In `ray_job_polling` a page of one row and three rows make the cursor pass a
row, wrap around and meet rows with larger keys; rows arrive for ever, so the
bound is on those unfinished at one time. In `protocol_admission` two operators
race with each other's revisions, the legacy worker's ID is below the other's,
so that takeovers lock both leases, four revisions are a closure, a reopening
and a closure again, and deadlock is checked by TLC too, since operators may
always begin again. In `workflow_progress` the second topology drops a
node, so that publications keep, drop and add records, and the limits refuse
one. Generations, revisions and the clock are bounded (`MaxGeneration`, `MaxRevision`,
`MaxTime`), and a finished execution has nothing left to do, so the runs do not
check for deadlock (except `protocol_admission`); `InFlightResolved` is the statement that replaces it.

Symmetry is used for workers in safety runs where all are alike, and never for
liveness.

`ray_job_liveness` leaves out lost commit answers: the finding below leaves a row
with a live owner that no longer watches it, and without a timeout nothing ends it
while that owner lives.

Fairness of `ray_job_liveness`: a process finishes what it began unless it
crashes (the loop has no unbounded wait inside a phase); the reliable worker
runs each phase of `run_loop` again and again at its interval, so a phase that
repeatedly finds work takes it (strong fairness of the scans, because its other
phases keep the worker busy in between); an unreliable worker's lease runs out;
a heartbeat nobody renews gets old; an accepted job ends. That jobs end is an
assumption on the task code: without a timeout the code waits for them too.
Nothing forces a timeout, a crash, a cancellation or the arrival of a request
whose answer was lost. `ray_core_liveness` assumes the same, and that `ray.wait`
eventually reports a finished task when it is asked again and again
(`SeesAnswer`); it does not assume that a connection ever comes back, and an
answer may be dropped each time. Three generations of Ray Core retries were too
many for two workers; two, with automatic retries that keep the generation, let
a worker submit the same row again. `ray_job_polling` assumes that the loop goes
on (weak fairness of its three phases) and that a tracked job ends; nothing is
assumed of reconciliation finding anything, of producers or of other workers.

The argument behind `NoCircularWait`: locks are taken in the order advisory
lock, lease rows by worker ID, execution row, table, policy, token. The
heartbeat of an admitted legacy worker breaks it: it holds the policy shared when
its transaction goes on to write an execution, which needs the table. It is
safe because a reopening fences the table only when admission is closed, and
then no legacy worker gets past the policy.

### Finding

A statement of the documents that the code does not keep, with a run in which TLC
finds the counterexample.

- `PreRequestFailureReleases` (run `ray_job_prerequest`). If the commit
  of `register_and_attach_ray_job_request` succeeds and its answer is lost, the
  worker's copy of the row has no request reference while the row has one;
  `release_ray_job_request_reservation` (`ray_job_request_storage.py:1305`)
  compares the two, declines, and the worker stops tracking the row. It stays
  RUNNING under a live owner, with a reserved ID for which no job exists, until
  that owner's lease ends or a timeout applies, although
  `docs/architecture.md:377` and `docs/changelog.md:2005` say that "definite
  pre-request failures release the reservation".

### Observations

Other places where the code and its documents part, met while modelling.

- `BytesOutliveExecution` fails: given to TLC as an invariant of
  `MCPayloadRegistry.cfg`, it is refuted in a few steps.
  `_reap_unregistered_object` (`payload_registry.py:663`) deletes inside the
  transaction that inserts the tombstone. When the backend deletes and its
  answer is lost, or the commit fails, the tombstone is rolled back and the
  object is gone. A producer that prepared the same content earlier (an old
  orphan is kept as it is by `store_payload`) then inserts a new row, and
  `register_task_input` checks the bytes only of rows that existed
  (`if not created`): the execution is committed without its input.
  `docs/architecture.md:322` and `docs/reference/input-storage.md:318` say that
  the tombstone is there "to fence concurrent producers"; it does only when it
  commits. `docs/reference/input-storage.md:219` knows of rolled back
  tombstones, and describes the remedy for existing rows.
  `BytesLostOnlyToReap` is the theorem that this is the only way:
  purges roll back to an existing row, which is never trusted.
- `poll_completed` retires a ready Ray Core handle (`runner/ray_core.py:1061`)
  before `poll_ray_core_tasks` applies its answer; if applying it raises, or if
  the row's heartbeat moved between the read and the fence, the answer is
  dropped (`DropAnswer`) while the row stays RUNNING. It is later found stuck
  and retried as LOST. That is within the at-least-once contract for ordinary
  answers, but the same happens to the transport failure that
  `runner/ray_core.py:1024` builds to "suppress automatic retry" because no
  "safe replay is proven", and for which `docs/runbook.md:191` asks the
  operator to inspect the remote execution "before considering manual replay".
- The cleanup of pages without an owner takes the first `--batch-size` of them,
  ordered by the error of their run, then by age
  (`workflow/progress/cleanup.py:635`). A failed deletion is recorded on the run,
  so the failed page and the clean pages of its run sort alike: when the oldest
  page of a run can never be deleted and the batch is small, newer pages of the
  same run are never reached. `cleanup.py:577` says "candidates without a
  previous cleanup failure run first so one permanent failure cannot starve
  newer work", and `docs/reference/cli.md:425` and `docs/runbook.md:685` repeat
  it. The model abstracts this order.
- The quarantine name that `workflow/progress/preparation.py:2020` gives a spill
  directory is not the one `spill_capacity.py:826` recognises. Neither is
  modelled.

## Proofs

`TaskLifecycleProofs`, from `MaxAttemptsType`, `MaxGenerationType` and
`NoneIsNull`: types, `HistoryComplete`, `AttemptsWithin`, `HistoryStable`,
`CompletionDecides` and `ClaimOpensGeneration`. The inductive invariant is the
conjunction of types, history and order. They need each other: the history is a
function on attempt numbers up to `MaxGeneration + 1`, an automatic retry raises the attempt without
opening a generation, and only the order (strict while in flight) keeps the
number in range. Every action is classified by what it does to the history
(leaves the attempt open, ends it, ends it and opens the next), and the history
invariants follow from the class.

`WorkerLeaseProofs`, from `DurationsType`, `ConfiguredType`, `BoundsType` and
`NoneIsNew`: types, `AuthorityIsEarned`, `DeposedNeverActs`, `AgreedDuration`
and `RetiredStaysRetired`, for any number of processes, IDs and tasks. The
strengthening says that a lease row names the one ID of a started process (`RowsAreExact`), that a process
which has not started has nothing (`NewcomersAreClean`), that an owned row was
earned by a process with that very ID whose lease row, if it still exists, is
its own (`HoldersOwn`; here the check of in-flight tasks in `_create_lease` is
needed, since the lease row may be gone), and that what is left of a deposed
process's lease is inactive (`DeposedAreRetired`; here takeover has to retire
the stale row in the same transaction, because a later renewal is judged by
the row alone). Every step but `CreateLease` keeps the rows: it deletes one,
retires one, or renews an active one (`RowsKept`).

`PayloadRegistryProofs`, from `ActorsDiffer` and `NoneIsNobody`: types,
`LiveIsRegistered`, `DeletesOnlyUnused` and `BytesLostOnlyToReap`, for any number
of processes and executions and whatever fails. The strengthening says that a process inside a transaction holds the lock its
step needs and nobody else acts under it; that an execution which holds a
reference has a row under that spelling; that a registration, a purge and a
reap are alone with the object from lock to commit; and that a prepared
producer whose content has no row has its object, or a reaper has just taken it
and either is about to commit its tombstone, which then is a row, or has rolled
it back (the case the property excepts). `BytesLostOnlyToReap` is not inductive without the last part.

`ProtocolAdmissionProofs`, from `WorkerIds`, `WorkersAreFinite`, `NoneIsNobody`,
`WorkersDiffer` and `SupportsType`: types, `NoLegacyWhileClosed`,
`OnlyV1WhileOpen` and `NoCircularWait`, for any number of operators, workers,
producers and executions. The first two are not inductive: a transaction acts at
its commit on what it read some stages earlier. The strengthening says, for each
stage, which locks it holds or is still going to ask for (`StageLocks`), and
which facts it has read that those locks keep true (`StageFacts`): a legacy
worker past the policy sees admission open until it ends, an insertion of newer
work sees it closed. `NoCircularWait` needs, for each transaction, that its
requests come in the order of the locks and after everything it holds
(`Ordered`). The exception, a legacy worker that goes on after its heartbeat, is
dealt with by `FenceIsClosed` (only a reopening that found admission closed asks
for the table) and `StageFacts` (such a worker has seen it open, and still
holds the policy). A set of waiting transactions then has one whose request is
latest in the order, and whoever holds it waits for nothing in the set.

`RayCoreExecutionProofs`, from the assumptions of `TaskExecutionRow` and
`RayCoreExecution`: types, `CancellationWins`, `NoStaleHandle` and
`HandleKeepsExecution`, for any number of workers and generations. The
strengthening has three parts for each worker: where in its program a handle can
exist, and of which execution (`HandleAt`); what a snapshot was read as
(`Snapshots`); and that the claim or the handle of a worker with a lease is its
own and that nobody else ends or requeues that execution (`Keeps`).
Each step is shown to move one worker and to leave to all others what their part
is about; the action properties follow for the step from the same invariant.

`RayJobExecutionProofs`, from the assumptions of `TaskExecutionRow` and
`RayJobExecution`: types, the safety invariants and action properties of the
passing runs over it and, at the end, that it implements `TaskLifecycle`. The
argument rests on identities. A claim opens a generation for which Ray has never
been asked (`JobsKnown`), so at most one worker at a time submits an execution
(`OneSubmitter`). That worker is the only one to write its reservation and its
request reference, so the row shows exactly how far the submission has come
(`Progress`). Whoever decides about a row acts on what the row still is
(`Snapshots`), and what a live worker tracks and the row still runs is its own
(`Tracks`). `SubmitsOnce` is not inductive without `JobsKnown` and
`OneSubmitter`, `RunningJobIsBound` not without `Progress`.
All hold with lost commit answers; `PreRequestFailureReleases`, which does not,
has no theorem. For the
refinement each write of a worker is matched with the transition of
`TaskLifecycle` whose guard the fences of that write establish.
`AutomaticRetryNeverOverlaps` then follows from the refinement: only three
transitions of the lifecycle queue a RUNNING row again.

`WorkflowProgressProofs`, from `WorkflowProgressAssumption`: types,
`AggregatesMatchRows`, `ManifestPagesStored`, `SummaryBacked`,
`StaleDetailHasDeadline` and `ReaderSeesOnePublication`, for any number of runs
and attempts, all topologies and all limits. The assumption says of the plan
only that versions are positive, as `storage.py` requires, and that the nodes
are finitely many, numbered in key order.
The proof comes in layers, each using the one before:

- `RowsInv`: every storage row is good by itself (`GoodRow`). `Merge` is a
  recursive function over the records of a publication; that it keeps the
  aggregates in step needs an induction, which is stated for sets of natural
  numbers (`NatSetInduction`), after a lemma that the recursion does define a
  function (`RecursionOverNat`).
- Every step is then one of eleven kinds (`Step`), described by what it does to
  detail, deadlines, runs and summaries. The rest of the argument only looks at
  the kind.
- `SummaryInv`: a run belongs to the attempt it was allocated in, and only that
  attempt writes its detail (`Identities`), the archive has the ended attempts
  (`Archived`), and a summary's detail is there under its revision and deadline,
  or has been taken after the deadline of an attempt that is over (`Backed`).
  The last case is why `SummaryBacked` is not inductive: a deadline in the past
  has to be told from one that was never set. `Settled` makes a second
  recording of the same attempt, by an operator's retry, leave its summary alone.
- `StaleDetailHasDeadline` is inductive on top of these.
- What a reader compares with its summary agrees state by state: the counts of the
  rows fit those of every summary that points at them, unless it carries the mark
  of an unreported end, and equal them when it says that the detail is complete.
  The rewriting of the lifecycle keeps this only because it sets that mark and
  takes back the claim of completeness.
- `Walking`: what a reader has got are the first rows of the publication its
  cursor names, and once that is gone from a run the run is over, so no
  later publication can reuse the revision.

`RayJobPollingProofs`, from `RayJobPollingAssumption`: types (the completion
cursor stays within its cycle, the frozen end of the cycle within the table),
`ClaimsWithinConcurrency` and two properties that no run checks:
`SlotsFilledInOrder` (n free slots take the first n claimable rows, or all) and
`ScanConsumesItsPage` (after a poll without a failure no row of the range that
the cursor passed has a receipt). They hold for any number of rows, any
priorities, concurrency, page size and expiry batch. The bound is inductive with
the types alone: a claim counts all tracked rows, adopted ones included, and
what the worker claimed itself is a part of them. What has to be proved is the
counting. The claim, the page and the removal of rows from the sequence
are all defined by the number of elements that come before one. Those sets grow
along the order, so their sizes are all different (`RanksDiffer`), and therefore
take every value (`RanksOnto`, `ManySmallRanks`), by injections and the
pigeonhole theorem of the library rather than by induction. Hence a row that stays
keeps its place among those that stay, its new key is its old one shifted
(`KeysOfRowsLeft`), and no row is counted twice (`WithoutCounts`).
`ScanConsumesItsPage` is the safety part of `ReceiptConsumed`: what is left to
the run is that the polls come round.

Only model-checked: liveness (`InFlightResolved` of both managers,
`ReceiptConsumed`, `HighestPriorityClaimed`), which is beyond the prover. Every
safety property that a passing run checks is stated by a theorem.

## Not modelled, and limits

- Clock skew: the code compares timestamps of different machines with its own
  clock; `WorkerLease` has one clock.
- Ray Jobs submitted before request references existed, and a runner that
  returns another handle than the reserved one
  (`_handle_mismatched_ray_job_submission`).
- Ray Core: target-bound handles (`_poll_target_execution_results`),
  `get_status`, and the single cancellation slot. A cancellation only forgets
  the handle; the remote task may return, die or run on in any case. Synchronous
  mode.
- Queue selection, and the adaptive delay between passes of the loop. In
  `RayJobExecution` and `RayCoreExecution` all workers support the row's
  protocol; `ProtocolAdmission` is about those that do not.
- Protocol admission on SQLite, where a no-op write serializes transitions and
  writers; rejection of malformed policy rows; the queue order of PostgreSQL's
  lock waiters (a lock is granted whenever nobody holds it in conflict).
- Workflow progress: encodings, byte budgets beyond one bound, the sampling
  producer, the read collections other than node details, the one hour grace
  and the order of a cleanup batch (see the module). Spill preparation and
  capacity (`workflow/progress/preparation.py`, `spill_capacity.py`): their
  controller and janitor have no caller at this commit.
- Payloads: the purge's candidate cursor and the inventory's paging choose what
  the modelled transactions look at. A reactivation that stores the object and rolls back leaves a
  `PURGED` row with an object that no command collects; the model reaches this,
  and no document promises otherwise.
- Contents of results, errors and payloads; a completion is accepted with one
  of three meanings, or rejected.
- Admin pages, metrics, tracing, redaction, settings, migrations, benchmarks,
  the test project and the qualification suite: they change no coordination
  state.

## Plan

1. Done: row and lifecycle, Ray Job execution with its refinement and liveness,
   Ray Core execution, several rows of one manager, leases and policy, payload
   registration against purge and reaping, protocol admission, workflow
   progress; the proofs of lifecycle, leases, payload registry, protocol
   admission, workflow progress, both managers, the refinement included, and
   the loop over several rows.
2. Later modules, in this order: the compiled-graph reducer; target
   coordination and routing; runtime-environment maintenance; result buffer and
   concurrency window; the doctor's supervisor.
