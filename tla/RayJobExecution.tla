---------------------------- MODULE RayJobExecution ----------------------------
(***************************************************************************)
(* One durable task execution run as a Ray Job: the worker processes that  *)
(* claim, submit, monitor, adopt, time out and cancel it (the task-manager *)
(* command), their leases, the remote job and its entrypoint, and the      *)
(* administrators that cancel and retry it.                                *)
(*                                                                         *)
(* A worker is one single-threaded process.  It acts on the row through    *)
(* transactions and compare-and-swap updates and on Ray through RPCs;      *)
(* between two of them any other process may run, the worker may stall     *)
(* past its lease, or die.  What it read earlier is in its snapshot.       *)
(*                                                                         *)
(* Rows do not interact: every transaction locks one execution row, so one *)
(* row stands for all.  Worker IDs are never reused here (WorkerLease is   *)
(* about their allocation), so a restarted process is another worker.      *)
(***************************************************************************)
EXTENDS TaskExecutionRow

CONSTANTS
    Reliable,         \* workers that neither stall past their lease nor stop
    Timeouts,         \* whether the task has timeout_seconds
    CommitAckLoss     \* whether a commit may succeed and its answer be lost

ASSUME ReliableAreWorkers == Reliable \subseteq Workers
ASSUME TimeoutsType == Timeouts \in BOOLEAN
ASSUME CommitAckLossType == CommitAckLoss \in BOOLEAN

VARIABLES
    row,        \* the RayTaskExecution row
    attempts,   \* its TaskAttempt history
    lease,      \* TaskWorkerLease of each worker
    worker,     \* the worker processes
    jobs        \* Ray's record of every submission ID

vars == <<row, attempts, lease, worker, jobs>>

\* The durable machine this one implements.
Lifecycle == INSTANCE TaskLifecycle WITH row <- row, attempts <- attempts

-----------------------------------------------------------------------------
(***************************************************************************)
(* Leases.  A lease is "live" while active and inside its duration and     *)
(* "dead" once past it, withdrawn, or retired by cleanup or by a takeover. *)
(* A dead lease never revives (WorkerLease), so these are not told apart.  *)
(***************************************************************************)
LeaseState == {"none", "live", "dead"}

\* _lock_authoritative_leases renews or validates only a live lease.
Live(w) == lease[w] = "live"

\* Faulty variant: the source's lease is not looked at.
TakesFromAnyone(w, owner) == owner \in Workers \cup {None}

\* Takeover is refused while the source owner is live.
MayTakeFrom(w, owner) == owner \in {w, None} \/ (owner \in Workers /\ ~Live(owner))

(***************************************************************************)
(* Remote jobs, by submission identity.  "inflight" is a request whose     *)
(* answer was lost and which Ray may still accept, or never will; "alive"  *)
(* is a pending or running job, "stopping" one that was asked to stop,     *)
(* "exiting" a driver whose task code has returned.  A strict Ray Job that *)
(* SUCCEEDED, FAILED or was STOPPED is handled alike: "ended".             *)
(***************************************************************************)
JobState == {"none", "inflight", "alive", "stopping", "exiting", "ended"}

\* Task code of this identity runs, or can still start.
MayExecute(i) == jobs[i] \in {"inflight", "alive", "stopping"}

\* RayJobRunner.get_status: an RPC failure or an unknown job is UNKNOWN.
Reported(j) ==
    {"UNKNOWN"} \cup
    CASE j \in {"alive", "stopping", "exiting"} -> {"ALIVE"}
      [] j = "ended" -> {"ENDED"}
      [] OTHER -> {}

\* stop_job: delivered, or not (INDETERMINATE, or nothing to stop).
StopOutcomes(j) == IF j = "alive" THEN {j, "stopping"} ELSE {j}

Stop(i) ==
    IF i = None THEN UNCHANGED jobs
    ELSE \E j \in StopOutcomes(jobs[i]) : jobs' = [jobs EXCEPT ![i] = j]

(***************************************************************************)
(* Worker processes.  phase: "stopping" is shutdown_requested by a signal. *)
(* tracked is active_tasks together with active_task_identities.           *)
(***************************************************************************)
Steps ==
    {"idle", "claimed", "reserve", "attach", "submit", "confirm", "inspect",
     "release", "fail", "poll", "consume", "status", "refresh", "decide",
     "adopt", "overtime", "lost", "cancel", "handoff"}

JobStatus == {"ALIVE", "ENDED", "UNKNOWN"}

Worker ==
    [ phase : {"new", "up", "stopping", "down"},
      pc : Steps,
      tracked : Identities \cup {None},
      snapshot : Row \cup {None},
      status : JobStatus \cup {None} ]

TypeOK ==
    /\ row \in Row
    /\ attempts \in [Attempts -> Terminal \cup {None}]
    /\ lease \in [Workers -> LeaseState]
    /\ worker \in [Workers -> Worker]
    /\ jobs \in [Identities -> JobState]

Unstarted ==
    [phase |-> "new", pc |-> "idle", tracked |-> None, snapshot |-> None,
     status |-> None]

Init ==
    /\ row = Enqueued
    /\ attempts = [n \in Attempts |-> None]
    /\ lease = [w \in Workers |-> "none"]
    /\ worker = [w \in Workers |-> Unstarted]
    /\ jobs = [i \in Identities |-> "none"]

At(w, pc) == worker[w].phase \in {"up", "stopping"} /\ worker[w].pc = pc

\* The loop starts a new phase only while no shutdown was requested.
Looping(w) == worker[w].phase = "up" /\ worker[w].pc = "idle"

Goto(w, pc) == worker' = [worker EXCEPT ![w].pc = pc]

\* Keep a snapshot of the row for the next step.
Remember(w, pc, r) == worker' = [worker EXCEPT ![w].pc = pc, ![w].snapshot = r]

\* Back to the loop, tracking identity t.
Return(w, t) ==
    worker' = [worker EXCEPT ![w].pc = "idle", ![w].tracked = t,
                             ![w].snapshot = None, ![w].status = None]

\* Faulty variant: the fence ignores an envelope published after the snapshot.
ExactButCompletion(s) ==
    /\ row.state = s.state
    /\ Identity(row) = Identity(s)
    /\ row.ray_job_id = s.ray_job_id
    /\ row.claimed_by_worker = s.claimed_by_worker
    /\ ~(s.last_heartbeat_at = "stale" /\ row.last_heartbeat_at = "recent")

(***************************************************************************)
(* The row fence of _authoritative_task_owner.  Timestamps are compared as *)
(* values: a heartbeat that looked stale and is recent has moved.  (One    *)
(* that moved and aged again compares equal here, which only adds          *)
(* behaviours.)  started_at moves only with the generation or the state.   *)
(***************************************************************************)
Exact(s) ==
    /\ row.state = s.state
    /\ Identity(row) = Identity(s)
    /\ row.ray_job_id = s.ray_job_id
    /\ row.claimed_by_worker = s.claimed_by_worker
    /\ row.completion_data = s.completion_data
    /\ ~(s.last_heartbeat_at = "stale" /\ row.last_heartbeat_at = "recent")

\* The fence of the submission compare-and-swap updates.
StillClaimedBy(w, s) ==
    /\ row.state = "RUNNING"
    /\ Identity(row) = Identity(s)
    /\ row.claimed_by_worker = w

\* A terminal transition and its history entry, in one transaction.
EndAs(r, s) ==
    /\ row' = Finished(r, s)
    /\ attempts' = Archived(attempts, r, s)

\* _handle_task_failure: should_retry, then record_failure.  A denylisted or
\* non-retryable failure, or an exhausted budget, ends the execution.
HandleTaskFailure(retryable) ==
    \/ EndAs(row, "FAILED")
    \/ /\ retryable
       /\ WithinAttempts(row)
       /\ row' = RequeuedByPolicy(row)
       /\ attempts' = Archived(attempts, row, "FAILED")

-----------------------------------------------------------------------------
(***************************************************************************)
(* Process life.                                                           *)
(***************************************************************************)

\* _create_lease under a fresh ID.
Boot(w) ==
    /\ worker[w].phase = "new"
    /\ worker' = [worker EXCEPT ![w].phase = "up"]
    /\ lease' = [lease EXCEPT ![w] = "live"]
    /\ UNCHANGED <<row, attempts, jobs>>

\* A crash: the lease stays live until it runs out.
Crash(w) ==
    /\ w \notin Reliable
    /\ worker[w].phase \in {"up", "stopping"}
    /\ worker' = [worker EXCEPT ![w] = [Unstarted EXCEPT !.phase = "down"]]
    /\ UNCHANGED <<row, attempts, lease, jobs>>

\* The worker, or its loop, stalls longer than the lease duration.
LeaseAges(w) ==
    /\ w \notin Reliable
    /\ Live(w)
    /\ lease' = [lease EXCEPT ![w] = "dead"]
    /\ UNCHANGED <<row, attempts, worker, jobs>>

\* Steps that prove lease ownership before they touch a task.
LeaseFenced ==
    {"idle", "claimed", "poll", "consume", "decide", "adopt", "overtime",
     "lost", "cancel", "handoff"}

\* _request_shutdown_for_lease_loss, then shutdown: nothing is handed off and
\* the exact lease, if still active, is withdrawn.
LoseLease(w) ==
    /\ \E pc \in LeaseFenced : At(w, pc)
    /\ ~Live(w)
    /\ worker' = [worker EXCEPT ![w] = [Unstarted EXCEPT !.phase = "down"]]
    /\ lease' = [lease EXCEPT ![w] = "dead"]
    /\ UNCHANGED <<row, attempts, jobs>>

\* SIGTERM: finish the step at hand, then shut down.
Signal(w) ==
    /\ w \notin Reliable
    /\ worker[w].phase = "up"
    /\ worker' = [worker EXCEPT ![w].phase = "stopping"]
    /\ UNCHANGED <<row, attempts, lease, jobs>>

\* _prepare_shutdown_handoff reads the tracked row ...
ReadHandoff(w) ==
    /\ worker[w].phase = "stopping" /\ worker[w].pc = "idle"
    /\ worker[w].tracked # None
    /\ IF row.ray_job_id = worker[w].tracked /\ Identity(row) = worker[w].tracked
          THEN Remember(w, "handoff", row)
          ELSE Return(w, None)
    /\ UNCHANGED <<row, attempts, lease, jobs>>

\* ... and drops its ownership under the lease and row fence.
Handoff(w) ==
    /\ At(w, "handoff") /\ Live(w)
    /\ LET s == worker[w].snapshot IN
       IF s.state = "RUNNING" /\ s.claimed_by_worker \in {w, None} /\ Exact(s)
         THEN row' = Disowned(row)
         ELSE UNCHANGED row
    /\ Return(w, None)
    /\ UNCHANGED <<attempts, lease, jobs>>

\* release_lease ends a graceful shutdown.
Stopped(w) ==
    /\ worker[w].phase = "stopping" /\ worker[w].pc = "idle"
    /\ worker[w].tracked = None
    /\ worker' = [worker EXCEPT ![w].phase = "down"]
    /\ lease' = [lease EXCEPT ![w] = "dead"]
    /\ UNCHANGED <<row, attempts, jobs>>

-----------------------------------------------------------------------------
(***************************************************************************)
(* Claim and submission.                                                   *)
(***************************************************************************)

\* claim_and_process_tasks, behind the lease; its slots are not modelled, for
\* one row never fills them.
ExpireQueued(w) ==
    /\ Looping(w) /\ Live(w)
    /\ row.state = "QUEUED"
    /\ row.queue_deadline_at = "passed"
    /\ EndAs(row, "EXPIRED")
    /\ UNCHANGED <<lease, worker, jobs>>

Claim(w) ==
    /\ Looping(w) /\ Live(w)
    /\ row.state = "QUEUED"
    /\ row.queue_deadline_at = "ahead"
    /\ row.execution_generation < MaxGeneration
    /\ row' = Claimed(row, w)
    /\ Remember(w, "claimed", Claimed(row, w))
    /\ UNCHANGED <<attempts, lease, jobs>>

\* Shutdown was requested between the claim and the submission.
HandBack(w) ==
    /\ At(w, "claimed") /\ worker[w].phase = "stopping" /\ Live(w)
    /\ row' = IF Exact(worker[w].snapshot) THEN HandedBack(row) ELSE row
    /\ Return(w, worker[w].tracked)
    /\ UNCHANGED <<attempts, lease, jobs>>

\* process_task renews the lease before it submits.
ProcessTask(w) ==
    /\ At(w, "claimed") /\ worker[w].phase = "up" /\ Live(w)
    /\ Goto(w, "reserve")
    /\ UNCHANGED <<row, attempts, lease, jobs>>

\* submit_task_to_ray reserves the deterministic submission ID.  A reservation whose
\* commit raises is handled as a failure, although the ID is on the row.
Reserve(w) ==
    /\ At(w, "reserve")
    /\ IF StillClaimedBy(w, worker[w].snapshot) /\ row.ray_job_id = None
          THEN /\ row' = Tracked(row)
               /\ \/ worker' = [worker EXCEPT
                         ![w].pc = "attach",
                         ![w].tracked = Identity(worker[w].snapshot),
                         ![w].snapshot = Tracked(worker[w].snapshot)]
                  \/ CommitAckLoss /\ Goto(w, "fail")
          ELSE Return(w, worker[w].tracked) /\ UNCHANGED row
    /\ UNCHANGED <<attempts, lease, jobs>>

\* Faulty variant: the request is stored but not bound to the row.
AttachSkipped(w) ==
    /\ At(w, "attach")
    /\ StillClaimedBy(w, worker[w].snapshot)
    /\ Goto(w, "submit")
    /\ UNCHANGED <<row, attempts, lease, jobs>>

\* register_and_attach_ray_job_request binds the stored request to the row.
AttachRequest(w) ==
    /\ At(w, "attach")
    /\ StillClaimedBy(w, worker[w].snapshot)
    /\ row.ray_job_id = Identity(worker[w].snapshot)
    /\ row' = Attached(row)
    /\ \/ Remember(w, "submit", Attached(worker[w].snapshot))
       \/ CommitAckLoss /\ Goto(w, "release")
    /\ UNCHANGED <<attempts, lease, jobs>>

\* Preparation fails, or the row is no longer this exact execution.
PreparationFails(w) ==
    /\ At(w, "attach") \/ At(w, "submit")
    /\ Goto(w, "release")
    /\ UNCHANGED <<row, attempts, lease, jobs>>

\* Faulty variant: an unanswered request is sent again.
SubmitAgain(w) ==
    /\ At(w, "submit")
    /\ \E j \in {"alive", "inflight"} :
          /\ jobs' = [jobs EXCEPT ![Identity(worker[w].snapshot)] = j]
          /\ Goto(w, IF j = "alive" THEN "confirm" ELSE "submit")
    /\ UNCHANGED <<row, attempts, lease>>

\* submit_job: answered, or uncertain (accepted, on its way, or lost).
Submit(w) ==
    /\ At(w, "submit")
    /\ \E j \in {"alive", "inflight"} :
          jobs' = [jobs EXCEPT ![Identity(worker[w].snapshot)] = j]
    /\ Goto(w, "confirm")
    /\ UNCHANGED <<row, attempts, lease>>

\* The confirming compare-and-swap, which may lose or raise.
Confirm(w) ==
    /\ At(w, "confirm")
    /\ \/ /\ StillClaimedBy(w, worker[w].snapshot)
          /\ row.ray_job_id = Identity(worker[w].snapshot)
          /\ row' = Tracked(row)
          /\ Return(w, worker[w].tracked)
       \/ Goto(w, "inspect") /\ UNCHANGED row
    /\ UNCHANGED <<attempts, lease, jobs>>

\* Faulty variant: an execution that was adopted counts as replaced.
DispositionByOwner(w, s) ==
    IF StillClaimedBy(w, s) THEN "owned" ELSE "replaced"

\* _inspect_submission_tracking.
Disposition(w, s) ==
    IF row.ray_job_id # Identity(s) \/ Identity(row) # Identity(s) THEN "replaced"
    ELSE IF row.claimed_by_worker \notin {None, w} THEN "transferred"
    ELSE IF row.state # "RUNNING" THEN "terminal"
    ELSE IF row.claimed_by_worker = w THEN "owned"
    ELSE "transferred"

\* _handle_ray_job_confirmation_loss: only a replaced execution is stopped, and
\* an inspection that raises keeps the tracking.
ConfirmationLoss(w) ==
    /\ At(w, "inspect")
    /\ LET s == worker[w].snapshot
           d == Disposition(w, s)
       IN \/ /\ IF d = "replaced" THEN Stop(Identity(s)) ELSE UNCHANGED jobs
             /\ Return(w, IF d = "owned" THEN worker[w].tracked ELSE None)
          \/ Return(w, worker[w].tracked) /\ UNCHANGED jobs
    /\ UNCHANGED <<row, attempts, lease>>

\* The row still has the reservation and the request that the worker knows of.
Releasable(w) ==
    LET s == worker[w].snapshot
    IN /\ StillClaimedBy(w, s)
       /\ row.ray_job_id = s.ray_job_id
       /\ row.ray_job_request_reference = s.ray_job_request_reference

\* release_ray_job_request_reservation; tracking ends either way.
Release(w) ==
    /\ At(w, "release")
    /\ IF Releasable(w)
         THEN /\ row' = Unreserved(row)
              /\ worker' = [worker EXCEPT ![w].pc = "fail", ![w].tracked = None]
         ELSE Return(w, None) /\ UNCHANGED row
    /\ UNCHANGED <<attempts, lease, jobs>>

\* Nothing catches a release that raises: the command leaves its loop and shuts
\* down, still tracking the execution.
ReleaseRaises(w) ==
    /\ w \notin Reliable
    /\ At(w, "release")
    /\ worker' = [worker EXCEPT ![w].phase = "stopping", ![w].pc = "idle",
                                ![w].snapshot = None]
    /\ \/ UNCHANGED row
       \/ CommitAckLoss /\ Releasable(w) /\ row' = Unreserved(row)
    /\ UNCHANGED <<attempts, lease, jobs>>

\* A failure before the reservation or in its commit, or after its release.
SubmissionFails(w) ==
    /\ At(w, "reserve") \/ At(w, "fail")
    /\ IF StillClaimedBy(w, worker[w].snapshot)
          THEN HandleTaskFailure(TRUE)
          ELSE UNCHANGED <<row, attempts>>
    /\ Return(w, worker[w].tracked)
    /\ UNCHANGED <<lease, jobs>>

-----------------------------------------------------------------------------
(***************************************************************************)
(* Reconciliation (_reconcile_ray_job_task).                               *)
(***************************************************************************)

\* The checks before the first effect: retire tracking of another execution,
\* leave a cancellation to process_cancellations, take an ownerless row.
ReadTracked(w, pc) ==
    /\ Looping(w)
    /\ worker[w].tracked # None
    /\ \/ /\ \/ Identity(row) # worker[w].tracked
             \/ row.claimed_by_worker \notin {w, None}
             \/ row.claimed_by_worker = w /\ row.state \notin InFlight
          /\ Return(w, None)
       \/ /\ Identity(row) = worker[w].tracked
          /\ row.claimed_by_worker = w
          /\ row.state = "RUNNING"
          /\ Remember(w, pc, row)
    /\ UNCHANGED <<row, attempts, lease, jobs>>

\* poll_ray_job_completions: rows with an envelope, without a status RPC.
PollCompletion(w) ==
    /\ row.completion_data # None
    /\ ReadTracked(w, "poll")

\* reconcile_tasks over active_tasks.
ReconcileTracked(w) ==
    /\ Live(w)
    /\ \/ ReadTracked(w, "consume")
       \/ /\ Looping(w)
          /\ Identity(row) = worker[w].tracked
          /\ row.claimed_by_worker = None
          /\ Remember(w, "adopt", row)
          /\ UNCHANGED <<row, attempts, lease, jobs>>

\* consume_valid_completion: the envelope decides, under lease and row fence.
Consume(w) ==
    /\ \E pc \in {"poll", "consume", "decide"} : At(w, pc)
    /\ Live(w)
    /\ worker[w].snapshot.completion_data \in {"success", "failure", "permanent"}
    /\ \/ /\ Exact(worker[w].snapshot)
          /\ row.ray_job_id = worker[w].tracked
          /\ IF row.completion_data = "success"
               THEN EndAs(row, "SUCCEEDED")
               ELSE HandleTaskFailure(row.completion_data = "failure")
          /\ Return(w, None)
       \/ /\ ~Exact(worker[w].snapshot)
          /\ Return(w, worker[w].tracked)
          /\ UNCHANGED <<row, attempts>>
    /\ UNCHANGED <<lease, jobs>>

\* No envelope, or one that was inspected and rejected: ask Ray, if allowed.
ConsumeNothing(w) ==
    /\ At(w, "poll") \/ At(w, "consume")
    /\ worker[w].snapshot.completion_data \in {None, "rejected"}
    /\ worker[w].snapshot.completion_data = "rejected" => Live(w)
    /\ IF \/ worker[w].pc = "poll"
          \/ worker[w].snapshot.completion_data = "rejected" /\ ~Exact(worker[w].snapshot)
         THEN Return(w, worker[w].tracked)
         ELSE Goto(w, "status")
    /\ UNCHANGED <<row, attempts, lease, jobs>>

GetStatus(w) ==
    /\ At(w, "status")
    /\ \E st \in Reported(jobs[worker[w].tracked]) :
          worker' = [worker EXCEPT ![w].pc = "refresh", ![w].status = st]
    /\ UNCHANGED <<row, attempts, lease, jobs>>

\* refresh_from_db after the RPC; never reconcile against a replacement.
Refresh(w) ==
    /\ At(w, "refresh")
    /\ IF /\ row.ray_job_id = worker[w].tracked
          /\ row.claimed_by_worker = w
          /\ Identity(row) = worker[w].tracked
          /\ row.state = "RUNNING"
         THEN Remember(w, "decide", row)
         ELSE Return(w, None)
    /\ UNCHANGED <<row, attempts, lease, jobs>>

\* resolve_stale_untrusted_execution: LOST, then an exact stop, no retry.
LoseAndStop(w) ==
    /\ EndAs(row, "LOST")
    /\ Stop(row.ray_job_id)
    /\ Return(w, None)

\* What status and envelope together say of a refreshed row.
Verdict(w) ==
    LET s == worker[w].snapshot
        st == worker[w].status
    IN IF st = "ENDED"
         THEN IF s.last_heartbeat_at = "stale" THEN "fail" ELSE "wait"
       ELSE IF s.completion_data = "rejected" THEN "lose"
       ELSE IF st = "ALIVE" THEN "monitor"
       ELSE IF Stuck(s) /\ ~TimedOut(s) THEN "lose"
       ELSE "wait"

\* Each verdict is applied behind the exact lease and row fence.
Decide(w) ==
    /\ At(w, "decide") /\ Live(w)
    /\ worker[w].snapshot.completion_data \in {None, "rejected"}
    /\ \/ /\ Verdict(w) = "wait" \/ ~Exact(worker[w].snapshot)
          /\ Return(w, worker[w].tracked)
          /\ UNCHANGED <<row, attempts, jobs>>
       \/ /\ Verdict(w) = "monitor" /\ Exact(worker[w].snapshot)
          /\ row' = Monitored(row)
          /\ Return(w, worker[w].tracked)
          /\ UNCHANGED <<attempts, jobs>>
       \/ /\ Verdict(w) = "fail" /\ Exact(worker[w].snapshot)
          /\ HandleTaskFailure(FALSE)
          /\ Return(w, None)
          /\ UNCHANGED jobs
       \/ /\ Verdict(w) = "lose" /\ Exact(worker[w].snapshot)
          /\ LoseAndStop(w)
    /\ UNCHANGED lease

-----------------------------------------------------------------------------
(***************************************************************************)
(* Recovery of other workers' executions.  Each scan reads a candidate,    *)
(* then acts under the combined lease and row locks.                       *)
(***************************************************************************)

\* Faulty variant: rows handed off without an owner are not scanned.
ReadAbandoned(w) ==
    /\ Looping(w) /\ Live(w)
    /\ worker[w].tracked = None
    /\ row.state = "RUNNING"
    /\ row.ray_job_id # None
    /\ row.claimed_by_worker \notin {w, None}
    /\ MayTakeFrom(w, row.claimed_by_worker)
    /\ Remember(w, "adopt", row)
    /\ UNCHANGED <<row, attempts, lease, jobs>>

\* reconcile_tasks: a running Ray Job whose owner is not an active worker.
ReadOrphan(w) ==
    /\ Looping(w) /\ Live(w)
    /\ worker[w].tracked = None
    /\ row.state = "RUNNING"
    /\ row.ray_job_id # None
    /\ row.claimed_by_worker # w
    /\ MayTakeFrom(w, row.claimed_by_worker)
    /\ Remember(w, "adopt", row)
    /\ UNCHANGED <<row, attempts, lease, jobs>>

\* The takeover transaction: allowed, and the row is what was read.
TakesOver(w) ==
    /\ MayTakeFrom(w, worker[w].snapshot.claimed_by_worker)
    /\ Exact(worker[w].snapshot)

\* _adopt_orphaned_ray_job_task, then reconciliation of the adopted row.
AdoptOrphan(w) ==
    /\ At(w, "adopt") /\ Live(w)
    /\ IF TakesOver(w) /\ row.state = "RUNNING"
         THEN /\ row' = Adopted(row, w)
              /\ worker' = [worker EXCEPT ![w].pc = "consume",
                     ![w].tracked = row.ray_job_id, ![w].snapshot = Adopted(row, w)]
         ELSE Return(w, None) /\ UNCHANGED row
    /\ UNCHANGED <<attempts, lease, jobs>>

\* Faulty variant: a persisted Ray Job ID does not keep a row from LOST recovery.
ReadAnyStuck(w) ==
    /\ Looping(w) /\ Live(w)
    /\ Stuck(row)
    /\ row.completion_data = None
    /\ MayTakeFrom(w, row.claimed_by_worker)
    /\ Remember(w, "lost", row)
    /\ UNCHANGED <<row, attempts, lease, jobs>>

\* detect_stuck_tasks leaves pending envelopes and live owners alone; a
\* persisted Ray Job ID is never lost by this generic path.
ReadStuck(w) ==
    /\ Looping(w) /\ Live(w)
    /\ row.state = "RUNNING"
    /\ row.completion_data = None
    /\ MayTakeFrom(w, row.claimed_by_worker)
    /\ \/ TimedOut(row) /\ Remember(w, "overtime", row)
       \/ /\ Stuck(row) /\ ~TimedOut(row)
          /\ row.ray_job_id = None
          /\ Remember(w, "lost", row)
    /\ UNCHANGED <<row, attempts, lease, jobs>>

\* The stop, the failure and its archive under one lock; never a retry.
TimeOut(w) ==
    /\ At(w, "overtime") /\ Live(w)
    /\ IF TakesOver(w) /\ TimedOut(row)
         THEN /\ Stop(row.ray_job_id)
              /\ EndAs(Adopted(row, w), "FAILED")
              /\ Return(w, None)
         ELSE /\ Return(w, worker[w].tracked)
              /\ UNCHANGED <<row, attempts, jobs>>
    /\ UNCHANGED lease

\* mark_task_lost and, within the retry policy, retry_task in the same
\* transaction.
RecoverLost(w) ==
    /\ At(w, "lost") /\ Live(w)
    /\ \/ /\ TakesOver(w) /\ Stuck(row)
          /\ \/ EndAs(Adopted(row, w), "LOST")
             \/ /\ WithinAttempts(row)
                /\ row.execution_generation < MaxGeneration
                /\ row' = RequeuedByRetry(row)
                /\ attempts' = Archived(attempts, row, "LOST")
       \/ /\ ~(TakesOver(w) /\ Stuck(row))
          /\ UNCHANGED <<row, attempts>>
    /\ Return(w, worker[w].tracked)
    /\ UNCHANGED <<lease, jobs>>

\* process_cancellations.
ReadCancelling(w) ==
    /\ Looping(w) /\ Live(w)
    /\ row.state = "CANCELLING"
    /\ Remember(w, "cancel", row)
    /\ UNCHANGED <<row, attempts, lease, jobs>>

FinishCancellation(w) ==
    /\ At(w, "cancel") /\ Live(w)
    /\ IF TakesOver(w)
         THEN /\ Stop(row.ray_job_id)
              /\ EndAs(Adopted(row, w), "CANCELLED")
              /\ Return(w, None)
         ELSE /\ Return(w, worker[w].tracked)
              /\ UNCHANGED <<row, attempts, jobs>>
    /\ UNCHANGED lease

\* The stop is sent inside the transaction that ends the execution: a process
\* that dies between the two leaves a stopped job and an unchanged row.
EndsWithStop(w) ==
    \/ At(w, "overtime") /\ TakesOver(w) /\ TimedOut(row)
    \/ At(w, "cancel") /\ TakesOver(w)
    \/ At(w, "decide") /\ Verdict(w) = "lose" /\ Exact(worker[w].snapshot)

CrashAfterStop(w) ==
    /\ w \notin Reliable
    /\ EndsWithStop(w) /\ Live(w)
    /\ Stop(row.ray_job_id)
    /\ worker' = [worker EXCEPT ![w] = [Unstarted EXCEPT !.phase = "down"]]
    /\ UNCHANGED <<row, attempts, lease>>

-----------------------------------------------------------------------------
(***************************************************************************)
(* The remote job and its entrypoint.                                      *)
(***************************************************************************)
Move(i, from, to) ==
    /\ jobs[i] \in from
    /\ jobs' = [jobs EXCEPT ![i] = to]

\* Ray accepts a request whose answer was lost.
JobArrives(i) ==
    /\ Move(i, {"inflight"}, "alive")
    /\ UNCHANGED <<row, attempts, lease, worker>>

\* Faulty variant: the envelope is written by primary key and state only.
JobPublishesByKey(i) ==
    /\ Move(i, {"alive", "stopping"}, "exiting")
    /\ \/ \E e \in Envelope : row.state = "RUNNING" /\ row' = Published(row, e)
       \/ UNCHANGED row
    /\ UNCHANGED <<attempts, lease, worker>>

\* execute_task ends and _persist_task_completion writes under the execution
\* identity; the write may be refused, or fail and only be logged.
JobPublishes(i) ==
    /\ Move(i, {"alive", "stopping"}, "exiting")
    /\ \/ \E e \in Envelope :
             /\ row.state = "RUNNING"
             /\ Identity(row) = i
             /\ row' = Published(row, e)
       \/ UNCHANGED row
    /\ UNCHANGED <<attempts, lease, worker>>

\* main returns, the driver is killed or dies, or the stop takes effect.
JobEnds(i) ==
    /\ Move(i, {"alive", "stopping", "exiting"}, "ended")
    /\ UNCHANGED <<row, attempts, lease, worker>>

-----------------------------------------------------------------------------
(***************************************************************************)
(* Administrators, and time.  Both touch only the durable row.             *)
(***************************************************************************)
RequestCancellation ==
    Lifecycle!RequestCancellation /\ UNCHANGED <<lease, worker, jobs>>

Retry == Lifecycle!Retry /\ UNCHANGED <<lease, worker, jobs>>

HeartbeatAges == Lifecycle!HeartbeatAges /\ UNCHANGED <<lease, worker, jobs>>

DeadlinePasses == Lifecycle!DeadlinePasses /\ UNCHANGED <<lease, worker, jobs>>

RunsOvertime ==
    Timeouts /\ Lifecycle!RunsOvertime /\ UNCHANGED <<lease, worker, jobs>>

-----------------------------------------------------------------------------
\* What a worker does next when it is not at the head of its loop.
Proceed(w) ==
    \/ LoseLease(w) \/ ReadHandoff(w) \/ Handoff(w) \/ Stopped(w)
    \/ HandBack(w) \/ ProcessTask(w) \/ Reserve(w) \/ AttachRequest(w)
    \/ PreparationFails(w) \/ Submit(w) \/ Confirm(w) \/ ConfirmationLoss(w)
    \/ Release(w) \/ SubmissionFails(w) \/ Consume(w) \/ ConsumeNothing(w)
    \/ GetStatus(w) \/ Refresh(w) \/ Decide(w) \/ AdoptOrphan(w) \/ TimeOut(w)
    \/ RecoverLost(w) \/ FinishCancellation(w)

\* The phases of run_loop.
Loop(w) ==
    \/ ExpireQueued(w) \/ Claim(w) \/ PollCompletion(w)
    \/ ReconcileTracked(w) \/ ReadOrphan(w) \/ ReadStuck(w) \/ ReadCancelling(w)

Fault(w) ==
    Crash(w) \/ CrashAfterStop(w) \/ LeaseAges(w) \/ Signal(w) \/ ReleaseRaises(w)

Job(i) == JobArrives(i) \/ JobPublishes(i) \/ JobEnds(i)

Next ==
    \/ \E w \in Workers : Boot(w) \/ Proceed(w) \/ Loop(w) \/ Fault(w)
    \/ \E i \in Identities : Job(i)
    \/ RequestCancellation \/ Retry
    \/ HeartbeatAges \/ DeadlinePasses \/ RunsOvertime

Spec == Init /\ [][Next]_vars

(***************************************************************************)
(* Fairness.  Every process continues what it began, unless it crashes; a  *)
(* reliable worker runs every phase of run_loop again and again, so a      *)
(* phase that keeps finding work takes it; a heartbeat that nobody renews  *)
(* gets old, an unreliable worker's lease runs out, and every accepted job *)
(* ends.  Nothing forces a task timeout.                                   *)
(***************************************************************************)
Fairness ==
    /\ \A w \in Workers : WF_vars(Proceed(w)) /\ WF_vars(LeaseAges(w))
    /\ \A w \in Reliable :
          /\ WF_vars(Boot(w))
          /\ SF_vars(ReconcileTracked(w)) /\ SF_vars(ReadOrphan(w))
          /\ SF_vars(ReadStuck(w)) /\ SF_vars(ReadCancelling(w))
    /\ \A i \in Identities : WF_vars(JobPublishes(i) \/ JobEnds(i))
    /\ WF_vars(HeartbeatAges)

FairSpec == Spec /\ Fairness

-----------------------------------------------------------------------------
(***************************************************************************)
(* Properties.                                                             *)
(***************************************************************************)

\* Every interleaving of stale snapshots, takeovers, lost answers and crashes
\* leaves the durable row inside the lifecycle: each step of a process is one
\* transition of TaskLifecycle or leaves row and history alone.
ImplementsLifecycle == Lifecycle!Spec

\* A worker between its reservation and its request may still start the task.
AboutToSubmit(i) ==
    \E w \in Workers :
        /\ \E pc \in {"attach", "submit"} : At(w, pc)
        /\ Identity(worker[w].snapshot) = i

\* No automatic path (failure policy, LOST recovery, return of an unsubmitted
\* claim) queues an execution again while task code of the claim it gives up
\* runs or can still start: "generic LOST retry must never launch a
\* replacement while that job may still run" (detect_stuck_tasks).
AutomaticRetryNeverOverlaps ==
    [][row.state = "RUNNING" /\ row'.state = "QUEUED" =>
          ~MayExecute(Identity(row)) /\ ~AboutToSubmit(Identity(row))]_vars

\* A submission identity is requested at most once, by whoever requests it:
\* what a worker is about to submit, Ray has never been asked for.
SubmitsOnce ==
    \A w \in Workers :
        At(w, "submit") => jobs[Identity(worker[w].snapshot)] = "none"

\* Ray knows no job of the current execution whose request is not bound to
\* the row, so strict binding never rejects a genuine job.
RunningJobIsBound ==
    row.state \in InFlight /\ jobs[Identity(row)] # "none" =>
        /\ row.ray_job_id = Identity(row)
        /\ row.ray_job_request_reference = Identity(row)

\* An envelope on a running execution was published by the job of exactly that
\* execution, whose task code has ended: a job that outlived a manual retry of
\* its execution never decides the new one.
EnvelopeIsOwn ==
    row.state = "RUNNING" /\ row.completion_data # None =>
        jobs[Identity(row)] \in {"exiting", "ended"}

\* Only a worker with a live lease, entitled to the row at that moment, stops
\* the job of the current running execution: a stalled submitter never stops
\* what its adopter now monitors.
StopsOnlyWithAuthority ==
    [][\A i \in Identities :
          /\ jobs[i] # "stopping" /\ jobs'[i] = "stopping"
          /\ row.state = "RUNNING" /\ Identity(row) = i
          => \E w \in Workers :
                /\ worker'[w] # worker[w]
                /\ Live(w) /\ MayTakeFrom(w, row.claimed_by_worker)]_vars

\* Two live workers never monitor the same running execution: whoever tracks
\* it with a live lease is its owner, or it has none.
TrackingExclusive ==
    \A w \in Workers :
        /\ Live(w) /\ At(w, worker[w].pc)
        /\ row.state = "RUNNING" /\ worker[w].tracked = Identity(row)
        => row.claimed_by_worker \in {w, None}

\* An execution changes hands only when its owner is not live.
OwnerChangesOnlyFromDead ==
    [][\A v \in Workers :
          /\ row.claimed_by_worker = v /\ row.state \in InFlight
          /\ row'.claimed_by_worker \in Workers \ {v}
          => ~Live(v)]_vars

\* "Definite pre-request failures release the reservation" (docs/architecture.md):
\* a worker that still holds the claim and gives it up before it asked Ray leaves no
\* submission ID on the row.  Not so when the answer to the binding of the request
\* was lost: the release then compares the row with a copy that has no request,
\* declines, and the row keeps its ID without a job and without a monitor.
PreRequestFailureReleases ==
    [][\A w \in Workers :
          /\ At(w, "release") /\ worker'[w].tracked = None
          /\ worker'[w].phase = worker[w].phase /\ worker'[w].pc # "release"
          /\ StillClaimedBy(w, worker[w].snapshot)
          => row'.ray_job_id = None]_vars

\* With one reliable worker every claimed execution is eventually resolved:
\* it is terminal or queued again, whoever crashed, stalled or lost an answer.
InFlightResolved == row.state \in InFlight ~> row.state \notin InFlight
=============================================================================
