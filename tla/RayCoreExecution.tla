--------------------------- MODULE RayCoreExecution ---------------------------
(***************************************************************************)
(* One durable task execution run as a Ray Core remote function.  The      *)
(* worker that submits it is its Ray driver: the object reference lives in *)
(* the worker's memory (RayCoreRunner._pending_tasks) and nobody else can  *)
(* poll or cancel the task.  Connections to Ray break and are set up       *)
(* again, workers stall past their lease, stop or die, and whatever is     *)
(* left on the row is recovered by LOST detection.                         *)
(*                                                                         *)
(* A worker's step is one database transaction or one call into Ray.  A    *)
(* cancellation only forgets the handle here: whether ray.cancel is        *)
(* delivered, refused, late or not attempted because the single            *)
(* cancellation slot is taken, the task may return, die or run on, as it   *)
(* may anyway.                                                             *)
(***************************************************************************)
EXTENDS TaskExecutionRow

CONSTANTS
    Reliable,         \* workers that neither stall past their lease nor stop
    Timeouts,         \* whether the task has timeout_seconds
    Activity,         \* whether the task code publishes workflow activity
    Errors            \* whether the database or the result store raises

ASSUME ReliableAreWorkers == Reliable \subseteq Workers
ASSUME TimeoutsType == Timeouts \in BOOLEAN
ASSUME ActivityType == Activity \in BOOLEAN
ASSUME ErrorsType == Errors \in BOOLEAN

VARIABLES
    row,        \* the RayTaskExecution row
    attempts,   \* its TaskAttempt history
    lease,      \* TaskWorkerLease of each worker
    worker,     \* the worker processes
    tasks       \* the remote task of every submitted identity

vars == <<row, attempts, lease, worker, tasks>>

\* The history of the row means what it means for Ray Jobs.
Lifecycle == INSTANCE TaskLifecycle WITH row <- row, attempts <- attempts

-----------------------------------------------------------------------------
(***************************************************************************)
(* Leases, as in RayJobExecution.                                          *)
(***************************************************************************)
Live(w) == lease[w] = "live"

MayTakeFrom(w, owner) == owner \in {w, None} \/ (owner \in Workers /\ ~Live(owner))

(***************************************************************************)
(* Remote tasks.  ray.get returns a success, a failure that may be retried *)
(* or a permanent one (a rejected envelope included), or raises: the task  *)
(* is "gone" without an answer, and its code may still be running.         *)
(***************************************************************************)
Answer == {"success", "failure", "permanent", "gone"}
TaskStatus == {"none", "alive"} \cup Answer

MayExecute(i) == tasks[i] \in {"alive", "gone"}

(***************************************************************************)
(* Workers.  handle is the pending handle of this row, by its execution    *)
(* identity; moved says that last_heartbeat_at has been written since the  *)
(* snapshot was taken, reply is the last polled answer with its identity.  *)
(***************************************************************************)
Worker ==
    [ phase : {"new", "up", "stopping", "down"},
      pc : {"idle", "claimed", "submit", "track", "fail", "wait", "reply",
            "apply", "finalize", "lost", "terminalize", "overtime", "stuck",
            "cancel", "handoff"},
      connected : BOOLEAN,
      handle : Identities \cup {None},
      snapshot : Row \cup {None},
      moved : BOOLEAN,
      reply : (Identities \X Answer) \cup {None} ]

TypeOK ==
    /\ row \in Row
    /\ attempts \in [Attempts -> Terminal \cup {None}]
    /\ lease \in [Workers -> {"none", "live", "dead"}]
    /\ worker \in [Workers -> Worker]
    /\ tasks \in [Identities -> TaskStatus]

Unstarted ==
    [ phase |-> "new", pc |-> "idle", connected |-> FALSE, handle |-> None,
      snapshot |-> None, moved |-> FALSE, reply |-> None ]

Init ==
    /\ row = Enqueued
    /\ attempts = [n \in Attempts |-> None]
    /\ lease = [w \in Workers |-> "none"]
    /\ worker = [w \in Workers |-> Unstarted]
    /\ tasks = [i \in Identities |-> "none"]

At(w, pc) == worker[w].phase \in {"up", "stopping"} /\ worker[w].pc = pc

\* The loop starts a new phase only while no shutdown was requested.
Looping(w) == worker[w].phase = "up" /\ worker[w].pc = "idle"

Goto(w, pc) == worker' = [worker EXCEPT ![w].pc = pc]

Remember(w, pc) ==
    worker' = [worker EXCEPT ![w].pc = pc, ![w].snapshot = row, ![w].moved = FALSE]

\* Back to the loop, keeping handle h.
Return(w, h) ==
    worker' = [worker EXCEPT ![w].pc = "idle", ![w].handle = h,
                              ![w].snapshot = None, ![w].moved = FALSE]

\* Whoever took a snapshot will see that the heartbeat moved.
Moved(ws) ==
    [v \in Workers |->
        IF ws[v].snapshot # None THEN [ws[v] EXCEPT !.moved = TRUE] ELSE ws[v]]

\* The row fence of _authoritative_task_owner.
Exact(w) ==
    LET s == worker[w].snapshot IN
    /\ row.state = s.state
    /\ Identity(row) = Identity(s)
    /\ row.ray_job_id = s.ray_job_id
    /\ row.claimed_by_worker = s.claimed_by_worker
    /\ ~worker[w].moved

\* The same without takeover, and with it.
OwnsExactly(w) == worker[w].snapshot.claimed_by_worker = w /\ Exact(w)
TakesOver(w) == MayTakeFrom(w, worker[w].snapshot.claimed_by_worker) /\ Exact(w)

\* The owner and identity fence of record_failure and of the tracking update.
StillClaimedBy(w) ==
    /\ row.state = "RUNNING"
    /\ Identity(row) = Identity(worker[w].snapshot)
    /\ row.claimed_by_worker = w

\* _partition_ray_core_handles: what makes a pending handle eligible.
Eligible(w) ==
    /\ row.claimed_by_worker = w
    /\ row.state \in InFlight
    /\ Identity(row) = worker[w].handle

EndAs(r, s) ==
    /\ row' = Finished(r, s)
    /\ attempts' = Archived(attempts, r, s)

\* _handle_task_failure: should_retry, then record_failure.
HandleTaskFailure(retryable) ==
    \/ EndAs(row, "FAILED")
    \/ /\ retryable /\ WithinAttempts(row)
       /\ row' = RequeuedByPolicy(row)
       /\ attempts' = Archived(attempts, row, "FAILED")

\* The pending handle after cancel_pending_with_status for identity i: the
\* exact handle is retired whatever the outcome, another one is not touched.
ForgottenBy(w, i) == IF worker[w].handle = i THEN None ELSE worker[w].handle

-----------------------------------------------------------------------------
(***************************************************************************)
(* Process life and the connection to Ray.                                 *)
(***************************************************************************)

\* _create_lease under a fresh ID; the connection may fail at startup.
Boot(w) ==
    /\ worker[w].phase = "new"
    /\ \E c \in BOOLEAN :
          worker' = [worker EXCEPT ![w].phase = "up", ![w].connected = c]
    /\ lease' = [lease EXCEPT ![w] = "live"]
    /\ UNCHANGED <<row, attempts, tasks>>

Crash(w) ==
    /\ w \notin Reliable
    /\ worker[w].phase \in {"up", "stopping"}
    /\ worker' = [worker EXCEPT ![w] = [Unstarted EXCEPT !.phase = "down"]]
    /\ UNCHANGED <<row, attempts, lease, tasks>>

LeaseAges(w) ==
    /\ w \notin Reliable
    /\ Live(w)
    /\ lease' = [lease EXCEPT ![w] = "dead"]
    /\ UNCHANGED <<row, attempts, worker, tasks>>

LeaseFenced ==
    {"idle", "claimed", "apply", "finalize", "lost", "terminalize", "overtime",
     "stuck", "cancel", "handoff"}

\* _request_shutdown_for_lease_loss: nothing is handed off or cancelled.
LoseLease(w) ==
    /\ \E pc \in LeaseFenced : At(w, pc)
    /\ ~Live(w)
    /\ worker' = [worker EXCEPT ![w] = [Unstarted EXCEPT !.phase = "down"]]
    /\ lease' = [lease EXCEPT ![w] = "dead"]
    /\ UNCHANGED <<row, attempts, tasks>>

Signal(w) ==
    /\ w \notin Reliable
    /\ worker[w].phase = "up"
    /\ worker' = [worker EXCEPT ![w].phase = "stopping"]
    /\ UNCHANGED <<row, attempts, lease, tasks>>

\* _prepare_shutdown_handoff: the task cannot be handed over, only cancelled.
ReadHandoff(w) ==
    /\ worker[w].phase = "stopping" /\ worker[w].pc = "idle"
    /\ worker[w].handle # None
    /\ IF row.state = "RUNNING" /\ Identity(row) = worker[w].handle
         THEN Remember(w, "handoff")
         ELSE Return(w, None)
    /\ UNCHANGED <<row, attempts, lease, tasks>>

Handoff(w) ==
    /\ At(w, "handoff") /\ Live(w)
    /\ row' = IF OwnsExactly(w) THEN [row EXCEPT !.state = "CANCELLING"] ELSE row
    /\ Return(w, None)
    /\ UNCHANGED <<attempts, lease, tasks>>

Stopped(w) ==
    /\ worker[w].phase = "stopping" /\ worker[w].pc = "idle"
    /\ worker[w].handle = None
    /\ worker' = [worker EXCEPT ![w].phase = "down", ![w].connected = FALSE]
    /\ lease' = [lease EXCEPT ![w] = "dead"]
    /\ UNCHANGED <<row, attempts, tasks>>

\* Ray is no longer initialized.
Disconnect(w) ==
    /\ worker[w].phase = "up" /\ worker[w].connected
    /\ worker' = [worker EXCEPT ![w].connected = FALSE]
    /\ UNCHANGED <<row, attempts, lease, tasks>>

\* _check_ray_connection finds the connection broken, or slow: _reconnect_ray
\* closes it and gives up the pending handle first ...
BeginReconnect(w) ==
    /\ Looping(w) /\ Live(w)
    /\ worker' = [worker EXCEPT ![w].connected = FALSE,
                      ![w].pc = IF worker[w].handle = None THEN "idle" ELSE "lost"]
    /\ UNCHANGED <<row, attempts, lease, tasks>>

\* ... and later succeeds with a new runner.
Reconnect(w) ==
    /\ Looping(w) /\ Live(w)
    /\ ~worker[w].connected /\ worker[w].handle = None
    /\ worker' = [worker EXCEPT ![w].connected = TRUE]
    /\ UNCHANGED <<row, attempts, lease, tasks>>

-----------------------------------------------------------------------------
(***************************************************************************)
(* Claim and submission.                                                   *)
(***************************************************************************)
ExpireQueued(w) ==
    /\ Looping(w) /\ Live(w)
    /\ row.state = "QUEUED" /\ row.queue_deadline_at = "passed"
    /\ EndAs(row, "EXPIRED")
    /\ UNCHANGED <<lease, worker, tasks>>

\* claim_and_process_tasks pauses while Ray is not initialized.
Claim(w) ==
    /\ Looping(w) /\ Live(w) /\ worker[w].connected
    /\ row.state = "QUEUED" /\ row.queue_deadline_at = "ahead"
    /\ row.execution_generation < MaxGeneration
    /\ row' = Claimed(row, w)
    /\ worker' = [worker EXCEPT ![w].pc = "claimed",
                      ![w].snapshot = Claimed(row, w), ![w].moved = FALSE]
    /\ UNCHANGED <<attempts, lease, tasks>>

\* Shutdown, or a disconnect in the middle of a batch, before the submission.
HandBack(w) ==
    /\ At(w, "claimed") /\ Live(w)
    /\ worker[w].phase = "stopping" \/ ~worker[w].connected
    /\ row' = IF Exact(w) THEN HandedBack(row) ELSE row
    /\ Return(w, worker[w].handle)
    /\ UNCHANGED <<attempts, lease, tasks>>

\* process_task renews the lease before it submits.
ProcessTask(w) ==
    /\ At(w, "claimed") /\ Live(w) /\ worker[w].phase = "up"
    /\ Goto(w, "submit")
    /\ UNCHANGED <<row, attempts, lease, tasks>>

\* submit_task_to_ray_core connects first if it must, and no handle outlives the
\* old runner; submit_durable refuses a row that has a pending handle.
Submit(w) ==
    /\ At(w, "submit")
    /\ worker[w].connected => worker[w].handle = None
    /\ LET i == Identity(worker[w].snapshot) IN
       /\ tasks' = [tasks EXCEPT ![i] = "alive"]
       /\ worker' = [worker EXCEPT ![w].pc = "track", ![w].connected = TRUE,
                                   ![w].handle = i]
    /\ UNCHANGED <<row, attempts, lease>>

\* Ray is not available, the submission raises, or it was refused.
SubmissionFails(w) ==
    /\ At(w, "submit")
    /\ IF StillClaimedBy(w)
         THEN \E retryable \in BOOLEAN : HandleTaskFailure(retryable)
         ELSE UNCHANGED <<row, attempts>>
    /\ Return(w, worker[w].handle)
    /\ UNCHANGED <<lease, tasks>>

\* _persist_submission_tracking: attached, refused (the submission is then
\* cancelled), or raised.
Track(w) ==
    /\ At(w, "track")
    /\ \/ /\ StillClaimedBy(w) /\ row.ray_job_id = None
          /\ row' = Tracked(row)
          /\ Return(w, worker[w].handle)
       \/ /\ ~(StillClaimedBy(w) /\ row.ray_job_id = None)
          /\ Return(w, ForgottenBy(w, Identity(worker[w].snapshot)))
          /\ UNCHANGED row
       \/ /\ worker' = [worker EXCEPT ![w].pc = "fail",
                  ![w].handle = ForgottenBy(w, Identity(worker[w].snapshot))]
          /\ UNCHANGED row
    /\ UNCHANGED <<attempts, lease, tasks>>

\* The failure after a raised tracking update is never retried.
TrackingFails(w) ==
    /\ At(w, "fail")
    /\ IF StillClaimedBy(w) THEN HandleTaskFailure(FALSE) ELSE UNCHANGED <<row, attempts>>
    /\ Return(w, worker[w].handle)
    /\ UNCHANGED <<lease, tasks>>

-----------------------------------------------------------------------------
(***************************************************************************)
(* poll_ray_core_tasks.                                                    *)
(***************************************************************************)

\* The partition transaction, with its monitor heartbeat when one is due.
Partition(w) ==
    /\ Looping(w) /\ Live(w)
    /\ worker[w].handle # None
    /\ \/ /\ Eligible(w)
          /\ Goto(w, "wait")
          /\ UNCHANGED row
       \/ /\ Eligible(w) /\ row.state = "RUNNING"
          /\ row' = Monitored(row)
          /\ worker' = Moved([worker EXCEPT ![w].pc = "wait"])
       \/ ~Eligible(w) /\ Return(w, None) /\ UNCHANGED row
    /\ UNCHANGED <<attempts, lease, tasks>>

\* Faulty variant: a polled handle stays pending.
WaitKeepingHandle(w) ==
    /\ At(w, "wait")
    /\ LET i == worker[w].handle IN
       \/ ~worker[w].connected /\ Goto(w, "lost")
       \/ Return(w, i)
       \/ /\ worker[w].connected /\ tasks[i] \in Answer
          /\ worker' = [worker EXCEPT ![w].pc = "reply", ![w].reply = <<i, tasks[i]>>]
    /\ UNCHANGED <<row, attempts, lease, tasks>>

\* ray.wait and ray.get.  A ready handle is retired before its answer is
\* applied; an error of ray.wait keeps it.
Wait(w) ==
    /\ At(w, "wait")
    /\ LET i == worker[w].handle IN
       \/ ~worker[w].connected /\ Goto(w, "lost")
       \/ Return(w, i)
       \/ /\ worker[w].connected /\ tasks[i] \in Answer
          /\ worker' = [worker EXCEPT ![w].pc = "reply", ![w].handle = None,
                                      ![w].reply = <<i, tasks[i]>>]
    /\ UNCHANGED <<row, attempts, lease, tasks>>

\* The row is read again; an answer of another execution is ignored.
ReadReplied(w) ==
    /\ At(w, "reply")
    /\ IF Identity(row) = worker[w].reply[1] /\ row.state \in InFlight
         THEN Remember(w, IF row.state = "RUNNING" THEN "apply" ELSE "finalize")
         ELSE Return(w, worker[w].handle)
    /\ UNCHANGED <<row, attempts, lease, tasks>>

\* Faulty variant: the answer is applied to whatever state its execution is in.
ApplyToIdentity(w) ==
    /\ At(w, "apply") /\ Live(w)
    /\ IF row.state \in InFlight /\ Identity(row) = worker[w].reply[1]
         THEN \E s \in {"SUCCEEDED", "FAILED"} : EndAs(row, s)
         ELSE UNCHANGED <<row, attempts>>
    /\ Return(w, worker[w].handle)
    /\ UNCHANGED <<lease, tasks>>

\* The answer decides under lease and row fence; without an answer the failure
\* is permanent.  A row that has changed may have been cancelled.
Apply(w) ==
    /\ At(w, "apply") /\ Live(w)
    /\ IF OwnsExactly(w)
         THEN /\ IF worker[w].reply[2] = "success"
                   THEN EndAs(row, "SUCCEEDED")
                   ELSE HandleTaskFailure(worker[w].reply[2] = "failure")
              /\ Return(w, worker[w].handle)
         ELSE Goto(w, "finalize") /\ UNCHANGED <<row, attempts>>
    /\ UNCHANGED <<lease, tasks>>

\* _finalize_ray_core_cancellation; otherwise the answer is dropped.
Finalize(w) ==
    /\ At(w, "finalize") /\ Live(w)
    /\ IF /\ row.state = "CANCELLING" /\ row.claimed_by_worker = w
          /\ Identity(row) = worker[w].reply[1]
         THEN EndAs(row, "CANCELLED")
         ELSE UNCHANGED <<row, attempts>>
    /\ Return(w, worker[w].handle)
    /\ UNCHANGED <<lease, tasks>>

\* "Error processing task result": the loop over the answers goes on.
DropAnswer(w) ==
    /\ Errors
    /\ At(w, "reply") \/ At(w, "apply") \/ At(w, "finalize")
    /\ Return(w, worker[w].handle)
    /\ UNCHANGED <<row, attempts, lease, tasks>>

\* _terminalize_lost_ray_core_handles: the connection is gone, so is the handle.
ReadLost(w) ==
    /\ At(w, "lost") /\ Live(w)
    /\ IF Eligible(w) /\ row.state = "RUNNING"
         THEN Remember(w, "terminalize")
         ELSE Return(w, None)
    /\ UNCHANGED <<row, attempts, lease, tasks>>

Terminalize(w) ==
    /\ At(w, "terminalize") /\ Live(w)
    /\ IF OwnsExactly(w) THEN HandleTaskFailure(TRUE) ELSE UNCHANGED <<row, attempts>>
    /\ Return(w, None)
    /\ UNCHANGED <<lease, tasks>>

-----------------------------------------------------------------------------
(***************************************************************************)
(* Recovery and cancellation, of one's own rows and of dead owners'.       *)
(***************************************************************************)

\* Faulty variant: a pending handle does not keep a row from LOST recovery.
ReadAnyStuck(w) ==
    /\ Looping(w) /\ Live(w)
    /\ Stuck(row)
    /\ MayTakeFrom(w, row.claimed_by_worker)
    /\ Remember(w, "stuck")
    /\ UNCHANGED <<row, attempts, lease, tasks>>

\* Faulty variant: a worker never looks for its own stuck rows.
ReadForeignStuck(w) ==
    /\ Looping(w) /\ Live(w)
    /\ Stuck(row)
    /\ row.claimed_by_worker # w /\ MayTakeFrom(w, row.claimed_by_worker)
    /\ Remember(w, "stuck")
    /\ UNCHANGED <<row, attempts, lease, tasks>>

\* detect_stuck_tasks: an exact local handle is stronger than the heartbeat.
ReadStuck(w) ==
    /\ Looping(w) /\ Live(w)
    /\ row.state = "RUNNING"
    /\ MayTakeFrom(w, row.claimed_by_worker)
    /\ \/ TimedOut(row) /\ Remember(w, "overtime")
       \/ /\ Stuck(row) /\ ~TimedOut(row)
          /\ ~(row.claimed_by_worker = w /\ worker[w].handle = Identity(row))
          /\ Remember(w, "stuck")
    /\ UNCHANGED <<row, attempts, lease, tasks>>

TimeOut(w) ==
    /\ At(w, "overtime") /\ Live(w)
    /\ IF TakesOver(w)
         THEN /\ EndAs(Adopted(row, w), "FAILED")
              /\ Return(w, ForgottenBy(w, Identity(row)))
         ELSE Return(w, worker[w].handle) /\ UNCHANGED <<row, attempts>>
    /\ UNCHANGED <<lease, tasks>>

\* mark_task_lost and, within the budget, retry_task in one transaction.
RecoverLost(w) ==
    /\ At(w, "stuck") /\ Live(w)
    /\ \/ /\ TakesOver(w)
          /\ \/ EndAs(Adopted(row, w), "LOST")
             \/ /\ WithinAttempts(row)
                /\ row.execution_generation < MaxGeneration
                /\ row' = RequeuedByRetry(row)
                /\ attempts' = Archived(attempts, row, "LOST")
       \/ ~TakesOver(w) /\ UNCHANGED <<row, attempts>>
    /\ Return(w, worker[w].handle)
    /\ UNCHANGED <<lease, tasks>>

\* process_cancellations.
ReadCancelling(w) ==
    /\ Looping(w) /\ Live(w)
    /\ row.state = "CANCELLING"
    /\ Remember(w, "cancel")
    /\ UNCHANGED <<row, attempts, lease, tasks>>

FinishCancellation(w) ==
    /\ At(w, "cancel") /\ Live(w)
    /\ IF TakesOver(w)
         THEN /\ EndAs(Adopted(row, w), "CANCELLED")
              /\ Return(w, ForgottenBy(w, Identity(row)))
         ELSE Return(w, worker[w].handle) /\ UNCHANGED <<row, attempts>>
    /\ UNCHANGED <<lease, tasks>>

\* What raises elsewhere ends run_loop: its transaction is rolled back, a
\* cancellation it made is not, and handle() goes on to shut down.
LoopFails(w) ==
    /\ Errors /\ w \notin Reliable
    /\ \E pc \in {"claimed", "submit", "fail", "lost", "terminalize", "overtime",
                  "stuck", "cancel", "handoff"} : At(w, pc)
    /\ \E h \in CASE At(w, "handoff") -> {None}
                 [] At(w, "overtime") \/ At(w, "cancel") ->
                       {worker[w].handle, ForgottenBy(w, Identity(row))}
                 [] OTHER -> {worker[w].handle} :
          worker' = [worker EXCEPT ![w].phase = "stopping", ![w].pc = "idle",
                         ![w].handle = h, ![w].snapshot = None, ![w].moved = FALSE]
    /\ UNCHANGED <<row, attempts, lease, tasks>>

-----------------------------------------------------------------------------
(***************************************************************************)
(* The remote task, administrators and time.                               *)
(***************************************************************************)
TaskReturns(i) ==
    /\ tasks[i] = "alive"
    /\ \E a \in Answer : tasks' = [tasks EXCEPT ![i] = a]
    /\ UNCHANGED <<row, attempts, lease, worker>>

\* Workflow progress of running task code renews the row's heartbeat.
PublishActivity(i) ==
    /\ Activity /\ MayExecute(i)
    /\ row.state = "RUNNING" /\ Identity(row) = i
    /\ row' = Monitored(row)
    /\ worker' = Moved(worker)
    /\ UNCHANGED <<attempts, lease, tasks>>

RequestCancellation ==
    Lifecycle!RequestCancellation /\ UNCHANGED <<lease, worker, tasks>>

Retry == Lifecycle!Retry /\ UNCHANGED <<lease, worker, tasks>>

HeartbeatAges == Lifecycle!HeartbeatAges /\ UNCHANGED <<lease, worker, tasks>>

DeadlinePasses == Lifecycle!DeadlinePasses /\ UNCHANGED <<lease, worker, tasks>>

RunsOvertime ==
    Timeouts /\ Lifecycle!RunsOvertime /\ UNCHANGED <<lease, worker, tasks>>

-----------------------------------------------------------------------------
\* What a worker does next when it is not at the head of its loop.
Proceed(w) ==
    \/ LoseLease(w) \/ ReadHandoff(w) \/ Handoff(w) \/ Stopped(w)
    \/ HandBack(w) \/ ProcessTask(w) \/ Submit(w)
    \/ SubmissionFails(w) \/ Track(w) \/ TrackingFails(w) \/ Wait(w)
    \/ ReadReplied(w) \/ Apply(w) \/ Finalize(w) \/ DropAnswer(w)
    \/ ReadLost(w) \/ Terminalize(w) \/ TimeOut(w) \/ RecoverLost(w)
    \/ FinishCancellation(w) \/ LoopFails(w)

\* The phases of run_loop.
Loop(w) ==
    \/ ExpireQueued(w) \/ Claim(w) \/ BeginReconnect(w) \/ Reconnect(w)
    \/ Partition(w) \/ ReadStuck(w) \/ ReadCancelling(w)

Fault(w) == Crash(w) \/ LeaseAges(w) \/ Signal(w) \/ Disconnect(w)

Next ==
    \/ \E w \in Workers : Boot(w) \/ Proceed(w) \/ Loop(w) \/ Fault(w)
    \/ \E i \in Identities : TaskReturns(i) \/ PublishActivity(i)
    \/ RequestCancellation \/ Retry
    \/ HeartbeatAges \/ DeadlinePasses \/ RunsOvertime

Spec == Init /\ [][Next]_vars

(***************************************************************************)
(* Fairness, as for Ray Jobs: a process finishes what it began unless it   *)
(* crashes, a reliable worker runs its phases again and again, a ready     *)
(* handle is eventually seen ready by ray.wait, leases of unreliable       *)
(* workers run out, unrenewed heartbeats get old and tasks end.            *)
(***************************************************************************)
SeesAnswer(w) == Wait(w) /\ worker'[w].pc # "idle"

Fairness ==
    /\ \A w \in Workers : WF_vars(Proceed(w)) /\ WF_vars(LeaseAges(w))
    /\ \A w \in Reliable :
          /\ WF_vars(Boot(w))
          /\ SF_vars(Partition(w)) /\ SF_vars(SeesAnswer(w))
          /\ SF_vars(ReadStuck(w)) /\ SF_vars(ReadCancelling(w))
    /\ \A i \in Identities : WF_vars(TaskReturns(i))
    /\ WF_vars(HeartbeatAges)

FairSpec == Spec /\ Fairness

-----------------------------------------------------------------------------
(***************************************************************************)
(* Properties.                                                             *)
(***************************************************************************)

\* "Cancellation wins over a concurrently completed Ray result"
\* (poll_ray_core_tasks), whoever finishes it and whatever is recovered
\* meanwhile: a requested cancellation ends as a cancellation.
CancellationWins ==
    [][row.state = "CANCELLING" => row'.state \in {"CANCELLING", "CANCELLED"}]_vars

\* _submit_serialized_request refuses a row that has a pending handle, which
\* would burn an attempt: no handle of an earlier execution is still there
\* when its worker submits the row again, on whichever path that one ended.
NoStaleHandle ==
    \A w \in Workers : At(w, "submit") /\ StillClaimedBy(w) => worker[w].handle = None

\* "Generic LOST recovery must not requeue the same PK while its ObjectRef
\* remains live" (detect_stuck_tasks), nor does anything else requeue it, as
\* long as its owner has lease, connection and handle.
HandleKeepsExecution ==
    [][\A w \in Workers :
          /\ row.state = "RUNNING" /\ row.claimed_by_worker = w
          /\ Live(w) /\ At(w, worker[w].pc) /\ worker[w].connected
          /\ worker[w].handle = Identity(row)
          => row'.state # "QUEUED"]_vars

\* With one reliable worker every claimed execution is eventually resolved,
\* although no other worker can poll its task.
InFlightResolved == row.state \in InFlight ~> row.state \notin InFlight
=============================================================================
