----------------------------- MODULE TaskLifecycle -----------------------------
(***************************************************************************)
(* What the task manager promises of one durable execution: the lifecycle  *)
(* of its row and of its attempt history (TaskAttempt), without workers,   *)
(* leases, snapshots or messages.  Each action is one row-locked           *)
(* transaction; its guard is what every caller of that transaction has     *)
(* established when it commits.  RayJobExecution is shown to implement     *)
(* this specification.                                                     *)
(***************************************************************************)
EXTENDS TaskExecutionRow

VARIABLES
    row,        \* the RayTaskExecution row
    attempts    \* TaskAttempt: attempt number -> archived state, or None

vars == <<row, attempts>>

TypeOK ==
    /\ row \in Row
    /\ attempts \in [Attempts -> Terminal \cup {None}]

Init ==
    /\ row = Enqueued
    /\ attempts = [n \in Attempts |-> None]

-----------------------------------------------------------------------------
\* The worker's claim transaction.
Claim(w) ==
    /\ row.state = "QUEUED"
    /\ row.queue_deadline_at = "ahead"
    /\ row.execution_generation < MaxGeneration
    /\ row' = Claimed(row, w)
    /\ UNCHANGED attempts

\* The claim sweep expires a queued row whose deadline has passed.
Expire ==
    /\ row.state = "QUEUED"
    /\ row.queue_deadline_at = "passed"
    /\ row' = Finished(row, "EXPIRED")
    /\ attempts' = Archived(attempts, row, "EXPIRED")

\* A claimed row that was never submitted returns to the queue.
ReturnToQueue ==
    /\ row.state = "RUNNING"
    /\ row.ray_job_id = None
    /\ row.completion_data = None
    /\ row' = HandedBack(row)
    /\ UNCHANGED attempts

\* The submission handle is reserved before, and confirmed after, the request.
Track ==
    /\ row.state = "RUNNING"
    /\ row.ray_job_id \in {None, Identity(row)}
    /\ row' = Tracked(row)
    /\ UNCHANGED attempts

Attach ==
    /\ row.state = "RUNNING"
    /\ row.ray_job_id = Identity(row)
    /\ row' = Attached(row)
    /\ UNCHANGED attempts

Unreserve ==
    /\ row.state = "RUNNING"
    /\ row.ray_job_id = Identity(row)
    /\ row.completion_data = None
    /\ row' = Unreserved(row)
    /\ UNCHANGED attempts

\* Ownership moves to an adopter, or is dropped at shutdown.
Adopt(w) ==
    /\ row.state \in InFlight
    /\ row' = Adopted(row, w)
    /\ UNCHANGED attempts

Disown ==
    /\ row.state = "RUNNING"
    /\ row' = Disowned(row)
    /\ UNCHANGED attempts

Monitor ==
    /\ row.state = "RUNNING"
    /\ row.completion_data = None
    /\ row' = Monitored(row)
    /\ UNCHANGED attempts

\* The entrypoint of the submitted job publishes its envelope, once.
Publish(e) ==
    /\ row.state = "RUNNING"
    /\ row.ray_job_id = Identity(row)
    /\ row.completion_data = None
    /\ row' = Published(row, e)
    /\ UNCHANGED attempts

Succeed ==
    /\ row.state = "RUNNING"
    /\ row.completion_data = "success"
    /\ row' = Finished(row, "SUCCEEDED")
    /\ attempts' = Archived(attempts, row, "SUCCEEDED")

\* A permanent failure: by envelope, or without one (timeout, no envelope).
Fail(w) ==
    /\ row.state = "RUNNING"
    /\ row.completion_data # "success"
    /\ row' = Finished(Adopted(row, w), "FAILED")
    /\ attempts' = Archived(attempts, row, "FAILED")

\* A failure within the budget: a failure envelope, or nothing was submitted.  The
\* submission ID may already be on the row, a request is not.
FailAndRequeue ==
    /\ row.state = "RUNNING"
    /\ \/ row.completion_data = "failure"
       \/ row.completion_data = None /\ row.ray_job_request_reference = None
    /\ WithinAttempts(row)
    /\ row' = RequeuedByPolicy(row)
    /\ attempts' = Archived(attempts, row, "FAILED")

Lose(w) ==
    /\ row.state = "RUNNING"
    /\ row.completion_data \in {None, "rejected"}
    /\ row' = Finished(Adopted(row, w), "LOST")
    /\ attempts' = Archived(attempts, row, "LOST")

\* LOST recovery retries in the same transaction, only without a Ray Job.
LoseAndRequeue ==
    /\ row.state = "RUNNING"
    /\ row.ray_job_id = None
    /\ row.completion_data = None
    /\ WithinAttempts(row)
    /\ row.execution_generation < MaxGeneration
    /\ row' = RequeuedByRetry(row)
    /\ attempts' = Archived(attempts, row, "LOST")

\* Faulty variant: a running row is cancelled whatever its envelope says.
CancelDecided ==
    /\ row.state \in {"QUEUED", "RUNNING"}
    /\ row' = [row EXCEPT !.state = "CANCELLING"]
    /\ UNCHANGED attempts

\* _request_task_cancellation refuses a running row whose envelope is pending.
RequestCancellation ==
    \/ /\ row.state = "QUEUED"
       /\ row' = Finished(row, "CANCELLED")
       /\ attempts' = Archived(attempts, row, "CANCELLED")
    \/ /\ row.state = "RUNNING"
       /\ row.completion_data = None
       /\ row' = [row EXCEPT !.state = "CANCELLING"]
       /\ UNCHANGED attempts

FinishCancellation(w) ==
    /\ row.state = "CANCELLING"
    /\ row' = Finished(Adopted(row, w), "CANCELLED")
    /\ attempts' = Archived(attempts, row, "CANCELLED")

\* _request_task_retry by an administrator or the API.
Retry ==
    /\ row.state \in Retryable
    /\ row.execution_generation < MaxGeneration
    /\ row' = RequeuedByRetry(row)
    /\ attempts' = Archived(attempts, row, row.state)

-----------------------------------------------------------------------------
\* Time: what the clock makes of the row's timestamps.
HeartbeatAges ==
    /\ row.state = "RUNNING"
    /\ row.last_heartbeat_at = "recent"
    /\ row' = [row EXCEPT !.last_heartbeat_at = "stale"]
    /\ UNCHANGED attempts

RunsOvertime ==
    /\ row.state = "RUNNING"
    /\ row.started_at = "recent"
    /\ row' = [row EXCEPT !.started_at = "overtime"]
    /\ UNCHANGED attempts

DeadlinePasses ==
    /\ row.state = "QUEUED"
    /\ row.queue_deadline_at = "ahead"
    /\ row' = [row EXCEPT !.queue_deadline_at = "passed"]
    /\ UNCHANGED attempts

Next ==
    \/ \E w \in Workers :
          Claim(w) \/ Adopt(w) \/ Fail(w) \/ Lose(w) \/ FinishCancellation(w)
    \/ \E e \in Envelope : Publish(e)
    \/ Expire \/ ReturnToQueue \/ Track \/ Attach \/ Unreserve \/ Disown \/ Monitor
    \/ Succeed \/ FailAndRequeue \/ LoseAndRequeue \/ RequestCancellation \/ Retry
    \/ HeartbeatAges \/ RunsOvertime \/ DeadlinePasses

Spec == Init /\ [][Next]_vars

-----------------------------------------------------------------------------
(***************************************************************************)
(* Properties.                                                             *)
(***************************************************************************)

\* The history has no gap and no excess: exactly the attempts before the
\* current one, and the current one once it is terminal, are archived, each
\* under the state it ended in; no attempt follows a success.  It is what
\* _record_attempt must preserve across automatic, manual and LOST retries.
HistoryComplete ==
    /\ \A n \in Attempts :
          attempts[n] # None <=>
             \/ n < row.attempt_number
             \/ n = row.attempt_number /\ row.state \in Terminal
    /\ row.state \in Terminal => attempts[row.attempt_number] = row.state
    /\ \A n \in Attempts : n < row.attempt_number => attempts[n] \in Retryable

\* Attempts never outrun generations, so that (attempt, generation) of a
\* claimed row was never the identity of an earlier claim: a manual retry of a
\* never-claimed row and an automatic retry both keep this order.
AttemptsWithin ==
    /\ row.attempt_number <= row.execution_generation + 1
    /\ row.state \in InFlight => row.attempt_number <= row.execution_generation

\* update_or_create in _record_attempt never rewrites how an attempt ended.
HistoryStable ==
    [][\A n \in Attempts : attempts[n] # None => attempts'[n] = attempts[n]]_vars

\* An acceptable envelope on a running row decides the attempt: no timeout,
\* LOST recovery, cancellation or handoff may end it in another way.
CompletionDecides ==
    [][row.state = "RUNNING" /\ row'.state # "RUNNING" =>
          /\ row.completion_data = "success" => row'.state = "SUCCEEDED"
          /\ row.completion_data = "failure" => row'.state \in {"FAILED", "QUEUED"}
          /\ row.completion_data = "permanent" => row'.state = "FAILED"]_vars

\* Generations only grow, and entering RUNNING always opens a new one: what a
\* job of an earlier claim still writes can be told from the current execution.
ClaimOpensGeneration ==
    [][/\ row'.execution_generation >= row.execution_generation
       /\ row'.attempt_number >= row.attempt_number
       /\ row.state # "RUNNING" /\ row'.state = "RUNNING" =>
             row'.execution_generation > row.execution_generation]_vars
=============================================================================
