--------------------------- MODULE TaskExecutionRow ---------------------------
(***************************************************************************)
(* The durable row of one task execution (RayTaskExecution) and the row    *)
(* transitions of lifecycle.py and of the worker's claim and handoff       *)
(* transactions.  Every transition is written as an operator from a row to *)
(* the row that the transaction saves, so that the abstract machine        *)
(* (TaskLifecycle) and the detailed one (RayJobExecution) share them.      *)
(*                                                                         *)
(* Data that no property tells apart is abstracted.  A Ray submission ID   *)
(* is a digest of (attempt, generation) of the row, hence that pair; the   *)
(* stored request is named by the same pair.  A timestamp is what its      *)
(* readers ask of it: a heartbeat is "recent" or older than the            *)
(* stuck-task timeout, a start is "recent" or older than the task timeout, *)
(* a queue deadline is "ahead" or "passed".                                *)
(***************************************************************************)
EXTENDS Naturals

CONSTANTS
    Workers,          \* worker lease IDs that may claim the row
    None,             \* a NULL column
    MaxAttempts,      \* MAX_TASK_ATTEMPTS of the retry policy
    MaxGeneration     \* bound: generations a behaviour may issue

ASSUME MaxAttemptsType == MaxAttempts \in Nat \ {0}
ASSUME MaxGenerationType == MaxGeneration \in Nat

(***************************************************************************)
(* TaskState.                                                              *)
(***************************************************************************)
InFlight == {"RUNNING", "CANCELLING"}
Retryable == {"FAILED", "CANCELLED", "LOST", "EXPIRED"}
Terminal == Retryable \cup {"SUCCEEDED"}
TaskState == {"QUEUED"} \cup InFlight \cup Terminal

(***************************************************************************)
(* What an entrypoint may publish: a success, a failure that the retry     *)
(* policy may retry, a failure marked non-retryable, or an envelope that   *)
(* this worker cannot accept (another protocol version).                   *)
(***************************************************************************)
Envelope == {"success", "failure", "permanent", "rejected"}

\* attempt_number never exceeds execution_generation + 1 (see AttemptsWithin).
Attempts == 1 .. (MaxGeneration + 1)
Generations == 0 .. MaxGeneration
Identities == Attempts \X Generations

\* NULL is no worker, state, envelope or identity.
ASSUME NoneIsNull == None \notin Workers \cup TaskState \cup Envelope \cup Identities

Row ==
    [ state : TaskState,
      attempt_number : Attempts,
      execution_generation : Generations,
      claimed_by_worker : Workers \cup {None},
      ray_job_id : Identities \cup {None},
      ray_job_request_reference : Identities \cup {None},
      completion_data : Envelope \cup {None},
      last_heartbeat_at : {None, "recent", "stale"},
      started_at : {None, "recent", "overtime"},
      queue_deadline_at : {"ahead", "passed"} ]

\* The exact identity every completion and submission is bound to.
Identity(r) == <<r.attempt_number, r.execution_generation>>

\* The row a backend enqueues.
Enqueued ==
    [ state |-> "QUEUED", attempt_number |-> 1, execution_generation |-> 0,
      claimed_by_worker |-> None, ray_job_id |-> None,
      ray_job_request_reference |-> None, completion_data |-> None,
      last_heartbeat_at |-> None, started_at |-> None,
      queue_deadline_at |-> "ahead" ]

-----------------------------------------------------------------------------
(***************************************************************************)
(* Transitions.                                                            *)
(***************************************************************************)

\* Faulty variant: a claim that does not open a generation.
ClaimedInPlace(r, w) ==
    [r EXCEPT !.state = "RUNNING", !.claimed_by_worker = w,
              !.started_at = "recent", !.last_heartbeat_at = "recent",
              !.completion_data = None, !.ray_job_id = None,
              !.ray_job_request_reference = None]

\* claim_and_process_tasks: a new generation, owned, with no execution state.
Claimed(r, w) ==
    [r EXCEPT !.state = "RUNNING", !.claimed_by_worker = w,
              !.execution_generation = @ + 1,
              !.started_at = "recent", !.last_heartbeat_at = "recent",
              !.completion_data = None, !.ray_job_id = None,
              !.ray_job_request_reference = None]

\* _handoff_unsubmitted_task: back to the queue in the same generation.
HandedBack(r) ==
    [r EXCEPT !.state = "QUEUED", !.claimed_by_worker = None,
              !.started_at = None, !.last_heartbeat_at = None,
              !.ray_job_id = None]

\* Faulty variant: a handle derived from the attempt without its generation.
TrackedByAttempt(r) ==
    [r EXCEPT !.ray_job_id = <<r.attempt_number>>, !.last_heartbeat_at = "recent"]

\* _persist_submission_tracking: reserve, or confirm, the exact handle.
Tracked(r) ==
    [r EXCEPT !.ray_job_id = Identity(r), !.last_heartbeat_at = "recent"]

\* register_and_attach_ray_job_request: bind the stored request.
Attached(r) == [r EXCEPT !.ray_job_request_reference = Identity(r)]

\* release_ray_job_request_reservation: nothing was submitted.
Unreserved(r) ==
    [r EXCEPT !.ray_job_id = None, !.ray_job_request_reference = None]

\* _authoritative_task_owner: the adopter becomes the owner.
Adopted(r, w) == [r EXCEPT !.claimed_by_worker = w]

\* _mark_task_monitor_heartbeat.
Monitored(r) == [r EXCEPT !.last_heartbeat_at = "recent"]

\* _prepare_shutdown_handoff of a Ray Job row.
Disowned(r) ==
    [r EXCEPT !.claimed_by_worker = None, !.last_heartbeat_at = "recent"]

\* _persist_task_completion of the remote entrypoint.
Published(r, e) == [r EXCEPT !.completion_data = e]

\* succeed_task, cancel_task, record_lost, and record_failure without retry.
Finished(r, s) == [r EXCEPT !.state = s]

\* Faulty variant: a retry that keeps its attempt number.
RequeuedInPlace(r) ==
    [r EXCEPT !.state = "QUEUED", !.queue_deadline_at = "ahead",
              !.claimed_by_worker = None, !.started_at = None,
              !.last_heartbeat_at = None, !.completion_data = None]

\* record_failure with retry: the next attempt, in the same generation.  The
\* submission handle stays on the row until the next claim clears it.
RequeuedByPolicy(r) ==
    [r EXCEPT !.state = "QUEUED", !.attempt_number = @ + 1,
              !.queue_deadline_at = "ahead", !.claimed_by_worker = None,
              !.started_at = None, !.last_heartbeat_at = None,
              !.completion_data = None]

\* _request_task_retry: the next attempt, in a new generation.
RequeuedByRetry(r) ==
    [r EXCEPT !.state = "QUEUED", !.attempt_number = @ + 1,
              !.execution_generation = @ + 1,
              !.queue_deadline_at = "ahead", !.claimed_by_worker = None,
              !.started_at = None, !.last_heartbeat_at = None,
              !.completion_data = None, !.ray_job_id = None,
              !.ray_job_request_reference = None]

-----------------------------------------------------------------------------
(***************************************************************************)
(* Decisions.                                                              *)
(***************************************************************************)

\* should_retry: the attempt budget; the exception denylist is the caller's
\* nondeterministic choice.
WithinAttempts(r) == r.attempt_number < MaxAttempts

\* is_task_stuck and is_task_timed_out.
Stuck(r) == r.state = "RUNNING" /\ r.last_heartbeat_at = "stale"
TimedOut(r) == r.state = "RUNNING" /\ r.started_at = "overtime"

\* _record_attempt: one history entry per attempt number, created or replaced.
Archived(history, r, s) == [history EXCEPT ![r.attempt_number] = s]
=============================================================================
