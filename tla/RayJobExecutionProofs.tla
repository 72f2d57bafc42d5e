------------------------- MODULE RayJobExecutionProofs -------------------------
(***************************************************************************)
(* Proofs about RayJobExecution, for every set of workers, retry budget    *)
(* and number of generations: its safety properties and that it implements *)
(* TaskLifecycle.                                                          *)
(*                                                                         *)
(* The argument rests on identities.  A claim opens a generation that Ray  *)
(* was never asked for (JobsKnown), so that one worker at a time submits   *)
(* an execution (OneSubmitter); it is the only one that writes reservation *)
(* and request reference of that execution, so that the row shows exactly  *)
(* how far the submission has come (Progress); and whoever decides about a *)
(* row acts on what the row still is (Snapshots).                          *)
(***************************************************************************)
EXTENDS RayJobExecution, TLAPS

-----------------------------------------------------------------------------
(***************************************************************************)
(* What the row transitions of TaskExecutionRow return.                    *)
(***************************************************************************)
LEMMA States ==
  /\ InFlight \cap Terminal = {} /\ "QUEUED" \notin Terminal /\ "QUEUED" \notin InFlight
  /\ InFlight = {"RUNNING", "CANCELLING"}
  /\ Terminal \subseteq TaskState /\ InFlight \subseteq TaskState /\ "QUEUED" \in TaskState
  /\ Retryable \subseteq Terminal /\ "SUCCEEDED" \in Terminal
  /\ {"FAILED", "CANCELLED", "LOST", "EXPIRED"} = Retryable
  BY DEF InFlight, Terminal, Retryable, TaskState

LEMMA IdentityType ==
  ASSUME NEW r \in Row
  PROVE  /\ Identity(r) \in Identities
         /\ r.attempt_number \in Attempts /\ r.attempt_number \in Nat
         /\ r.execution_generation \in Generations /\ r.execution_generation \in Nat
         /\ r.execution_generation <= MaxGeneration
  <1>1. r.attempt_number \in Attempts /\ r.execution_generation \in Generations
    BY DEF Row
  <1>2. Identity(r) \in Identities
    BY <1>1 DEF Identity, Identities
  <1> QED BY <1>1, <1>2, MaxGenerationType DEF Attempts, Generations

\* The same attempt and generation under the same state.
SameExecution(q, r) ==
    /\ q.state = r.state
    /\ q.attempt_number = r.attempt_number
    /\ q.execution_generation = r.execution_generation

\* Transitions that touch neither state nor identity.
LEMMA ColumnTransitions ==
  ASSUME NEW r \in Row
  PROVE  /\ \A w \in Workers \cup {None} :
               /\ Adopted(r, w) \in Row /\ SameExecution(Adopted(r, w), r)
               /\ Adopted(r, w).claimed_by_worker = w
         /\ \A e \in Envelope :
               /\ Published(r, e) \in Row /\ SameExecution(Published(r, e), r)
               /\ Published(r, e).claimed_by_worker = r.claimed_by_worker
         /\ \A q \in {Tracked(r), Attached(r), Unreserved(r), Monitored(r)} :
               q \in Row /\ SameExecution(q, r) /\ q.claimed_by_worker = r.claimed_by_worker
         /\ Disowned(r) \in Row /\ SameExecution(Disowned(r), r) /\ Disowned(r).claimed_by_worker = None
  <1>1. Identity(r) \in Identities
    BY IdentityType
  <1> USE <1>1 DEF Row, SameExecution
  <1>2. ASSUME NEW w \in Workers \cup {None}
        PROVE  /\ Adopted(r, w) \in Row /\ SameExecution(Adopted(r, w), r)
               /\ Adopted(r, w).claimed_by_worker = w
    BY DEF Adopted
  <1>3. ASSUME NEW e \in Envelope
        PROVE  /\ Published(r, e) \in Row /\ SameExecution(Published(r, e), r)
               /\ Published(r, e).claimed_by_worker = r.claimed_by_worker
    BY DEF Published
  <1>4. /\ Tracked(r) \in Row /\ SameExecution(Tracked(r), r)
        /\ Tracked(r).claimed_by_worker = r.claimed_by_worker
    BY DEF Tracked
  <1>5. /\ Attached(r) \in Row /\ SameExecution(Attached(r), r)
        /\ Attached(r).claimed_by_worker = r.claimed_by_worker
    BY DEF Attached
  <1>6. /\ Unreserved(r) \in Row /\ SameExecution(Unreserved(r), r)
        /\ Unreserved(r).claimed_by_worker = r.claimed_by_worker
    BY DEF Unreserved
  <1>7. /\ Monitored(r) \in Row /\ SameExecution(Monitored(r), r)
        /\ Monitored(r).claimed_by_worker = r.claimed_by_worker
    BY DEF Monitored
  <1>8. Disowned(r) \in Row /\ SameExecution(Disowned(r), r) /\ Disowned(r).claimed_by_worker = None
    BY DEF Disowned
  <1> HIDE DEF Row, SameExecution
  <1> QED BY <1>2, <1>3, <1>4, <1>5, <1>6, <1>7, <1>8

\* Transitions to another state of the same attempt.
LEMMA StateTransitions ==
  ASSUME NEW r \in Row
  PROVE  /\ \A s \in TaskState :
               /\ Finished(r, s) \in Row /\ Finished(r, s).state = s
               /\ Finished(r, s).attempt_number = r.attempt_number
               /\ Finished(r, s).execution_generation = r.execution_generation
               /\ Finished(r, s).claimed_by_worker = r.claimed_by_worker
         /\ HandedBack(r) \in Row /\ HandedBack(r).state = "QUEUED"
         /\ HandedBack(r).attempt_number = r.attempt_number
         /\ HandedBack(r).execution_generation = r.execution_generation
         /\ \A w \in Workers : r.execution_generation < MaxGeneration =>
               /\ Claimed(r, w) \in Row /\ Claimed(r, w).state = "RUNNING"
               /\ Claimed(r, w).attempt_number = r.attempt_number
               /\ Claimed(r, w).execution_generation = r.execution_generation + 1
               /\ Claimed(r, w).claimed_by_worker = w
  <1>1. r.execution_generation < MaxGeneration => r.execution_generation + 1 \in Generations
    BY IdentityType, MaxGenerationType DEF Generations
  <1>2. "QUEUED" \in TaskState /\ "RUNNING" \in TaskState
    BY DEF TaskState, InFlight
  <1> USE <1>1, <1>2 DEF Row
  <1>3. ASSUME NEW s \in TaskState
        PROVE  /\ Finished(r, s) \in Row /\ Finished(r, s).state = s
               /\ Finished(r, s).attempt_number = r.attempt_number
               /\ Finished(r, s).execution_generation = r.execution_generation
               /\ Finished(r, s).claimed_by_worker = r.claimed_by_worker
    BY DEF Finished
  <1>4. /\ HandedBack(r) \in Row /\ HandedBack(r).state = "QUEUED"
        /\ HandedBack(r).attempt_number = r.attempt_number
        /\ HandedBack(r).execution_generation = r.execution_generation
    BY DEF HandedBack
  <1>5. ASSUME NEW w \in Workers, r.execution_generation < MaxGeneration
        PROVE  /\ Claimed(r, w) \in Row /\ Claimed(r, w).state = "RUNNING"
               /\ Claimed(r, w).attempt_number = r.attempt_number
               /\ Claimed(r, w).execution_generation = r.execution_generation + 1
               /\ Claimed(r, w).claimed_by_worker = w
    BY <1>5 DEF Claimed
  <1> HIDE DEF Row
  <1> QED BY <1>3, <1>4, <1>5

\* Transitions to the next attempt.
LEMMA RequeueTransitions ==
  ASSUME NEW r \in Row, r.attempt_number < MaxGeneration + 1
  PROVE  /\ RequeuedByPolicy(r) \in Row /\ RequeuedByPolicy(r).state = "QUEUED"
         /\ RequeuedByPolicy(r).attempt_number = r.attempt_number + 1
         /\ RequeuedByPolicy(r).execution_generation = r.execution_generation
         /\ r.execution_generation < MaxGeneration =>
               /\ RequeuedByRetry(r) \in Row /\ RequeuedByRetry(r).state = "QUEUED"
               /\ RequeuedByRetry(r).attempt_number = r.attempt_number + 1
               /\ RequeuedByRetry(r).execution_generation = r.execution_generation + 1
  <1>1. r.attempt_number + 1 \in Attempts
    BY IdentityType, MaxGenerationType DEF Attempts
  <1>2. r.execution_generation < MaxGeneration => r.execution_generation + 1 \in Generations
    BY IdentityType, MaxGenerationType DEF Generations
  <1>3. "QUEUED" \in TaskState
    BY DEF TaskState
  <1>4. /\ RequeuedByPolicy(r) \in Row /\ RequeuedByPolicy(r).state = "QUEUED"
        /\ RequeuedByPolicy(r).attempt_number = r.attempt_number + 1
        /\ RequeuedByPolicy(r).execution_generation = r.execution_generation
    BY <1>1, <1>3 DEF RequeuedByPolicy, Row
  <1>5. r.execution_generation < MaxGeneration =>
               /\ RequeuedByRetry(r) \in Row /\ RequeuedByRetry(r).state = "QUEUED"
               /\ RequeuedByRetry(r).attempt_number = r.attempt_number + 1
               /\ RequeuedByRetry(r).execution_generation = r.execution_generation + 1
    BY <1>1, <1>2, <1>3 DEF RequeuedByRetry, Row
  <1> QED BY <1>4, <1>5

LEMMA ArchivedType ==
  ASSUME NEW h \in [Attempts -> Terminal \cup {None}], NEW r \in Row, NEW s \in Terminal
  PROVE  /\ Archived(h, r, s) \in [Attempts -> Terminal \cup {None}]
         /\ \A n \in Attempts :
               Archived(h, r, s)[n] = IF n = r.attempt_number THEN s ELSE h[n]
  BY DEF Archived, Row

-----------------------------------------------------------------------------
(***************************************************************************)
(* The inductive invariant.                                                *)
(***************************************************************************)

\* From a claim to the end of its submission, and the part of it in which Ray
\* has not been asked.
Submitting == {"claimed", "reserve", "attach", "submit", "confirm", "inspect", "release", "fail"}
Unsent == Submitting \ {"confirm", "inspect"}

\* The reservation is on the row, or not yet or no longer.
Reserved == {"attach", "submit", "release"}
Unreserving == {"claimed", "reserve"}
Unbound == {"claimed", "reserve", "fail"}

\* Where a worker acts on what it read as RUNNING, and as its own.
ReadRunning == Submitting \cup {"poll", "consume", "decide", "overtime", "lost"}
ReadOwn == Submitting \cup {"poll", "consume", "decide"}

\* The execution that worker w is submitting.
Submission(w) == Identity(worker[w].snapshot)

InFlightAs(i) == row.state \in InFlight /\ Identity(row) = i

\* How far the row shows the submission to have come.
Progress(w) ==
    /\ worker[w].pc \in Unreserving => row.ray_job_id = None
    /\ worker[w].pc \in Unbound => row.ray_job_request_reference = None
    /\ worker[w].pc \in Reserved => row.ray_job_id = Submission(w)
    /\ worker[w].pc = "submit" => row.ray_job_request_reference = Submission(w)

\* A process that is not up does and tracks nothing.
AtRest(w) ==
    worker[w].phase \in {"new", "down"} => worker[w].pc = "idle" /\ worker[w].tracked = None

\* What a snapshot is of.
Snapshots(w) ==
    LET k == worker[w]  s == worker[w].snapshot IN
    /\ k.pc \in ReadRunning => s \in Row /\ s.state = "RUNNING"
    /\ k.pc = "cancel" => s \in Row /\ s.state = "CANCELLING"
    /\ k.pc \in ReadOwn => s.claimed_by_worker = w
    /\ k.pc \in {"claimed", "reserve"} =>
          /\ s.ray_job_id = None /\ s.completion_data = None
          /\ s.ray_job_request_reference = None
    /\ k.pc \in Reserved => s.ray_job_id = Identity(s)
    /\ k.pc = "submit" => s.ray_job_request_reference = Identity(s)
    /\ k.pc \in {"lost", "overtime"} => s.completion_data = None
    /\ k.pc = "lost" => s.ray_job_id = None

\* A submission is of this generation or of an earlier one; until its request
\* Ray knows nothing of it; the row shows how far it has come, if still in flight.
Submits(w) ==
    worker[w].pc \in Submitting =>
        /\ worker[w].snapshot.execution_generation <= row.execution_generation
        /\ worker[w].pc \in Unsent => jobs[Submission(w)] = "none"
        /\ InFlightAs(Submission(w)) => Progress(w)

\* What is tracked is no later generation, and a live worker's own if it runs.
Tracks(w) ==
    /\ worker[w].tracked # None => worker[w].tracked[2] <= row.execution_generation
    /\ Live(w) /\ row.state = "RUNNING" /\ worker[w].tracked = Identity(row) =>
          row.claimed_by_worker = w

WorkerInv(w) == AtRest(w) /\ Snapshots(w) /\ Submits(w) /\ Tracks(w)

\* No two workers submit the same execution.
OneSubmitter ==
    \A v, w \in Workers :
        worker[v].pc \in Submitting /\ worker[w].pc \in Submitting
          /\ Submission(v) = Submission(w) => v = w

\* Attempts leave room for a retry (see TaskLifecycle!AttemptsWithin).
AttemptsWithin ==
    /\ row.attempt_number <= row.execution_generation + 1
    /\ row.state \in InFlight => row.attempt_number <= row.execution_generation

\* A Ray Job ID on a row in flight is that of its execution.
OwnJobId == row.state \in InFlight => row.ray_job_id \in {None, Identity(row)}

\* Ray has been asked for no later generation.
JobsKnown == \A i \in Identities : jobs[i] # "none" => i[2] <= row.execution_generation

RowInv == AttemptsWithin /\ OwnJobId /\ JobsKnown /\ RunningJobIsBound /\ EnvelopeIsOwn

Inv == TypeOK /\ RowInv /\ OneSubmitter /\ \A w \in Workers : WorkerInv(w)

-----------------------------------------------------------------------------
(***************************************************************************)
(* What a step does to the worker processes.                               *)
(***************************************************************************)

\* Only w moves.
WorkerStep(w) ==
    /\ worker' \in [Workers -> Worker]
    /\ \A v \in Workers \ {w} : worker'[v] = worker[v]

Trackable == Identities \cup {None}

\* One worker takes a new state.
LEMMA OneMoves ==
  ASSUME worker \in [Workers -> Worker], NEW w \in Workers, NEW k \in Worker,
         worker' = [worker EXCEPT ![w] = k]
  PROVE  WorkerStep(w) /\ worker'[w] = k
  BY DEF WorkerStep

LEMMA ReturnMoves ==
  ASSUME worker \in [Workers -> Worker], NEW w \in Workers, NEW t \in Trackable, Return(w, t)
  PROVE  /\ WorkerStep(w)
         /\ worker'[w].pc = "idle" /\ worker'[w].tracked = t
         /\ worker'[w].phase = worker[w].phase
  <1> DEFINE k == [worker[w] EXCEPT !.pc = "idle", !.tracked = t, !.snapshot = None, !.status = None]
  <1>1. k \in Worker
    BY DEF Worker, Trackable, Steps
  <1>2. worker' = [worker EXCEPT ![w] = k]
    BY DEF Return
  <1>3. WorkerStep(w) /\ worker'[w] = k
    BY <1>1, <1>2, OneMoves
  <1>4. k.pc = "idle" /\ k.tracked = t /\ k.phase = worker[w].phase
    BY DEF Worker
  <1> QED BY <1>3, <1>4

LEMMA GotoMoves ==
  ASSUME worker \in [Workers -> Worker], NEW w \in Workers, NEW pc \in Steps, Goto(w, pc)
  PROVE  /\ WorkerStep(w)
         /\ worker'[w].pc = pc /\ worker'[w].tracked = worker[w].tracked
         /\ worker'[w].phase = worker[w].phase /\ worker'[w].snapshot = worker[w].snapshot
  <1> DEFINE k == [worker[w] EXCEPT !.pc = pc]
  <1>1. k \in Worker
    BY DEF Worker
  <1>2. worker' = [worker EXCEPT ![w] = k]
    BY DEF Goto
  <1>3. WorkerStep(w) /\ worker'[w] = k
    BY <1>1, <1>2, OneMoves
  <1>4. /\ k.pc = pc /\ k.tracked = worker[w].tracked /\ k.snapshot = worker[w].snapshot
        /\ k.phase = worker[w].phase
    BY DEF Worker
  <1> QED BY <1>3, <1>4

LEMMA RememberMoves ==
  ASSUME worker \in [Workers -> Worker], NEW r \in Row,
         NEW w \in Workers, NEW pc \in Steps, Remember(w, pc, r)
  PROVE  /\ WorkerStep(w)
         /\ worker'[w].pc = pc /\ worker'[w].tracked = worker[w].tracked
         /\ worker'[w].phase = worker[w].phase /\ worker'[w].snapshot = r
  <1> DEFINE k == [worker[w] EXCEPT !.pc = pc, !.snapshot = r]
  <1>1. k \in Worker
    BY DEF Worker
  <1>2. worker' = [worker EXCEPT ![w] = k]
    BY DEF Remember
  <1>3. WorkerStep(w) /\ worker'[w] = k
    BY <1>1, <1>2, OneMoves
  <1>4. /\ k.pc = pc /\ k.tracked = worker[w].tracked /\ k.snapshot = r
        /\ k.phase = worker[w].phase
    BY DEF Worker
  <1> QED BY <1>3, <1>4

\* Submission steps write program counter, tracking and snapshot.
LEMMA TrackMoves ==
  ASSUME worker \in [Workers -> Worker], NEW w \in Workers, NEW pc \in Steps,
         NEW t \in Trackable, NEW s \in Row \cup {None},
         worker' = [worker EXCEPT ![w].pc = pc, ![w].tracked = t, ![w].snapshot = s]
  PROVE  /\ WorkerStep(w)
         /\ worker'[w].pc = pc /\ worker'[w].tracked = t
         /\ worker'[w].phase = worker[w].phase /\ worker'[w].snapshot = s
  <1> DEFINE k == [worker[w] EXCEPT !.pc = pc, !.tracked = t, !.snapshot = s]
  <1>1. k \in Worker
    BY DEF Worker, Trackable
  <1>2. worker' = [worker EXCEPT ![w] = k]
    OBVIOUS
  <1>3. WorkerStep(w) /\ worker'[w] = k
    BY <1>1, <1>2, OneMoves
  <1>4. k.pc = pc /\ k.tracked = t /\ k.snapshot = s /\ k.phase = worker[w].phase
    BY DEF Worker
  <1> QED BY <1>3, <1>4

-----------------------------------------------------------------------------
(***************************************************************************)
(* What a step does to the jobs.                                           *)
(***************************************************************************)

\* No job is requested, and an ended or exiting one is not alive again.
JobsMove ==
    /\ jobs' \in [Identities -> JobState]
    /\ \A i \in Identities : jobs'[i] = "none" <=> jobs[i] = "none"
    /\ \A i \in Identities : jobs[i] \in {"exiting", "ended"} => jobs'[i] \in {"exiting", "ended"}

LEMMA JobsSame ==
  ASSUME TypeOK, UNCHANGED jobs
  PROVE  JobsMove
  BY DEF JobsMove, TypeOK

\* One job moves.
LEMMA OneJobMoves ==
  ASSUME TypeOK, NEW i \in Identities, NEW j \in JobState \ {"none"}, jobs[i] # "none",
         jobs[i] \in {"exiting", "ended"} => j \in {"exiting", "ended"},
         jobs' = [jobs EXCEPT ![i] = j]
  PROVE  JobsMove /\ jobs'[i] = j /\ \A k \in Identities \ {i} : jobs'[k] = jobs[k]
  BY DEF JobsMove, TypeOK

\* A stop is delivered to an alive job, or changes nothing.
LEMMA StopMoves ==
  ASSUME TypeOK, NEW i \in Trackable, Stop(i)
  PROVE  /\ JobsMove
         /\ \A k \in Identities :
               jobs'[k] # jobs[k] => k = i /\ jobs[k] = "alive" /\ jobs'[k] = "stopping"
  <1>1. CASE UNCHANGED jobs
    BY <1>1, JobsSame
  <1>2. ASSUME i \in Identities, NEW j \in StopOutcomes(jobs[i]), jobs' = [jobs EXCEPT ![i] = j]
        PROVE  /\ JobsMove
               /\ \A k \in Identities :
                     jobs'[k] # jobs[k] => k = i /\ jobs[k] = "alive" /\ jobs'[k] = "stopping"
    <2>1. CASE j = jobs[i]
      <3>1. jobs' = jobs
        BY <1>2, <2>1 DEF TypeOK
      <3> QED BY <3>1, JobsSame
    <2>2. CASE jobs[i] = "alive" /\ j = "stopping"
      <3>1. j \in JobState \ {"none"}
        BY <2>2 DEF JobState
      <3> QED BY <1>2, <2>2, <3>1, OneJobMoves
    <2> QED BY <1>2, <2>1, <2>2 DEF StopOutcomes
  <1> QED BY <1>1, <1>2 DEF Stop, Trackable

-----------------------------------------------------------------------------
(***************************************************************************)
(* What a step of w does to the row.                                       *)
(***************************************************************************)

\* A job that Ray knows stays bound, and an envelope that of an ended job.
BoundStep ==
    row'.state \in InFlight /\ jobs[Identity(row')] # "none" =>
        row'.ray_job_id = Identity(row') /\ row'.ray_job_request_reference = Identity(row')

EnvelopeStep ==
    row'.state = "RUNNING" /\ row'.completion_data # None =>
        \/ jobs[Identity(row')] \in {"exiting", "ended"}
        \/ jobs'[Identity(row')] \in {"exiting", "ended"}

\* An execution changes hands only when its owner is not live.
OwnerStep ==
    \A v \in Workers :
        /\ row.claimed_by_worker = v /\ row.state \in InFlight
        /\ row'.claimed_by_worker \in Workers \ {v}
        => ~Live(v)

\* An execution that somebody is about to submit is not queued again.
RequeueStep ==
    row.state = "RUNNING" /\ row'.state = "QUEUED" => ~AboutToSubmit(Identity(row))

\* What v submits and tracks is not touched.
Undisturbed(v) ==
    /\ /\ worker[v].pc \in Submitting
       /\ row'.state \in InFlight /\ Identity(row') = Submission(v)
       => /\ InFlightAs(Submission(v))
          /\ row'.ray_job_id = row.ray_job_id
          /\ row'.ray_job_request_reference = row.ray_job_request_reference
    /\ Live(v) /\ row'.state = "RUNNING" /\ worker[v].tracked = Identity(row') =>
          row'.claimed_by_worker = v

RowStep(w) ==
    /\ row' \in Row
    /\ attempts' \in [Attempts -> Terminal \cup {None}]
    /\ AttemptsWithin' /\ OwnJobId'
    /\ row.execution_generation <= row'.execution_generation
    /\ BoundStep /\ EnvelopeStep /\ OwnerStep /\ RequeueStep
    /\ \A v \in Workers \ {w} : Undisturbed(v)

\* A worker that may take the row takes it from no other live one.
LEMMA Fence ==
  ASSUME NEW w \in Workers, NEW v \in Workers \ {w}, Live(v),
         MayTakeFrom(w, row.claimed_by_worker)
  PROVE  row.claimed_by_worker # v
  BY NoneIsNull DEF MayTakeFrom

LEMMA RowFacts ==
  ASSUME Inv
  PROVE  /\ row \in Row /\ worker \in [Workers -> Worker]
         /\ Identity(row) \in Identities /\ Identity(row) # None
         /\ row.attempt_number \in Nat /\ row.execution_generation \in Nat
         /\ row.claimed_by_worker \in Workers \cup {None}
         /\ row.ray_job_id \in Trackable
  <1>1. row \in Row /\ worker \in [Workers -> Worker]
    BY DEF Inv, TypeOK
  <1>2. Identity(row) \in Identities /\ row.attempt_number \in Nat /\ row.execution_generation \in Nat
    BY <1>1, IdentityType
  <1> QED BY <1>1, <1>2, NoneIsNull DEF Row, Trackable

\* Nobody is about to submit an execution without reservation, one whose job has
\* ended, or one whose submitter is elsewhere.
LEMMA NobodySubmits ==
  ASSUME Inv, row.state = "RUNNING",
         \/ row.ray_job_id = None
         \/ row.completion_data = "failure"
         \/ \E v \in Workers : worker[v].pc \in {"reserve", "fail"} /\ Submission(v) = Identity(row)
  PROVE  ~AboutToSubmit(Identity(row))
  <1> SUFFICES ASSUME NEW w \in Workers, worker[w].pc \in {"attach", "submit"},
                      Submission(w) = Identity(row)
               PROVE  FALSE
    BY DEF AboutToSubmit, At, Submission
  <1>1. worker[w].pc \in Submitting /\ worker[w].pc \in Unsent /\ worker[w].pc \in Reserved
    BY DEF Submitting, Unsent, Reserved
  <1>2. jobs[Identity(row)] = "none" /\ InFlightAs(Submission(w))
    BY <1>1, States DEF Inv, WorkerInv, Submits, InFlightAs
  <1>3. row.ray_job_id = Identity(row)
    BY <1>1, <1>2 DEF Inv, WorkerInv, Submits, Progress
  <1>4. CASE row.ray_job_id = None
    BY <1>3, <1>4, RowFacts
  <1>5. CASE row.completion_data = "failure"
    BY <1>2, <1>5, NoneIsNull DEF Inv, RowInv, EnvelopeIsOwn, Envelope
  <1>6. ASSUME NEW v \in Workers, worker[v].pc \in {"reserve", "fail"}, Submission(v) = Identity(row)
        PROVE  FALSE
    <2>1. worker[v].pc \in Submitting /\ v # w
      BY <1>6 DEF Submitting
    <2> QED BY <1>1, <1>6, <2>1 DEF Inv, OneSubmitter
  <1> QED BY <1>4, <1>5, <1>6

\* The execution goes on, at most towards its cancellation or another owner.
LEMMA RowKeeps ==
  ASSUME Inv, NEW w, row' \in Row, attempts' = attempts,
         Identity(row') = Identity(row),
         row'.state = row.state \/ (row.state = "RUNNING" /\ row'.state = "CANCELLING"),
         row'.ray_job_id = row.ray_job_id,
         row'.ray_job_request_reference = row.ray_job_request_reference,
         row'.completion_data = row.completion_data \/ EnvelopeStep,
         \/ row'.claimed_by_worker = row.claimed_by_worker
         \/ /\ w \in Workers /\ MayTakeFrom(w, row.claimed_by_worker)
            /\ row'.claimed_by_worker \in {w, None}
  PROVE  RowStep(w)
  <1>1. row'.attempt_number = row.attempt_number /\ row'.execution_generation = row.execution_generation
    BY DEF Identity
  <1>2. row'.state \in InFlight => row.state \in InFlight
    BY States
  <1>3. row'.state = "RUNNING" => row.state = "RUNNING"
    OBVIOUS
  <1>4. AttemptsWithin' /\ OwnJobId'
    BY <1>1, <1>2 DEF Inv, RowInv, AttemptsWithin, OwnJobId
  <1>5. BoundStep /\ EnvelopeStep
    BY <1>2, <1>3 DEF Inv, RowInv, RunningJobIsBound, EnvelopeIsOwn, BoundStep, EnvelopeStep
  <1>6. row.execution_generation <= row'.execution_generation
    BY <1>1, RowFacts
  <1>7. OwnerStep
    BY Fence, NoneIsNull DEF OwnerStep
  <1>8. ASSUME NEW v \in Workers \ {w} PROVE Undisturbed(v)
    <2>1. ASSUME Live(v), row'.state = "RUNNING", worker[v].tracked = Identity(row')
          PROVE  row'.claimed_by_worker = v
      BY <1>3, <2>1, Fence DEF Inv, WorkerInv, Tracks
    <2> QED BY <1>2, <2>1 DEF Undisturbed, InFlightAs
  <1>9. RequeueStep
    BY DEF RequeueStep
  <1> QED BY <1>4, <1>5, <1>6, <1>7, <1>8, <1>9 DEF RowStep, Inv, TypeOK

LEMMA RowSame ==
  ASSUME Inv, NEW w, UNCHANGED <<row, attempts>>
  PROVE  RowStep(w)
  <1>1. row' = row /\ attempts' = attempts /\ row' \in Row
    BY RowFacts
  <1> QED BY <1>1, RowKeeps

\* The execution is over, or back in the queue.
LEMMA RowLeaves ==
  ASSUME Inv, NEW w, row' \in Row, attempts' \in [Attempts -> Terminal \cup {None}],
         row'.state \notin InFlight, row.execution_generation <= row'.execution_generation,
         row'.attempt_number <= row'.execution_generation + 1,
         OwnerStep, RequeueStep
  PROVE  RowStep(w)
  BY States DEF RowStep, AttemptsWithin, OwnJobId, BoundStep, EnvelopeStep, Undisturbed

\* A claim: the new identity was never submitted and is tracked by nobody.
LEMMA RowClaims ==
  ASSUME Inv, NEW w \in Workers, row.state = "QUEUED",
         row.execution_generation < MaxGeneration, row' = Claimed(row, w), attempts' = attempts
  PROVE  /\ RowStep(w) /\ row'.state = "RUNNING" /\ row'.claimed_by_worker = w
         /\ row'.ray_job_id = None /\ row'.ray_job_request_reference = None
         /\ row'.completion_data = None
         /\ row'.execution_generation = row.execution_generation + 1
         /\ Identity(row') \in Identities /\ jobs[Identity(row')] = "none"
         /\ \A v \in Workers :
               /\ worker[v].pc \in Submitting => Submission(v) # Identity(row')
               /\ worker[v].tracked # Identity(row')
  <1>1. /\ row' \in Row /\ row'.state = "RUNNING" /\ row'.claimed_by_worker = w
        /\ row'.attempt_number = row.attempt_number
        /\ row'.execution_generation = row.execution_generation + 1
    BY RowFacts, StateTransitions
  <1>2. /\ row'.ray_job_id = None /\ row'.ray_job_request_reference = None
        /\ row'.completion_data = None
    BY RowFacts DEF Claimed, Row
  <1>3. row.attempt_number \in Nat /\ row.execution_generation \in Nat /\ Identity(row') \in Identities
    BY <1>1, RowFacts, IdentityType
  <1>4. Identity(row')[2] = row.execution_generation + 1
    BY <1>1 DEF Identity
  <1>5. jobs[Identity(row')] = "none"
    BY <1>3, <1>4 DEF Inv, RowInv, JobsKnown
  <1>6. AttemptsWithin' /\ OwnJobId'
    BY <1>1, <1>2, <1>3, States DEF Inv, RowInv, AttemptsWithin, OwnJobId
  <1>7. BoundStep /\ EnvelopeStep
    BY <1>2, <1>5 DEF BoundStep, EnvelopeStep
  <1>8. OwnerStep
    BY States DEF OwnerStep
  <1>9. ASSUME NEW v \in Workers
        PROVE  /\ worker[v].pc \in Submitting => Submission(v) # Identity(row')
               /\ worker[v].tracked # Identity(row')
    <2>1. ASSUME worker[v].pc \in Submitting, Identity(row') = Submission(v) PROVE FALSE
      <3>1. /\ worker[v].snapshot.execution_generation <= row.execution_generation
            /\ worker[v].snapshot \in Row
        BY <2>1 DEF Inv, WorkerInv, Submits, Snapshots, ReadRunning
      <3>2. worker[v].snapshot.execution_generation = row.execution_generation + 1
        BY <1>1, <2>1 DEF Submission, Identity
      <3> QED BY <1>3, <3>1, <3>2
    <2>2. ASSUME worker[v].tracked = Identity(row') PROVE FALSE
      <3>1. worker[v].tracked # None
        BY <1>3, <2>2, NoneIsNull
      <3>2. worker[v].tracked[2] <= row.execution_generation
        BY <3>1 DEF Inv, WorkerInv, Tracks
      <3> QED BY <1>3, <1>4, <2>2, <3>2
    <2> QED BY <2>1, <2>2
  <1>10. ASSUME NEW v \in Workers PROVE Undisturbed(v)
    BY <1>9 DEF Undisturbed
  <1>11. attempts' \in [Attempts -> Terminal \cup {None}] /\ row.execution_generation <= row'.execution_generation
    BY <1>1, <1>3 DEF Inv, TypeOK
  <1>12. RequeueStep
    BY DEF RequeueStep
  <1> QED BY <1>1, <1>2, <1>3, <1>5, <1>6, <1>7, <1>8, <1>9, <1>10, <1>11, <1>12 DEF RowStep

\* A write of the submitting worker, whom nobody else can stand in for.
LEMMA RowSubmits ==
  ASSUME Inv, NEW w \in Workers, worker[w].pc \in Submitting,
         StillClaimedBy(w, worker[w].snapshot),
         row' \in Row, attempts' = attempts, SameExecution(row', row),
         row'.claimed_by_worker = row.claimed_by_worker,
         row'.completion_data = row.completion_data, OwnJobId', BoundStep
  PROVE  RowStep(w)
  <1>1. Identity(row') = Identity(row) /\ row'.state = row.state
    BY DEF SameExecution, Identity
  <1>2. AttemptsWithin' /\ row.execution_generation <= row'.execution_generation
    BY RowFacts DEF SameExecution, Inv, RowInv, AttemptsWithin
  <1>3. EnvelopeStep
    BY <1>1 DEF Inv, RowInv, EnvelopeIsOwn, EnvelopeStep
  <1>4. OwnerStep
    BY DEF OwnerStep
  <1>5. ASSUME NEW v \in Workers \ {w} PROVE Undisturbed(v)
    <2>1. ASSUME worker[v].pc \in Submitting, Identity(row') = Submission(v) PROVE FALSE
      BY <1>1, <2>1 DEF Inv, OneSubmitter, StillClaimedBy, Submission
    <2>2. ASSUME Live(v), row'.state = "RUNNING", worker[v].tracked = Identity(row')
          PROVE  row'.claimed_by_worker = v
      BY <1>1, <2>2 DEF Inv, WorkerInv, Tracks
    <2> QED BY <2>1, <2>2 DEF Undisturbed
  <1>6. RequeueStep
    BY <1>1 DEF RequeueStep
  <1> QED BY <1>2, <1>3, <1>4, <1>5, <1>6 DEF RowStep, Inv, TypeOK

\* A terminal transition, possibly after an adoption.
LEMMA RowEnds ==
  ASSUME Inv, NEW w \in Workers, NEW s \in Terminal, NEW r, EndAs(r, s),
         r = row \/ (r = Adopted(row, w) /\ MayTakeFrom(w, row.claimed_by_worker))
  PROVE  RowStep(w) /\ row'.state = s
  <1>1. row \in Row /\ s \in TaskState /\ row.execution_generation \in Nat
    BY States, RowFacts
  <1>2. r \in Row /\ SameExecution(r, row) /\ (r # row => r.claimed_by_worker = w)
    BY <1>1, ColumnTransitions DEF SameExecution
  <1>3. /\ row' \in Row /\ row'.state = s
        /\ row'.attempt_number = row.attempt_number
        /\ row'.execution_generation = row.execution_generation
        /\ row'.claimed_by_worker = r.claimed_by_worker
    BY <1>1, <1>2, StateTransitions DEF EndAs, SameExecution
  <1>4. attempts' \in [Attempts -> Terminal \cup {None}]
    BY <1>2, ArchivedType DEF EndAs, Inv, TypeOK
  <1>5. OwnerStep
    <2>1. CASE r = row
      BY <1>3, <2>1 DEF OwnerStep
    <2>2. CASE r # row
      BY <1>2, <1>3, <2>2, Fence DEF OwnerStep
    <2> QED BY <2>1, <2>2
  <1>6. row'.attempt_number <= row'.execution_generation + 1 /\ row'.state \notin InFlight
    BY <1>3, States DEF Inv, RowInv, AttemptsWithin
  <1>7. RequeueStep
    BY <1>3, States DEF RequeueStep
  <1> QED BY <1>1, <1>3, <1>4, <1>5, <1>6, <1>7, RowLeaves

\* Attempts of a running row leave room for another one.
LEMMA RoomForRetry ==
  ASSUME Inv, row.state = "RUNNING"
  PROVE  /\ row \in Row /\ row.attempt_number \in Nat /\ row.execution_generation \in Nat
         /\ row.attempt_number < MaxGeneration + 1
         /\ row.attempt_number <= row.execution_generation
  <1>1. row \in Row /\ row.attempt_number <= row.execution_generation
    BY States DEF Inv, TypeOK, RowInv, AttemptsWithin
  <1> QED BY <1>1, IdentityType, MaxGenerationType

\* A running row goes back to the queue.
LEMMA RowRequeues ==
  ASSUME Inv, NEW w \in Workers, row.state = "RUNNING", ~AboutToSubmit(Identity(row)),
         \/ row' = HandedBack(row) /\ attempts' = attempts
         \/ row' = RequeuedByPolicy(row) /\ attempts' = Archived(attempts, row, "FAILED")
         \/ /\ row.execution_generation < MaxGeneration
            /\ row' = RequeuedByRetry(row) /\ attempts' = Archived(attempts, row, "LOST")
  PROVE  RowStep(w) /\ row'.state = "QUEUED"
  <1>1. /\ row' \in Row /\ row'.state = "QUEUED"
        /\ row'.attempt_number \in {row.attempt_number, row.attempt_number + 1}
        /\ row'.execution_generation \in {row.execution_generation, row.execution_generation + 1}
    BY RoomForRetry, StateTransitions, RequeueTransitions
  <1>2. row'.claimed_by_worker = None
    BY RowFacts DEF HandedBack, RequeuedByPolicy, RequeuedByRetry, Row
  <1>3. attempts' \in [Attempts -> Terminal \cup {None}]
    BY RowFacts, ArchivedType, States DEF Inv, TypeOK
  <1>4. /\ row.execution_generation <= row'.execution_generation
        /\ row'.attempt_number <= row'.execution_generation + 1
    BY <1>1, RoomForRetry
  <1>5. OwnerStep
    BY <1>2, NoneIsNull DEF OwnerStep
  <1>6. RequeueStep
    BY DEF RequeueStep
  <1> QED BY <1>1, <1>3, <1>4, <1>5, <1>6, RowLeaves, States

LEMMA RowFails ==
  ASSUME Inv, NEW w \in Workers, row.state = "RUNNING", NEW b, HandleTaskFailure(b),
         b => ~AboutToSubmit(Identity(row))
  PROVE  RowStep(w) /\ row'.state \in {"FAILED", "QUEUED"}
  <1>1. CASE EndAs(row, "FAILED")
    BY <1>1, RowEnds, States
  <1>2. CASE b /\ row' = RequeuedByPolicy(row) /\ attempts' = Archived(attempts, row, "FAILED")
    BY <1>2, RowRequeues
  <1> QED BY <1>1, <1>2 DEF HandleTaskFailure

-----------------------------------------------------------------------------
(***************************************************************************)
(* What a step keeps of the invariant.                                     *)
(***************************************************************************)

\* A worker that does not move.
LEMMA OthersKeep ==
  ASSUME Inv, NEW w, NEW v \in Workers \ {w}, RowStep(w), worker'[v] = worker[v],
         Live(v)' => Live(v),
         worker[v].pc \in Unsent => jobs'[Submission(v)] = "none"
  PROVE  WorkerInv(v)'
  <1>1. WorkerInv(v) /\ Undisturbed(v) /\ worker[v] \in Worker
    BY DEF Inv, TypeOK, RowStep
  <1>2. /\ row.execution_generation \in Nat /\ row'.execution_generation \in Nat
        /\ row.execution_generation <= row'.execution_generation
    BY RowFacts, IdentityType DEF RowStep
  <1>3. AtRest(v)' /\ Snapshots(v)'
    BY <1>1 DEF WorkerInv, AtRest, Snapshots
  <1>4. Submits(v)'
    <2> SUFFICES ASSUME worker[v].pc \in Submitting
                 PROVE  /\ worker[v].snapshot.execution_generation <= row'.execution_generation
                        /\ worker[v].pc \in Unsent => jobs'[Submission(v)] = "none"
                        /\ InFlightAs(Submission(v))' => Progress(v)'
      BY DEF Submits, Submission
    <2>1. worker[v].snapshot \in Row /\ worker[v].snapshot.execution_generation <= row.execution_generation
      BY <1>1 DEF WorkerInv, Submits, Snapshots, ReadRunning
    <2>2. worker[v].snapshot.execution_generation <= row'.execution_generation
      BY <1>2, <2>1, IdentityType
    <2>3. ASSUME InFlightAs(Submission(v))' PROVE Progress(v)'
      <3>1. row'.state \in InFlight /\ Identity(row') = Submission(v)
        BY <2>3 DEF InFlightAs, Submission
      <3>2. /\ InFlightAs(Submission(v)) /\ row'.ray_job_id = row.ray_job_id
            /\ row'.ray_job_request_reference = row.ray_job_request_reference
        BY <1>1, <3>1 DEF Undisturbed
      <3>3. Progress(v)
        BY <1>1, <3>2 DEF WorkerInv, Submits
      <3> QED BY <3>2, <3>3 DEF Progress, Submission
    <2> QED BY <2>2, <2>3
  <1>5. Tracks(v)'
    <2>1. ASSUME worker[v].tracked # None
          PROVE  worker[v].tracked[2] <= row'.execution_generation
      <3>1. worker[v].tracked \in Identities /\ worker[v].tracked[2] <= row.execution_generation
        BY <1>1, <2>1 DEF WorkerInv, Tracks, Worker
      <3>2. worker[v].tracked[2] \in Nat
        BY <3>1, MaxGenerationType DEF Identities, Generations
      <3> QED BY <1>2, <3>1, <3>2
    <2>2. Live(v)' /\ row'.state = "RUNNING" /\ worker[v].tracked = Identity(row') => row'.claimed_by_worker = v
      BY <1>1 DEF Undisturbed
    <2> QED BY <2>1, <2>2 DEF Tracks
  <1> QED BY <1>3, <1>4, <1>5 DEF WorkerInv

\* The steps of the action property StopsOnlyWithAuthority.
StopStep ==
    \A i \in Identities :
        /\ jobs[i] # "stopping" /\ jobs'[i] = "stopping"
        /\ row.state = "RUNNING" /\ Identity(row) = i
        => \E w \in Workers :
              /\ worker'[w] # worker[w]
              /\ Live(w) /\ MayTakeFrom(w, row.claimed_by_worker)

\* What every step is shown to do.
Good == Inv' /\ OwnerStep /\ RequeueStep /\ StopStep

\* A submission of w goes on, or is of an execution that nobody submits.
SubmitterStep(w) ==
    worker'[w].pc \in Submitting =>
        \/ worker[w].pc \in Submitting /\ Identity(worker'[w].snapshot) = Submission(w)
        \/ \A v \in Workers \ {w} :
              worker[v].pc \in Submitting => Submission(v) # Identity(worker'[w].snapshot)

LEMMA OneSubmitterStep ==
  ASSUME Inv, NEW w \in Workers, WorkerStep(w), SubmitterStep(w)
  PROVE  OneSubmitter'
  <1>1. ASSUME NEW v \in Workers \ {w}, worker'[v].pc \in Submitting, worker'[w].pc \in Submitting,
               Identity(worker'[v].snapshot) = Identity(worker'[w].snapshot)
        PROVE  FALSE
    BY <1>1 DEF Inv, OneSubmitter, Submission, WorkerStep, SubmitterStep
  <1>2. ASSUME NEW v \in Workers \ {w}, NEW u \in Workers \ {w},
               worker'[v].pc \in Submitting, worker'[u].pc \in Submitting,
               Identity(worker'[v].snapshot) = Identity(worker'[u].snapshot)
        PROVE  u = v
    BY <1>2 DEF Inv, OneSubmitter, Submission, WorkerStep
  <1> QED BY <1>1, <1>2 DEF OneSubmitter, Submission

\* What the row step says of the jobs carries over to jobs that only move.
LEMMA RowInvStep ==
  ASSUME Inv, NEW w, RowStep(w), JobsMove
  PROVE  RowInv'
  <1>1. /\ row.execution_generation \in Nat /\ row'.execution_generation \in Nat
        /\ row.execution_generation <= row'.execution_generation /\ Identity(row') \in Identities
    BY RowFacts, IdentityType DEF RowStep
  <1>2. ASSUME NEW i \in Identities, jobs'[i] # "none" PROVE i[2] <= row'.execution_generation
    <2>1. i[2] <= row.execution_generation
      BY <1>2 DEF JobsMove, Inv, RowInv, JobsKnown
    <2>2. i[2] \in Nat
      BY MaxGenerationType DEF Identities, Generations
    <2> QED BY <1>1, <2>1, <2>2
  <1>3. RunningJobIsBound' /\ EnvelopeIsOwn'
    BY <1>1 DEF RowStep, BoundStep, EnvelopeStep, JobsMove, RunningJobIsBound, EnvelopeIsOwn
  <1> QED BY <1>2, <1>3 DEF RowInv, RowStep, JobsKnown

\* A step of w, from what it does to the row, to w, to the jobs and the leases.
LEMMA StepBy ==
  ASSUME Inv, NEW w \in Workers, RowStep(w), WorkerStep(w), WorkerInv(w)', SubmitterStep(w),
         JobsMove, lease' \in [Workers -> LeaseState],
         \A v \in Workers \ {w} : Live(v)' => Live(v), StopStep
  PROVE  Good
  <1>1. TypeOK'
    BY DEF TypeOK, RowStep, WorkerStep, JobsMove
  <1>2. ASSUME NEW v \in Workers \ {w} PROVE WorkerInv(v)'
    <2>1. ASSUME worker[v].pc \in Unsent PROVE jobs'[Submission(v)] = "none"
      <3>1. worker[v].pc \in Submitting
        BY <2>1 DEF Unsent
      <3>2. worker[v].snapshot \in Row /\ jobs[Submission(v)] = "none"
        BY <2>1, <3>1 DEF Inv, WorkerInv, Submits, Snapshots, ReadRunning
      <3>3. Submission(v) \in Identities
        BY <3>2, IdentityType DEF Submission
      <3> QED BY <3>2, <3>3 DEF JobsMove
    <2>2. worker'[v] = worker[v]
      BY DEF WorkerStep
    <2> QED BY <2>1, <2>2, OthersKeep
  <1>3. RowInv' /\ OneSubmitter'
    BY RowInvStep, OneSubmitterStep
  <1> QED BY <1>1, <1>2, <1>3 DEF Good, Inv, RowStep

\* Leases and jobs stay.
LEMMA RowStepBy ==
  ASSUME Inv, NEW w \in Workers, RowStep(w), WorkerStep(w), WorkerInv(w)', SubmitterStep(w),
         UNCHANGED <<lease, jobs>>
  PROVE  Good
  <1>1. /\ lease' \in [Workers -> LeaseState] /\ \A v \in Workers \ {w} : Live(v)' => Live(v)
        /\ StopStep
    BY DEF Inv, TypeOK, Live, StopStep
  <1>2. JobsMove
    BY JobsSame DEF Inv
  <1> QED BY <1>1, <1>2, StepBy

Active(w) == worker[w].phase \in {"up", "stopping"}

\* The row still runs as it did for its owner, or not at all.
SameRun ==
    row'.state = "RUNNING" =>
        /\ row.state = "RUNNING" /\ Identity(row') = Identity(row)
        /\ row'.claimed_by_worker = row.claimed_by_worker

\* What w tracked it may go on tracking.
LEMMA TracksOn ==
  ASSUME Inv, NEW w \in Workers, RowStep(w), SameRun, Live(w)' => Live(w),
         worker'[w].tracked \in {None, worker[w].tracked}
  PROVE  Tracks(w)'
  <1>1. /\ row.execution_generation \in Nat /\ row'.execution_generation \in Nat
        /\ row.execution_generation <= row'.execution_generation
        /\ Identity(row') # None
    BY RowFacts, IdentityType, NoneIsNull DEF RowStep
  <1>2. ASSUME worker[w].tracked # None
        PROVE  worker[w].tracked[2] <= row'.execution_generation
    <2>1. worker[w].tracked \in Identities /\ worker[w].tracked[2] <= row.execution_generation
      BY <1>2, RowFacts DEF Inv, WorkerInv, Tracks, Worker
    <2>2. worker[w].tracked[2] \in Nat
      BY <2>1, MaxGenerationType DEF Identities, Generations
    <2> QED BY <1>1, <2>1, <2>2
  <1>3. ASSUME Live(w)', row'.state = "RUNNING", worker[w].tracked = Identity(row')
        PROVE  row'.claimed_by_worker = w
    BY <1>3 DEF Inv, WorkerInv, Tracks, SameRun
  <1> QED BY <1>1, <1>2, <1>3 DEF Tracks

\* Back to the loop.
LEMMA ReturnKeeps ==
  ASSUME Inv, NEW w \in Workers, Active(w), NEW t \in {None, worker[w].tracked}, Return(w, t),
         RowStep(w), SameRun, Live(w)' => Live(w)
  PROVE  WorkerInv(w)' /\ WorkerStep(w) /\ SubmitterStep(w) /\ worker'[w].pc = "idle"
  <1>1. t \in Trackable
    BY RowFacts DEF Worker, Trackable
  <1>2. /\ WorkerStep(w)
        /\ worker'[w].pc = "idle" /\ worker'[w].tracked = t
        /\ worker'[w].phase = worker[w].phase
    BY <1>1, RowFacts, ReturnMoves
  <1>3. AtRest(w)' /\ Snapshots(w)' /\ Submits(w)' /\ SubmitterStep(w)
    BY <1>2 DEF AtRest, Snapshots, Submits, SubmitterStep, Active, ReadRunning, ReadOwn, Submitting, Reserved
  <1> QED BY <1>2, <1>3, TracksOn DEF WorkerInv

\* Writing the row and going back to the loop.
LEMMA WriteAndReturn ==
  ASSUME Inv, NEW w \in Workers, Active(w), NEW t \in {None, worker[w].tracked}, Return(w, t),
         RowStep(w), SameRun, UNCHANGED <<lease, jobs>>
  PROVE  Good
  <1>1. Live(w)' => Live(w)
    BY DEF Live
  <1> QED BY <1>1, ReturnKeeps, RowStepBy

LEMMA ReturnOnly ==
  ASSUME Inv, NEW w \in Workers, Active(w), NEW t \in {None, worker[w].tracked}, Return(w, t),
         UNCHANGED <<row, attempts, lease, jobs>>
  PROVE  Good
  <1>1. RowStep(w) /\ SameRun
    BY RowSame DEF SameRun
  <1> QED BY <1>1, WriteAndReturn

\* On with what w read.
LEMMA RememberOnly ==
  ASSUME Inv, NEW w \in Workers, NEW pc \in Steps \ Submitting, Active(w),
         worker[w].pc # "release", Remember(w, pc, row),
         pc \in ReadRunning => row.state = "RUNNING",
         pc = "cancel" => row.state = "CANCELLING",
         pc \in ReadOwn => row.claimed_by_worker = w,
         pc \in {"lost", "overtime"} => row.completion_data = None,
         pc = "lost" => row.ray_job_id = None,
         UNCHANGED <<row, attempts, lease, jobs>>
  PROVE  Good
  <1>1. RowStep(w) /\ SameRun
    BY RowSame DEF SameRun
  <1>2. /\ WorkerStep(w)
        /\ worker'[w].pc = pc /\ worker'[w].tracked = worker[w].tracked
        /\ worker'[w].phase = worker[w].phase /\ worker'[w].snapshot = row
    BY RowFacts, RememberMoves
  <1>3. AtRest(w)' /\ Submits(w)' /\ SubmitterStep(w)
    BY <1>2 DEF AtRest, Submits, SubmitterStep, Active
  <1>4. Snapshots(w)'
    BY <1>2, RowFacts DEF Snapshots, Submitting, Reserved
  <1>5. Tracks(w)'
    BY <1>1, <1>2, TracksOn DEF Live
  <1> QED BY <1>1, <1>2, <1>3, <1>4, <1>5, RowStepBy DEF WorkerInv

-----------------------------------------------------------------------------
(***************************************************************************)
(* Process life.                                                           *)
(***************************************************************************)

\* A worker at the head of its loop, or down, that tracks nothing.
LEMMA NoWork ==
  ASSUME NEW w \in Workers, worker'[w].pc = "idle", worker'[w].tracked = None,
         row' \in Row
  PROVE  WorkerInv(w)' /\ SubmitterStep(w)
  <1>1. AtRest(w)' /\ Snapshots(w)' /\ Submits(w)' /\ SubmitterStep(w)
    BY DEF AtRest, Snapshots, Submits, SubmitterStep, ReadRunning, ReadOwn, Submitting, Reserved
  <1>2. Identity(row') # None
    BY IdentityType, NoneIsNull
  <1> QED BY <1>1, <1>2 DEF WorkerInv, Tracks

\* Only the lease of w changes.
LEMMA LeaseStep ==
  ASSUME Inv, NEW w \in Workers, NEW s \in LeaseState, lease' = [lease EXCEPT ![w] = s]
  PROVE  /\ lease' \in [Workers -> LeaseState]
         /\ \A v \in Workers \ {w} : Live(v)' => Live(v)
         /\ lease'[w] = s
  BY DEF Inv, TypeOK, Live

LEMMA NothingStops ==
  ASSUME UNCHANGED jobs
  PROVE  StopStep
  BY DEF StopStep

LEMMA BootStep ==
  ASSUME Inv, NEW w \in Workers, Boot(w)
  PROVE  Good
  <1> DEFINE k == [worker[w] EXCEPT !.phase = "up"]
  <1>1. worker[w].pc = "idle" /\ worker[w].tracked = None
    BY DEF Boot, Inv, WorkerInv, AtRest
  <1>2. k \in Worker /\ k.pc = worker[w].pc /\ k.tracked = worker[w].tracked
    BY RowFacts DEF Worker
  <1>3. worker' = [worker EXCEPT ![w] = k]
    BY RowFacts DEF Boot
  <1> HIDE DEF k
  <1>4. WorkerStep(w) /\ worker'[w] = k
    BY <1>2, <1>3, RowFacts, OneMoves
  <1>5. WorkerInv(w)' /\ SubmitterStep(w)
    BY <1>1, <1>2, <1>4, NoWork, RowFacts DEF Boot
  <1>6. RowStep(w) /\ JobsMove /\ StopStep
    BY <1>1, RowSame, JobsSame, NothingStops DEF Boot, Inv
  <1>7. "live" \in LeaseState
    BY DEF LeaseState
  <1> QED BY <1>4, <1>5, <1>6, <1>7, LeaseStep, StepBy DEF Boot

\* A process that is gone neither submits nor tracks.
LEMMA Goes ==
  ASSUME Inv, NEW w \in Workers, Active(w), row' = row,
         worker' = [worker EXCEPT ![w] = [Unstarted EXCEPT !.phase = "down"]]
  PROVE  /\ WorkerStep(w) /\ WorkerInv(w)' /\ SubmitterStep(w)
         /\ worker'[w] # worker[w]
  <1> DEFINE k == [Unstarted EXCEPT !.phase = "down"]
  <1>1. k \in Worker /\ k.pc = "idle" /\ k.tracked = None /\ k.phase = "down"
    BY DEF Unstarted, Worker, Steps
  <1> HIDE DEF k
  <1>2. WorkerStep(w) /\ worker'[w] = k
    BY <1>1, RowFacts, OneMoves DEF k
  <1>3. WorkerInv(w)' /\ SubmitterStep(w)
    BY <1>1, <1>2, NoWork, RowFacts
  <1>4. worker'[w].phase # worker[w].phase
    BY <1>1, <1>2 DEF Active
  <1> QED BY <1>2, <1>3, <1>4

LEMMA CrashStep ==
  ASSUME Inv, NEW w \in Workers, Crash(w)
  PROVE  Good
  BY Goes, RowSame, RowStepBy DEF Crash, Active

LEMMA LoseLeaseStep ==
  ASSUME Inv, NEW w \in Workers, LoseLease(w)
  PROVE  Good
  <1>1. Active(w) /\ RowStep(w) /\ JobsMove /\ StopStep
    BY RowSame, JobsSame, NothingStops DEF LoseLease, Inv, At, Active
  <1>2. "dead" \in LeaseState
    BY DEF LeaseState
  <1> QED BY <1>1, <1>2, Goes, LeaseStep, StepBy DEF LoseLease

LEMMA LeaseAgesStep ==
  ASSUME Inv, NEW w \in Workers, LeaseAges(w)
  PROVE  Good
  <1>1. RowStep(w) /\ JobsMove /\ StopStep /\ "dead" \in LeaseState
    BY RowSame, JobsSame, NothingStops DEF LeaseAges, Inv, LeaseState
  <1>2. worker' = worker /\ row' = row /\ jobs' = jobs
    BY DEF LeaseAges
  <1>3. WorkerStep(w) /\ SubmitterStep(w)
    BY <1>2, RowFacts DEF WorkerStep, SubmitterStep, Submission
  <1>4. ~Live(w)'
    BY <1>1, LeaseStep DEF LeaseAges, Live
  <1>5. WorkerInv(w)'
    BY <1>2, <1>4 DEF Inv, WorkerInv, AtRest, Snapshots, Submits, Submission, InFlightAs, Progress, Tracks
  <1> QED BY <1>1, <1>3, <1>5, LeaseStep, StepBy DEF LeaseAges

LEMMA SignalStep ==
  ASSUME Inv, NEW w \in Workers, Signal(w)
  PROVE  Good
  <1> DEFINE k == [worker[w] EXCEPT !.phase = "stopping"]
  <1>1. /\ k \in Worker /\ k.phase = "stopping" /\ k.pc = worker[w].pc
        /\ k.tracked = worker[w].tracked /\ k.snapshot = worker[w].snapshot
    BY RowFacts DEF Worker
  <1>2. worker' = [worker EXCEPT ![w] = k]
    BY RowFacts DEF Signal
  <1> HIDE DEF k
  <1>3. WorkerStep(w) /\ worker'[w] = k /\ RowStep(w)
    BY <1>1, <1>2, RowFacts, OneMoves, RowSame DEF Signal
  <1>4. AtRest(w)' /\ Snapshots(w)'
    BY <1>1, <1>3 DEF Inv, WorkerInv, AtRest, Snapshots
  <1>5. Submits(w)' /\ SubmitterStep(w)
    BY <1>1, <1>3 DEF Signal, Inv, WorkerInv, Submits, Submission, InFlightAs, Progress, SubmitterStep
  <1>6. Tracks(w)'
    BY <1>1, <1>3, TracksOn DEF Signal, SameRun, Live
  <1> QED BY <1>3, <1>4, <1>5, <1>6, RowStepBy DEF WorkerInv, Signal

LEMMA StoppedStep ==
  ASSUME Inv, NEW w \in Workers, Stopped(w)
  PROVE  Good
  <1> DEFINE k == [worker[w] EXCEPT !.phase = "down"]
  <1>1. k \in Worker /\ k.pc = worker[w].pc /\ k.tracked = worker[w].tracked
    BY RowFacts DEF Worker
  <1>2. worker' = [worker EXCEPT ![w] = k]
    BY RowFacts DEF Stopped
  <1> HIDE DEF k
  <1>3. WorkerStep(w) /\ worker'[w] = k
    BY <1>1, <1>2, RowFacts, OneMoves
  <1>4. WorkerInv(w)' /\ SubmitterStep(w)
    BY <1>1, <1>3, NoWork, RowFacts DEF Stopped
  <1>5. RowStep(w) /\ JobsMove /\ StopStep
    BY RowSame, JobsSame, NothingStops DEF Stopped, Inv
  <1>6. "dead" \in LeaseState
    BY DEF LeaseState
  <1> QED BY <1>3, <1>4, <1>5, <1>6, LeaseStep, StepBy DEF Stopped

-----------------------------------------------------------------------------
(***************************************************************************)
(* Fences.                                                                 *)
(***************************************************************************)

\* What a fence on a row read as RUNNING shows.
LEMMA ExactFence ==
  ASSUME Inv, NEW w \in Workers, Exact(worker[w].snapshot), worker[w].pc \in ReadRunning
  PROVE  /\ row.state = "RUNNING"
         /\ row.claimed_by_worker = worker[w].snapshot.claimed_by_worker
         /\ row.completion_data = worker[w].snapshot.completion_data
         /\ row.ray_job_id = worker[w].snapshot.ray_job_id
         /\ Identity(row) = Identity(worker[w].snapshot)
         /\ worker[w].pc \in ReadOwn => row.claimed_by_worker = w
         /\ worker[w].pc \in {"claimed", "reserve", "lost"} =>
               row.ray_job_id = None /\ row.completion_data = None
         /\ worker[w].pc = "overtime" => row.completion_data = None
  BY DEF Exact, Inv, WorkerInv, Snapshots

\* The takeover transaction is of a row that is nobody's, one's own or a dead worker's.
LEMMA TakeoverFence ==
  ASSUME NEW w, TakesOver(w)
  PROVE  MayTakeFrom(w, row.claimed_by_worker)
  BY DEF TakesOver, Exact

LEMMA OwnFence ==
  ASSUME NEW w \in Workers, row.claimed_by_worker = w
  PROVE  MayTakeFrom(w, row.claimed_by_worker)
  BY DEF MayTakeFrom

-----------------------------------------------------------------------------
(***************************************************************************)
(* Steps that only read the row.                                           *)
(***************************************************************************)
LEMMA ReadHandoffStep ==
  ASSUME Inv, NEW w \in Workers, ReadHandoff(w)
  PROVE  Good
  <1>1. Active(w) /\ worker[w].pc = "idle" /\ UNCHANGED <<row, attempts, lease, jobs>>
    BY DEF ReadHandoff, Active
  <1>2. CASE Remember(w, "handoff", row)
    BY <1>1, <1>2, RememberOnly DEF Steps, Submitting, ReadRunning, ReadOwn
  <1>3. CASE Return(w, None)
    BY <1>1, <1>3, ReturnOnly
  <1> QED BY <1>2, <1>3 DEF ReadHandoff

LEMMA ReadTrackedStep ==
  ASSUME Inv, NEW w \in Workers, NEW pc \in {"poll", "consume"}, ReadTracked(w, pc)
  PROVE  Good
  <1>1. Active(w) /\ worker[w].pc = "idle" /\ UNCHANGED <<row, attempts, lease, jobs>>
    BY DEF ReadTracked, Looping, Active
  <1>2. CASE row.claimed_by_worker = w /\ row.state = "RUNNING" /\ Remember(w, pc, row)
    BY <1>1, <1>2, RememberOnly DEF Steps, Submitting
  <1>3. CASE Return(w, None)
    BY <1>1, <1>3, ReturnOnly
  <1> QED BY <1>2, <1>3 DEF ReadTracked

LEMMA ReconcileStep ==
  ASSUME Inv, NEW w \in Workers, PollCompletion(w) \/ ReconcileTracked(w)
  PROVE  Good
  <1>1. CASE ReadTracked(w, "poll") \/ ReadTracked(w, "consume")
    BY <1>1, ReadTrackedStep
  <1>2. CASE Looping(w) /\ Remember(w, "adopt", row) /\ UNCHANGED <<row, attempts, lease, jobs>>
    BY <1>2, RememberOnly DEF Looping, Active, Steps, Submitting, ReadRunning, ReadOwn
  <1> QED BY <1>1, <1>2 DEF PollCompletion, ReconcileTracked

LEMMA ReadOrphanStep ==
  ASSUME Inv, NEW w \in Workers, ReadOrphan(w)
  PROVE  Good
  <1>1. Active(w) /\ worker[w].pc = "idle" /\ Remember(w, "adopt", row)
        /\ UNCHANGED <<row, attempts, lease, jobs>>
    BY DEF ReadOrphan, Looping, Active
  <1> QED BY <1>1, RememberOnly DEF Steps, Submitting, ReadRunning, ReadOwn

LEMMA ReadStuckStep ==
  ASSUME Inv, NEW w \in Workers, ReadStuck(w)
  PROVE  Good
  <1>1. /\ Active(w) /\ worker[w].pc = "idle" /\ row.state = "RUNNING"
        /\ row.completion_data = None /\ UNCHANGED <<row, attempts, lease, jobs>>
    BY DEF ReadStuck, Looping, Active
  <1>2. CASE Remember(w, "overtime", row)
    BY <1>1, <1>2, RememberOnly DEF Steps, Submitting, ReadOwn
  <1>3. CASE row.ray_job_id = None /\ Remember(w, "lost", row)
    BY <1>1, <1>3, RememberOnly DEF Steps, Submitting, ReadOwn
  <1> QED BY <1>2, <1>3 DEF ReadStuck

LEMMA ReadCancellingStep ==
  ASSUME Inv, NEW w \in Workers, ReadCancelling(w)
  PROVE  Good
  <1>1. /\ Active(w) /\ worker[w].pc = "idle" /\ row.state = "CANCELLING"
        /\ Remember(w, "cancel", row) /\ UNCHANGED <<row, attempts, lease, jobs>>
    BY DEF ReadCancelling, Looping, Active
  <1> QED BY <1>1, RememberOnly DEF Steps, Submitting, ReadRunning, ReadOwn

LEMMA RefreshStep ==
  ASSUME Inv, NEW w \in Workers, Refresh(w)
  PROVE  Good
  <1>1. Active(w) /\ worker[w].pc = "refresh" /\ UNCHANGED <<row, attempts, lease, jobs>>
    BY DEF Refresh, At, Active
  <1>2. CASE row.claimed_by_worker = w /\ row.state = "RUNNING" /\ Remember(w, "decide", row)
    BY <1>1, <1>2, RememberOnly DEF Steps, Submitting
  <1>3. CASE Return(w, None)
    BY <1>1, <1>3, ReturnOnly
  <1> QED BY <1>2, <1>3 DEF Refresh

\* Between the check for an envelope and the refresh nothing is claimed of the row.
LEMMA Asking ==
  ASSUME Inv, NEW w \in Workers, Active(w), worker[w].pc # "release", WorkerStep(w),
         worker'[w].pc \in {"status", "refresh"}, worker'[w].tracked = worker[w].tracked,
         worker'[w].phase = worker[w].phase, UNCHANGED <<row, attempts, lease, jobs>>
  PROVE  Good
  <1>1. RowStep(w) /\ SameRun
    BY RowSame DEF SameRun
  <1>2. AtRest(w)' /\ Snapshots(w)' /\ Submits(w)' /\ SubmitterStep(w)
    BY DEF AtRest, Snapshots, Submits, SubmitterStep, Active, ReadRunning, ReadOwn, Submitting, Reserved
  <1>3. Tracks(w)'
    BY <1>1, TracksOn DEF Live
  <1> QED BY <1>1, <1>2, <1>3, RowStepBy DEF WorkerInv

LEMMA ConsumeNothingStep ==
  ASSUME Inv, NEW w \in Workers, ConsumeNothing(w)
  PROVE  Good
  <1>1. Active(w) /\ worker[w].pc # "release" /\ UNCHANGED <<row, attempts, lease, jobs>>
    BY DEF ConsumeNothing, At, Active
  <1>2. CASE Return(w, worker[w].tracked)
    BY <1>1, <1>2, ReturnOnly
  <1>3. CASE Goto(w, "status")
    <2>1. /\ WorkerStep(w) /\ worker'[w].pc = "status"
          /\ worker'[w].tracked = worker[w].tracked /\ worker'[w].phase = worker[w].phase
      BY <1>3, RowFacts, GotoMoves DEF Steps
    <2> QED BY <1>1, <2>1, Asking
  <1> QED BY <1>2, <1>3 DEF ConsumeNothing

LEMMA GetStatusStep ==
  ASSUME Inv, NEW w \in Workers, GetStatus(w)
  PROVE  Good
  <1>1. Active(w) /\ worker[w].pc # "release" /\ UNCHANGED <<row, attempts, lease, jobs>>
    BY DEF GetStatus, At, Active
  <1>2. PICK st \in JobStatus : worker' = [worker EXCEPT ![w].pc = "refresh", ![w].status = st]
    BY DEF GetStatus, Reported, JobStatus
  <1> DEFINE k == [worker[w] EXCEPT !.pc = "refresh", !.status = st]
  <1>3. k \in Worker /\ k.pc = "refresh" /\ k.tracked = worker[w].tracked /\ k.phase = worker[w].phase
    <2>1. st \in JobStatus \cup {None} /\ worker[w] \in Worker /\ "refresh" \in Steps
      BY RowFacts DEF Steps
    <2> QED BY <2>1 DEF Worker
  <1>4. worker' = [worker EXCEPT ![w] = k]
    BY <1>2, RowFacts
  <1> HIDE DEF k
  <1>5. WorkerStep(w) /\ worker'[w] = k
    BY <1>3, <1>4, RowFacts, OneMoves
  <1> QED BY <1>1, <1>3, <1>5, Asking

-----------------------------------------------------------------------------
(***************************************************************************)
(* Claim and submission.                                                   *)
(***************************************************************************)

\* Writing the row and tracking nothing any more.
LEMMA WriteAndForget ==
  ASSUME Inv, NEW w \in Workers, Active(w), Return(w, None), RowStep(w),
         UNCHANGED <<lease, jobs>>
  PROVE  Good
  <1>1. WorkerStep(w) /\ worker'[w].pc = "idle" /\ worker'[w].tracked = None
    BY RowFacts, ReturnMoves DEF Trackable
  <1>2. WorkerInv(w)' /\ SubmitterStep(w)
    BY <1>1, NoWork DEF RowStep
  <1> QED BY <1>1, <1>2, RowStepBy

LEMMA HandoffStep ==
  ASSUME Inv, NEW w \in Workers, Handoff(w)
  PROVE  Good
  <1>1. /\ Active(w) /\ worker[w].pc = "handoff" /\ Return(w, None)
        /\ UNCHANGED <<attempts, lease, jobs>>
    BY DEF Handoff, At, Active
  <1>2. CASE UNCHANGED row
    BY <1>1, <1>2, RowSame, WriteAndForget
  <1>3. CASE /\ worker[w].snapshot.claimed_by_worker \in {w, None}
             /\ Exact(worker[w].snapshot) /\ row' = Disowned(row)
    <2>1. MayTakeFrom(w, row.claimed_by_worker)
      BY <1>3 DEF Exact, MayTakeFrom
    <2>2. row' \in Row /\ SameExecution(row', row) /\ row'.claimed_by_worker = None
      BY <1>3, RowFacts, ColumnTransitions
    <2>3. /\ row'.ray_job_id = row.ray_job_id /\ row'.completion_data = row.completion_data
          /\ row'.ray_job_request_reference = row.ray_job_request_reference
      BY <1>3, RowFacts DEF Disowned, Row
    <2>4. RowStep(w)
      BY <1>1, <2>1, <2>2, <2>3, RowKeeps DEF SameExecution, Identity
    <2> QED BY <1>1, <2>4, WriteAndForget
  <1> QED BY <1>2, <1>3 DEF Handoff

LEMMA ExpireQueuedStep ==
  ASSUME Inv, NEW w \in Workers, ExpireQueued(w)
  PROVE  Good
  <1>1. RowStep(w) /\ row'.state = "EXPIRED"
    BY RowEnds, States DEF ExpireQueued
  <1>2. worker' = worker /\ worker[w].pc = "idle" /\ worker[w].phase = "up" /\ UNCHANGED <<lease, jobs>>
    BY DEF ExpireQueued, Looping
  <1>3. WorkerStep(w) /\ SubmitterStep(w)
    BY <1>2, RowFacts DEF WorkerStep, SubmitterStep, Submission
  <1>4. AtRest(w)' /\ Snapshots(w)' /\ Submits(w)'
    BY <1>2 DEF AtRest, Snapshots, Submits, ReadRunning, ReadOwn, Submitting, Reserved
  <1>5. Tracks(w)'
    BY <1>1, <1>2, TracksOn DEF SameRun, Live
  <1> QED BY <1>1, <1>2, <1>3, <1>4, <1>5, RowStepBy DEF WorkerInv

LEMMA ClaimStep ==
  ASSUME Inv, NEW w \in Workers, Claim(w)
  PROVE  Good
  <1>1. /\ row.state = "QUEUED" /\ row.execution_generation < MaxGeneration
        /\ row' = Claimed(row, w) /\ Remember(w, "claimed", row')
        /\ worker[w].phase = "up" /\ worker[w].pc = "idle" /\ UNCHANGED <<attempts, lease, jobs>>
    BY DEF Claim, Looping
  <1>2. /\ RowStep(w) /\ row'.state = "RUNNING" /\ row'.claimed_by_worker = w
        /\ row'.ray_job_id = None /\ row'.ray_job_request_reference = None
        /\ row'.completion_data = None
        /\ row'.execution_generation = row.execution_generation + 1
        /\ Identity(row') \in Identities /\ jobs[Identity(row')] = "none"
        /\ \A v \in Workers :
               /\ worker[v].pc \in Submitting => Submission(v) # Identity(row')
               /\ worker[v].tracked # Identity(row')
    BY <1>1, RowClaims
  <1>3. row' \in Row /\ row'.execution_generation \in Nat /\ row.execution_generation \in Nat
    BY <1>2, RowFacts, IdentityType DEF RowStep
  <1>4. PICK r \in Row : r = row'
    BY <1>3
  <1>5. /\ WorkerStep(w)
        /\ worker'[w].pc = "claimed" /\ worker'[w].tracked = worker[w].tracked
        /\ worker'[w].phase = worker[w].phase /\ worker'[w].snapshot = row'
    BY <1>1, <1>4, RowFacts, RememberMoves DEF Steps
  <1>6. AtRest(w)' /\ SubmitterStep(w)
    BY <1>1, <1>2, <1>5 DEF AtRest, SubmitterStep
  <1>7. Snapshots(w)'
    BY <1>2, <1>3, <1>5 DEF Snapshots, Reserved
  <1>8. Submits(w)'
    BY <1>1, <1>2, <1>3, <1>5 DEF Submits, Submission, Progress, Reserved
  <1>9. Tracks(w)'
    <2>1. ASSUME worker[w].tracked # None
          PROVE  worker[w].tracked[2] <= row'.execution_generation
      <3>1. worker[w].tracked \in Identities /\ worker[w].tracked[2] <= row.execution_generation
        BY <2>1, RowFacts DEF Inv, WorkerInv, Tracks, Worker
      <3>2. worker[w].tracked[2] \in Nat
        BY <3>1, MaxGenerationType DEF Identities, Generations
      <3> QED BY <1>2, <1>3, <3>1, <3>2
    <2> QED BY <1>2, <1>5, <2>1 DEF Tracks
  <1> QED BY <1>1, <1>2, <1>5, <1>6, <1>7, <1>8, <1>9, RowStepBy DEF WorkerInv

LEMMA HandBackStep ==
  ASSUME Inv, NEW w \in Workers, HandBack(w)
  PROVE  Good
  <1>1. /\ Active(w) /\ worker[w].pc = "claimed" /\ Return(w, worker[w].tracked)
        /\ UNCHANGED <<attempts, lease, jobs>>
    BY DEF HandBack, At, Active
  <1>2. CASE ~Exact(worker[w].snapshot)
    BY <1>1, <1>2, ReturnOnly DEF HandBack
  <1>3. CASE Exact(worker[w].snapshot)
    <2>1. row.state = "RUNNING" /\ row.ray_job_id = None /\ row' = HandedBack(row)
      BY <1>1, <1>3, ExactFence DEF HandBack, ReadRunning, Submitting
    <2>2. RowStep(w) /\ SameRun
      BY <1>1, <2>1, NobodySubmits, RowRequeues DEF SameRun
    <2> QED BY <1>1, <2>2, WriteAndReturn
  <1> QED BY <1>2, <1>3

\* A submission goes on, for the same execution.
LEMMA SubmitsOn ==
  ASSUME Inv, NEW w \in Workers, Active(w), WorkerStep(w), RowStep(w),
         worker[w].pc \in Submitting, worker'[w].pc \in Submitting,
         worker'[w].phase = worker[w].phase,
         worker'[w].snapshot \in Row, worker'[w].snapshot.state = "RUNNING",
         worker'[w].snapshot.claimed_by_worker = w,
         Identity(worker'[w].snapshot) = Submission(w),
         worker'[w].pc = "reserve" =>
            /\ worker'[w].snapshot.ray_job_id = None /\ worker'[w].snapshot.completion_data = None
            /\ worker'[w].snapshot.ray_job_request_reference = None,
         worker'[w].pc # "claimed",
         worker'[w].pc \in Reserved => worker'[w].snapshot.ray_job_id = Submission(w),
         worker'[w].pc = "submit" => worker'[w].snapshot.ray_job_request_reference = Submission(w),
         worker'[w].pc \in Unsent => jobs'[Submission(w)] = "none",
         row'.state \in InFlight /\ Identity(row') = Submission(w) => Progress(w)',
         Tracks(w)'
  PROVE  WorkerInv(w)' /\ SubmitterStep(w)
  <1>1. worker[w].snapshot \in Row /\ worker[w].snapshot.execution_generation <= row.execution_generation
    BY DEF Inv, WorkerInv, Snapshots, Submits, ReadRunning
  <1>2. worker'[w].snapshot.execution_generation = worker[w].snapshot.execution_generation
    BY DEF Submission, Identity
  <1>3. /\ worker[w].snapshot.execution_generation \in Nat /\ row.execution_generation \in Nat
        /\ row'.execution_generation \in Nat
        /\ row.execution_generation <= row'.execution_generation
    BY <1>1, RowFacts, IdentityType DEF RowStep
  <1>4. worker'[w].snapshot.execution_generation <= row'.execution_generation
    BY <1>1, <1>2, <1>3
  <1>5. AtRest(w)' /\ SubmitterStep(w)
    BY DEF AtRest, SubmitterStep, Active
  <1>6. Snapshots(w)'
    BY DEF Snapshots, Submission, Submitting
  <1>7. Submits(w)'
    BY <1>4 DEF Submits, Submission, InFlightAs
  <1> QED BY <1>5, <1>6, <1>7 DEF WorkerInv

\* What a submitting worker knows.
LEMMA SubmitterFacts ==
  ASSUME Inv, NEW w \in Workers, worker[w].pc \in Submitting
  PROVE  /\ worker[w].snapshot \in Row /\ worker[w].snapshot.state = "RUNNING"
         /\ worker[w].snapshot.claimed_by_worker = w /\ Submission(w) \in Identities
         /\ worker[w].snapshot.execution_generation <= row.execution_generation
         /\ Submission(w)[2] = worker[w].snapshot.execution_generation
         /\ worker[w].pc \in Unsent => jobs[Submission(w)] = "none"
         /\ row.state \in InFlight /\ Identity(row) = Submission(w) => Progress(w)
  <1>1. /\ worker[w].snapshot \in Row /\ worker[w].snapshot.state = "RUNNING"
        /\ worker[w].snapshot.claimed_by_worker = w
    BY DEF Inv, WorkerInv, Snapshots, ReadRunning, ReadOwn
  <1>2. Submission(w) \in Identities /\ Submission(w)[2] = worker[w].snapshot.execution_generation
    BY <1>1, IdentityType DEF Submission, Identity
  <1> QED BY <1>1, <1>2 DEF Inv, WorkerInv, Submits, InFlightAs

LEMMA ProcessTaskStep ==
  ASSUME Inv, NEW w \in Workers, ProcessTask(w)
  PROVE  Good
  <1>1. /\ Active(w) /\ worker[w].pc = "claimed" /\ Goto(w, "reserve")
        /\ UNCHANGED <<row, attempts, lease, jobs>>
    BY DEF ProcessTask, At, Active
  <1>2. /\ WorkerStep(w) /\ worker'[w].pc = "reserve" /\ worker'[w].tracked = worker[w].tracked
        /\ worker'[w].phase = worker[w].phase /\ worker'[w].snapshot = worker[w].snapshot
    BY <1>1, RowFacts, GotoMoves DEF Steps
  <1>3. RowStep(w) /\ SameRun
    BY <1>1, RowSame DEF SameRun
  <1>4. Tracks(w)'
    BY <1>1, <1>2, <1>3, TracksOn DEF Live
  <1>5. worker[w].pc \in Submitting /\ worker[w].pc \in Unsent /\ worker'[w].pc \in Submitting
    BY <1>1, <1>2 DEF Submitting, Unsent
  <1>6. row'.state \in InFlight /\ Identity(row') = Submission(w) => Progress(w)'
    BY <1>1, <1>2, <1>5, SubmitterFacts DEF Progress, Submission, Unreserving, Unbound, Reserved
  <1>7. /\ worker[w].snapshot.ray_job_id = None /\ worker[w].snapshot.completion_data = None
        /\ worker[w].snapshot.ray_job_request_reference = None
    BY <1>1 DEF Inv, WorkerInv, Snapshots
  <1>8. worker'[w].pc \notin Reserved
    BY <1>2 DEF Reserved
  <1>9. WorkerInv(w)' /\ SubmitterStep(w)
    BY <1>1, <1>2, <1>3, <1>4, <1>5, <1>6, <1>7, <1>8, SubmitterFacts, SubmitsOn DEF Submission
  <1> QED BY <1>1, <1>2, <1>3, <1>9, RowStepBy

\* The columns that the submission writes.
LEMMA SubmissionColumns ==
  ASSUME NEW r \in Row
  PROVE  /\ Tracked(r).ray_job_id = Identity(r)
         /\ Tracked(r).ray_job_request_reference = r.ray_job_request_reference
         /\ Tracked(r).completion_data = r.completion_data
         /\ Attached(r).ray_job_id = r.ray_job_id
         /\ Attached(r).ray_job_request_reference = Identity(r)
         /\ Attached(r).completion_data = r.completion_data
         /\ Unreserved(r).ray_job_id = None
         /\ Unreserved(r).ray_job_request_reference = None
         /\ Unreserved(r).completion_data = r.completion_data
         /\ Monitored(r).ray_job_id = r.ray_job_id
         /\ Monitored(r).ray_job_request_reference = r.ray_job_request_reference
         /\ Monitored(r).completion_data = r.completion_data
  BY DEF Row, Tracked, Attached, Unreserved, Monitored

\* The same execution, for a copy of a row as for the row.
LEMMA SameIdentity ==
  ASSUME NEW q, NEW r, SameExecution(q, r)
  PROVE  Identity(q) = Identity(r) /\ q.state = r.state
  BY DEF SameExecution, Identity

\* The submitting worker that still holds its claim.
LEMMA SubmitterHolds ==
  ASSUME Inv, NEW w \in Workers, worker[w].pc \in Submitting, StillClaimedBy(w, worker[w].snapshot)
  PROVE  /\ row.state = "RUNNING" /\ Identity(row) = Submission(w) /\ row.claimed_by_worker = w
         /\ Progress(w)
  BY SubmitterFacts, States DEF StillClaimedBy, Submission

\* A submission goes on with the snapshot it has, or with one that has learnt the
\* request, on a row that stays the same execution under the same owner.
LEMMA SubmitGoesOn ==
  ASSUME Inv, NEW w \in Workers, Active(w), WorkerStep(w), RowStep(w), SameRun,
         UNCHANGED <<lease, jobs>>,
         worker[w].pc \in Submitting, worker'[w].pc \in Submitting \ {"claimed", "reserve"},
         worker'[w].phase = worker[w].phase, worker'[w].tracked = worker[w].tracked,
         worker'[w].snapshot \in Row, SameExecution(worker'[w].snapshot, worker[w].snapshot),
         worker'[w].snapshot.claimed_by_worker = w,
         worker'[w].pc \in Reserved => worker'[w].snapshot.ray_job_id = Submission(w),
         worker'[w].pc = "submit" => worker'[w].snapshot.ray_job_request_reference = Submission(w),
         worker'[w].pc \in Unsent => worker[w].pc \in Unsent,
         row'.state \in InFlight /\ Identity(row') = Submission(w) => Progress(w)'
  PROVE  Good
  <1>1. Tracks(w)'
    BY TracksOn DEF Live
  <1>2. Identity(worker'[w].snapshot) = Submission(w) /\ worker'[w].snapshot.state = "RUNNING"
    BY SubmitterFacts, SameIdentity DEF Submission
  <1>3. worker'[w].pc \in Unsent => jobs'[Submission(w)] = "none"
    BY SubmitterFacts
  <1>4. WorkerInv(w)' /\ SubmitterStep(w)
    BY <1>1, <1>2, <1>3, SubmitsOn
  <1> QED BY <1>4, RowStepBy

LEMMA ReserveStep ==
  ASSUME Inv, NEW w \in Workers, Reserve(w)
  PROVE  Good
  <1>1. Active(w) /\ worker[w].pc = "reserve" /\ UNCHANGED <<attempts, lease, jobs>>
    BY DEF Reserve, At, Active
  <1>2. CASE Return(w, worker[w].tracked) /\ UNCHANGED row
    BY <1>1, <1>2, ReturnOnly
  <1>3. CASE StillClaimedBy(w, worker[w].snapshot) /\ row.ray_job_id = None
    <2>0. row' = Tracked(row)
      BY <1>3 DEF Reserve
    <2>1. worker[w].pc \in Submitting /\ worker[w].pc \in Unsent /\ worker[w].pc \in Unbound
      BY <1>1 DEF Submitting, Unsent, Unbound
    <2>2. /\ row.state = "RUNNING" /\ Identity(row) = Submission(w) /\ row.claimed_by_worker = w
          /\ row.ray_job_request_reference = None /\ jobs[Submission(w)] = "none"
      BY <1>3, <2>1, SubmitterHolds, SubmitterFacts DEF Progress
    <2>3. /\ row' \in Row /\ SameExecution(row', row) /\ row'.claimed_by_worker = row.claimed_by_worker
          /\ row'.ray_job_id = Identity(row) /\ row'.completion_data = row.completion_data
          /\ row'.ray_job_request_reference = None
      BY <2>0, <2>2, RowFacts, ColumnTransitions, SubmissionColumns
    <2>4. Identity(row') = Identity(row) /\ row'.state = row.state
      BY <2>3, SameIdentity
    <2>5. OwnJobId' /\ BoundStep
      BY <2>2, <2>3, <2>4 DEF OwnJobId, BoundStep
    <2>6. RowStep(w)
      BY <1>1, <1>3, <2>1, <2>3, <2>5, RowSubmits
    <2>7. CASE worker' = [worker EXCEPT
                      ![w].pc = "attach",
                      ![w].tracked = Identity(worker[w].snapshot),
                      ![w].snapshot = Tracked(worker[w].snapshot)]
      <3> DEFINE s == worker[w].snapshot
      <3>1. s \in Row /\ s.state = "RUNNING" /\ s.claimed_by_worker = w /\ s.ray_job_request_reference = None
        BY <1>1, <2>1, SubmitterFacts DEF Inv, WorkerInv, Snapshots
      <3>2. /\ Tracked(s) \in Row /\ Tracked(s).state = "RUNNING" /\ Tracked(s).claimed_by_worker = w
            /\ Identity(Tracked(s)) = Submission(w) /\ Tracked(s).ray_job_id = Submission(w)
            /\ Tracked(s).ray_job_request_reference = None
        <4>1. Tracked(s) \in Row /\ SameExecution(Tracked(s), s) /\ Tracked(s).claimed_by_worker = s.claimed_by_worker
          BY <3>1, ColumnTransitions
        <4>2. Tracked(s).ray_job_id = Identity(s) /\ Tracked(s).ray_job_request_reference = s.ray_job_request_reference
          BY <3>1, SubmissionColumns
        <4>3. Identity(Tracked(s)) = Identity(s) /\ Tracked(s).state = s.state
          BY <4>1, SameIdentity
        <4> QED BY <3>1, <4>1, <4>2, <4>3 DEF Submission
      <3>3. PICK t \in Row : t = Tracked(s)
        BY <3>2
      <3>4. PICK i \in Identities : i = Submission(w)
        BY <2>1, SubmitterFacts
      <3> HIDE DEF s
      <3>5. worker' = [worker EXCEPT ![w].pc = "attach", ![w].tracked = i, ![w].snapshot = t]
        BY <2>7, <3>3, <3>4 DEF s, Submission
      <3>6. /\ WorkerStep(w) /\ worker'[w].pc = "attach" /\ worker'[w].tracked = i
             /\ worker'[w].phase = worker[w].phase /\ worker'[w].snapshot = t
        <4>1. "attach" \in Steps /\ i \in Trackable /\ t \in Row \cup {None}
          BY DEF Steps, Trackable
        <4> QED BY <3>5, <4>1, RowFacts, TrackMoves
      <3>7. Tracks(w)'
        <4>1. i[2] = row'.execution_generation /\ row'.execution_generation \in Nat
          BY <2>2, <2>3, <2>4, <3>4, IdentityType DEF Identity
        <4>2. i[2] <= row'.execution_generation
          BY <4>1
        <4> QED BY <2>2, <2>3, <3>6, <4>2 DEF Tracks
      <3>8. Progress(w)'
        BY <2>2, <2>3, <3>2, <3>3, <3>6 DEF Progress, Submission, Unreserving, Unbound
      <3>9. worker'[w].pc \in Submitting
        BY <3>6 DEF Submitting
      <3>10. WorkerInv(w)' /\ SubmitterStep(w)
        BY <1>1, <2>1, <2>2, <2>6, <3>2, <3>3, <3>6, <3>7, <3>8, <3>9, SubmitsOn
      <3> QED BY <1>1, <2>6, <3>6, <3>10, RowStepBy
    <2>8. CASE Goto(w, "fail")
      <3>1. /\ WorkerStep(w) /\ worker'[w].pc = "fail" /\ worker'[w].tracked = worker[w].tracked
            /\ worker'[w].phase = worker[w].phase /\ worker'[w].snapshot = worker[w].snapshot
        BY <2>8, RowFacts, GotoMoves DEF Steps
      <3>2. SameRun /\ SameExecution(worker'[w].snapshot, worker[w].snapshot)
        BY <2>3, <2>4, <3>1 DEF SameRun, SameExecution
      <3>3. worker'[w].pc \in Submitting \ {"claimed", "reserve"} /\ worker'[w].pc \notin Reserved
        BY <3>1 DEF Submitting, Reserved
      <3>4. Progress(w)'
        BY <2>3, <3>1, <3>3 DEF Progress, Submission, Unreserving
      <3> QED BY <1>1, <2>1, <2>6, <3>1, <3>2, <3>3, <3>4, SubmitterFacts, SubmitGoesOn
    <2> QED BY <1>3, <2>7, <2>8 DEF Reserve
  <1> QED BY <1>2, <1>3 DEF Reserve

LEMMA PreparationFailsStep ==
  ASSUME Inv, NEW w \in Workers, PreparationFails(w)
  PROVE  Good
  <1>1. /\ Active(w) /\ worker[w].pc \in {"attach", "submit"} /\ Goto(w, "release")
        /\ UNCHANGED <<row, attempts, lease, jobs>>
    BY DEF PreparationFails, At, Active
  <1>2. /\ WorkerStep(w) /\ worker'[w].pc = "release" /\ worker'[w].tracked = worker[w].tracked
        /\ worker'[w].phase = worker[w].phase /\ worker'[w].snapshot = worker[w].snapshot
    BY <1>1, RowFacts, GotoMoves DEF Steps
  <1>3. RowStep(w) /\ SameRun
    BY <1>1, RowSame DEF SameRun
  <1>4. /\ worker[w].pc \in Submitting /\ worker[w].pc \in Unsent /\ worker[w].pc \in Reserved
        /\ worker'[w].pc \in Submitting \ {"claimed", "reserve"}
    BY <1>1, <1>2 DEF Submitting, Unsent, Reserved
  <1>5. row'.state \in InFlight /\ Identity(row') = Submission(w) => Progress(w)'
    BY <1>1, <1>2, <1>4, SubmitterFacts DEF Progress, Submission, Unreserving, Unbound
  <1>6. worker'[w].snapshot.ray_job_id = Submission(w)
    BY <1>2, <1>4 DEF Inv, WorkerInv, Snapshots, Submission
  <1>7. SameExecution(worker'[w].snapshot, worker[w].snapshot)
    BY <1>2 DEF SameExecution
  <1> QED BY <1>1, <1>2, <1>3, <1>4, <1>5, <1>6, <1>7, SubmitterFacts, SubmitGoesOn

LEMMA AttachRequestStep ==
  ASSUME Inv, NEW w \in Workers, AttachRequest(w)
  PROVE  Good
  <1>1. /\ Active(w) /\ worker[w].pc = "attach" /\ row' = Attached(row)
        /\ StillClaimedBy(w, worker[w].snapshot) /\ UNCHANGED <<attempts, lease, jobs>>
    BY DEF AttachRequest, At, Active
  <1>2. worker[w].pc \in Submitting /\ worker[w].pc \in Unsent /\ worker[w].pc \in Reserved
    BY <1>1 DEF Submitting, Unsent, Reserved
  <1>3. /\ row.state = "RUNNING" /\ Identity(row) = Submission(w) /\ row.claimed_by_worker = w
        /\ row.ray_job_id = Submission(w)
    BY <1>1, <1>2, SubmitterHolds DEF Progress
  <1>4. /\ row' \in Row /\ SameExecution(row', row) /\ row'.claimed_by_worker = row.claimed_by_worker
        /\ row'.ray_job_id = Submission(w) /\ row'.completion_data = row.completion_data
        /\ row'.ray_job_request_reference = Submission(w)
    BY <1>1, <1>3, RowFacts, ColumnTransitions, SubmissionColumns
  <1>5. Identity(row') = Identity(row) /\ row'.state = row.state
    BY <1>4, SameIdentity
  <1>6. OwnJobId' /\ BoundStep /\ SameRun
    BY <1>3, <1>4, <1>5 DEF OwnJobId, BoundStep, SameRun
  <1>7. RowStep(w)
    BY <1>1, <1>2, <1>4, <1>6, RowSubmits
  <1> DEFINE s == worker[w].snapshot
  <1>8. s \in Row /\ s.claimed_by_worker = w /\ s.ray_job_id = Submission(w)
    BY <1>2, SubmitterFacts DEF Inv, WorkerInv, Snapshots, Submission
  <1>9. CASE Remember(w, "submit", Attached(s))
    <2>1. /\ Attached(s) \in Row /\ SameExecution(Attached(s), s) /\ Attached(s).claimed_by_worker = w
          /\ Attached(s).ray_job_id = Submission(w) /\ Attached(s).ray_job_request_reference = Submission(w)
      BY <1>8, ColumnTransitions, SubmissionColumns DEF Submission
    <2>2. PICK t \in Row : t = Attached(s)
      BY <2>1
    <2>3. /\ WorkerStep(w) /\ worker'[w].pc = "submit" /\ worker'[w].tracked = worker[w].tracked
          /\ worker'[w].phase = worker[w].phase /\ worker'[w].snapshot = t
      BY <1>9, <2>2, RowFacts, RememberMoves DEF Steps
    <2>4. Identity(t) = Submission(w)
      BY <2>1, <2>2, SameIdentity DEF Submission
    <2>5. Progress(w)'
      BY <1>4, <2>1, <2>2, <2>3, <2>4 DEF Progress, Submission, Unreserving, Unbound
    <2>6. worker'[w].pc \in Submitting \ {"claimed", "reserve"}
      BY <2>3 DEF Submitting
    <2> QED BY <1>1, <1>2, <1>6, <1>7, <2>1, <2>2, <2>3, <2>5, <2>6, SubmitGoesOn
  <1>10. CASE CommitAckLoss /\ Goto(w, "release")
    <2>1. /\ WorkerStep(w) /\ worker'[w].pc = "release" /\ worker'[w].tracked = worker[w].tracked
          /\ worker'[w].phase = worker[w].phase /\ worker'[w].snapshot = s
      BY <1>10, RowFacts, GotoMoves DEF Steps
    <2>2. Progress(w)'
      BY <1>4, <1>10, <2>1 DEF Progress, Submission, Unreserving, Unbound
    <2>3. worker'[w].pc \in Submitting \ {"claimed", "reserve"}
      BY <2>1 DEF Submitting
    <2>4. SameExecution(s, s)
      BY DEF SameExecution
    <2> QED BY <1>1, <1>2, <1>6, <1>7, <1>8, <2>1, <2>2, <2>3, <2>4, SubmitGoesOn
  <1> QED BY <1>9, <1>10 DEF AttachRequest

\* The request: Ray learns of the execution that one worker alone submits.
LEMMA SubmitStep ==
  ASSUME Inv, NEW w \in Workers, Submit(w)
  PROVE  Good
  <1>1. Active(w) /\ worker[w].pc = "submit" /\ Goto(w, "confirm") /\ UNCHANGED <<row, attempts, lease>>
    BY DEF Submit, At, Active
  <1>2. worker[w].pc \in Submitting /\ worker[w].pc \in Unsent /\ worker[w].pc \in Reserved
    BY <1>1 DEF Submitting, Unsent, Reserved
  <1>3. PICK i \in Identities : i = Submission(w)
    BY <1>2, SubmitterFacts
  <1>4. PICK j \in {"alive", "inflight"} : jobs' = [jobs EXCEPT ![i] = j]
    BY <1>3 DEF Submit, Submission
  <1>5. /\ jobs[i] = "none" /\ i[2] <= row.execution_generation
        /\ row.state \in InFlight /\ Identity(row) = i => Progress(w)
    BY <1>2, <1>3, SubmitterFacts
  <1>6. /\ jobs' \in [Identities -> JobState] /\ jobs'[i] = j
        /\ \A k \in Identities \ {i} : jobs'[k] = jobs[k]
    BY <1>4 DEF Inv, TypeOK, JobState
  <1>7. /\ WorkerStep(w) /\ worker'[w].pc = "confirm" /\ worker'[w].tracked = worker[w].tracked
        /\ worker'[w].phase = worker[w].phase /\ worker'[w].snapshot = worker[w].snapshot
    BY <1>1, RowFacts, GotoMoves DEF Steps
  <1>8. RowStep(w) /\ SameRun
    BY <1>1, RowSame DEF SameRun
  <1>9. WorkerInv(w)' /\ SubmitterStep(w)
    <2>1. Tracks(w)'
      BY <1>1, <1>7, <1>8, TracksOn DEF Live
    <2>2. worker'[w].pc \in Submitting /\ worker'[w].pc \notin Unsent /\ worker'[w].pc \notin Reserved
      BY <1>7 DEF Submitting, Unsent, Reserved
    <2>3. Progress(w)'
      BY <1>7, <2>2 DEF Progress, Unreserving, Unbound
    <2> QED BY <1>1, <1>2, <1>7, <1>8, <2>1, <2>2, <2>3, SubmitterFacts, SubmitsOn DEF Submission
  <1>10. ASSUME NEW v \in Workers \ {w} PROVE WorkerInv(v)'
    <2>1. worker'[v] = worker[v]
      BY <1>7 DEF WorkerStep
    <2>2. ASSUME worker[v].pc \in Unsent PROVE jobs'[Submission(v)] = "none"
      <3>1. worker[v].pc \in Submitting
        BY <2>2 DEF Unsent
      <3>2. Submission(v) \in Identities /\ jobs[Submission(v)] = "none"
        BY <2>2, <3>1, SubmitterFacts
      <3>3. Submission(v) # i
        BY <1>2, <1>3, <3>1 DEF Inv, OneSubmitter
      <3> QED BY <1>6, <3>2, <3>3
    <2> QED BY <1>1, <1>8, <2>1, <2>2, OthersKeep DEF Live
  <1>11. RowInv'
    <2>1. AttemptsWithin' /\ OwnJobId'
      BY <1>8 DEF RowStep
    <2>2. JobsKnown'
      BY <1>1, <1>5, <1>6 DEF Inv, RowInv, JobsKnown
    <2>3. CASE Identity(row) = i
      <3>1. row.state \in InFlight => row.ray_job_id = i /\ row.ray_job_request_reference = i
        BY <1>1, <1>2, <1>3, <1>5, <2>3 DEF Progress
      <3>2. RunningJobIsBound'
        BY <1>1, <2>3, <3>1 DEF RunningJobIsBound
      <3>3. EnvelopeIsOwn'
        BY <1>1, <1>5, <2>3 DEF Inv, RowInv, EnvelopeIsOwn
      <3> QED BY <2>1, <2>2, <3>2, <3>3 DEF RowInv
    <2>4. CASE Identity(row) # i
      <3>1. jobs'[Identity(row)] = jobs[Identity(row)]
        BY <1>6, <2>4, RowFacts
      <3>2. RunningJobIsBound' /\ EnvelopeIsOwn'
        BY <1>1, <3>1 DEF Inv, RowInv, RunningJobIsBound, EnvelopeIsOwn
      <3> QED BY <2>1, <2>2, <3>2 DEF RowInv
    <2> QED BY <2>3, <2>4
  <1>12. StopStep
    BY <1>6 DEF StopStep
  <1>13. TypeOK'
    BY <1>1, <1>6, <1>7, <1>8 DEF Inv, TypeOK, RowStep, WorkerStep
  <1> QED BY <1>7, <1>8, <1>9, <1>10, <1>11, <1>12, <1>13, OneSubmitterStep DEF Good, Inv, RowStep

LEMMA ConfirmStep ==
  ASSUME Inv, NEW w \in Workers, Confirm(w)
  PROVE  Good
  <1>1. Active(w) /\ worker[w].pc = "confirm" /\ UNCHANGED <<attempts, lease, jobs>>
    BY DEF Confirm, At, Active
  <1>2. worker[w].pc \in Submitting
    BY <1>1 DEF Submitting
  <1>3. CASE /\ StillClaimedBy(w, worker[w].snapshot) /\ row' = Tracked(row)
             /\ Return(w, worker[w].tracked)
    <2>1. row.state = "RUNNING" /\ Identity(row) = Submission(w)
      BY <1>2, <1>3, SubmitterHolds
    <2>2. /\ row' \in Row /\ SameExecution(row', row) /\ row'.claimed_by_worker = row.claimed_by_worker
          /\ row'.ray_job_id = Identity(row) /\ row'.completion_data = row.completion_data
          /\ row'.ray_job_request_reference = row.ray_job_request_reference
      BY <1>3, RowFacts, ColumnTransitions, SubmissionColumns
    <2>3. Identity(row') = Identity(row) /\ row'.state = row.state
      BY <2>2, SameIdentity
    <2>4. OwnJobId' /\ BoundStep /\ SameRun
      BY <2>1, <2>2, <2>3 DEF OwnJobId, BoundStep, SameRun, Inv, RowInv, RunningJobIsBound
    <2>5. RowStep(w)
      BY <1>1, <1>2, <1>3, <2>2, <2>4, RowSubmits
    <2> QED BY <1>1, <1>3, <2>4, <2>5, WriteAndReturn
  <1>4. CASE Goto(w, "inspect") /\ UNCHANGED row
    <2>1. /\ WorkerStep(w) /\ worker'[w].pc = "inspect" /\ worker'[w].tracked = worker[w].tracked
          /\ worker'[w].phase = worker[w].phase /\ worker'[w].snapshot = worker[w].snapshot
      BY <1>4, RowFacts, GotoMoves DEF Steps
    <2>2. RowStep(w) /\ SameRun
      BY <1>1, <1>4, RowSame DEF SameRun
    <2>3. /\ worker'[w].pc \in Submitting \ {"claimed", "reserve"}
          /\ worker'[w].pc \notin Unsent /\ worker'[w].pc \notin Reserved
      BY <2>1 DEF Submitting, Unsent, Reserved
    <2>4. Progress(w)'
      BY <2>1, <2>3 DEF Progress, Unreserving, Unbound
    <2>5. SameExecution(worker'[w].snapshot, worker[w].snapshot)
      BY <2>1 DEF SameExecution
    <2> QED BY <1>1, <1>2, <2>1, <2>2, <2>3, <2>4, <2>5, SubmitterFacts, SubmitGoesOn
  <1> QED BY <1>3, <1>4 DEF Confirm

\* A stop, and back to the loop.
LEMMA StopAndReturn ==
  ASSUME Inv, NEW w \in Workers, Active(w), NEW t \in {None, worker[w].tracked}, Return(w, t),
         RowStep(w), SameRun, UNCHANGED lease, JobsMove, StopStep, worker[w].pc # "release"
  PROVE  Good
  <1>1. /\ lease' \in [Workers -> LeaseState] /\ \A v \in Workers : Live(v)' => Live(v)
    BY DEF Inv, TypeOK, Live
  <1> QED BY <1>1, ReturnKeeps, StepBy

\* A replaced execution is not the current one: an accepted job of the current
\* execution is bound to the row.
LEMMA ConfirmationLossStep ==
  ASSUME Inv, NEW w \in Workers, ConfirmationLoss(w)
  PROVE  Good
  <1>1. Active(w) /\ worker[w].pc = "inspect" /\ UNCHANGED <<row, attempts, lease>>
    BY DEF ConfirmationLoss, At, Active
  <1>2. PICK t \in {None, worker[w].tracked} :
          /\ Return(w, t)
          /\ \/ Disposition(w, worker[w].snapshot) = "replaced" /\ Stop(Identity(worker[w].snapshot))
             \/ UNCHANGED jobs
    BY DEF ConfirmationLoss
  <1>3. RowStep(w) /\ SameRun
    BY <1>1, RowSame DEF SameRun
  <1>4. CASE UNCHANGED jobs
    BY <1>1, <1>2, <1>3, <1>4, JobsSame, NothingStops, StopAndReturn DEF Inv
  <1>5. CASE Disposition(w, worker[w].snapshot) = "replaced" /\ Stop(Identity(worker[w].snapshot))
    <2>1. PICK i \in Identities : i = Identity(worker[w].snapshot)
      BY <1>1, SubmitterFacts DEF Submitting, Submission
    <2>2. /\ JobsMove
          /\ \A k \in Identities :
               jobs'[k] # jobs[k] => k = i /\ jobs[k] = "alive" /\ jobs'[k] = "stopping"
      BY <1>5, <2>1, StopMoves DEF Trackable, Inv
    <2>3. row.ray_job_id # i \/ Identity(row) # i
      BY <1>5, <2>1 DEF Disposition
    <2>4. StopStep
      <3>1. ASSUME jobs[i] # "none", row.state = "RUNNING", Identity(row) = i
            PROVE  FALSE
        BY <2>3, <3>1, States DEF Inv, RowInv, RunningJobIsBound
      <3> QED BY <2>2, <3>1 DEF StopStep
    <2> QED BY <1>1, <1>2, <1>3, <2>2, <2>4, StopAndReturn
  <1> QED BY <1>2, <1>4, <1>5

\* The reservation is released if the row still is as this worker left it.
LEMMA RowReleases ==
  ASSUME Inv, NEW w \in Workers, worker[w].pc = "release", StillClaimedBy(w, worker[w].snapshot),
         row' = Unreserved(row), attempts' = attempts
  PROVE  /\ RowStep(w) /\ SameRun
         /\ row'.ray_job_id = None /\ row'.ray_job_request_reference = None
  <1>1. worker[w].pc \in Submitting /\ worker[w].pc \in Unsent
    BY DEF Submitting, Unsent
  <1>2. row.state = "RUNNING" /\ Identity(row) = Submission(w) /\ jobs[Submission(w)] = "none"
    BY <1>1, SubmitterHolds, SubmitterFacts
  <1>3. /\ row' \in Row /\ SameExecution(row', row) /\ row'.claimed_by_worker = row.claimed_by_worker
        /\ row'.ray_job_id = None /\ row'.completion_data = row.completion_data
        /\ row'.ray_job_request_reference = None
    BY RowFacts, ColumnTransitions, SubmissionColumns
  <1>4. Identity(row') = Identity(row) /\ row'.state = row.state
    BY <1>3, SameIdentity
  <1>5. OwnJobId' /\ BoundStep /\ SameRun
    BY <1>2, <1>3, <1>4 DEF OwnJobId, BoundStep, SameRun
  <1> QED BY <1>1, <1>3, <1>5, RowSubmits

LEMMA ReleaseStep ==
  ASSUME Inv, NEW w \in Workers, Release(w)
  PROVE  Good
  <1>1. Active(w) /\ worker[w].pc = "release" /\ UNCHANGED <<attempts, lease, jobs>>
    BY DEF Release, At, Active
  <1>2. worker[w].pc \in Submitting /\ worker[w].pc \in Unsent /\ worker[w].pc \in Reserved
    BY <1>1 DEF Submitting, Unsent, Reserved
  <1>3. CASE /\ StillClaimedBy(w, worker[w].snapshot) /\ row' = Unreserved(row)
             /\ worker' = [worker EXCEPT ![w].pc = "fail", ![w].tracked = None]
    <2>1. /\ RowStep(w) /\ SameRun /\ jobs[Submission(w)] = "none"
          /\ row'.ray_job_id = None /\ row'.ray_job_request_reference = None
      BY <1>1, <1>2, <1>3, RowReleases, SubmitterFacts
    <2> DEFINE k == [worker[w] EXCEPT !.pc = "fail", !.tracked = None]
    <2>2. worker[w] \in Worker /\ "fail" \in Steps
      BY RowFacts DEF Steps
    <2>3. /\ k \in Worker /\ k.pc = "fail" /\ k.tracked = None
          /\ k.phase = worker[w].phase /\ k.snapshot = worker[w].snapshot
      BY <2>2 DEF Worker
    <2>4. worker' = [worker EXCEPT ![w] = k]
      BY <1>3, RowFacts
    <2> HIDE DEF k
    <2>5. WorkerStep(w) /\ worker'[w] = k
      BY <2>3, <2>4, RowFacts, OneMoves
    <2>6. /\ worker'[w].pc \in Submitting \ {"claimed", "reserve", "submit"}
          /\ worker'[w].pc \notin Reserved
      BY <2>3, <2>5 DEF Submitting, Reserved
    <2>7. Progress(w)'
      BY <2>1, <2>3, <2>5, <2>6 DEF Progress, Unreserving
    <2>8. Tracks(w)'
      BY <1>1, <2>1, <2>3, <2>5, TracksOn DEF Live
    <2>9. WorkerInv(w)' /\ SubmitterStep(w)
      BY <1>1, <1>2, <2>1, <2>3, <2>5, <2>6, <2>7, <2>8, SubmitterFacts, SubmitsOn DEF Submission
    <2> QED BY <1>1, <2>1, <2>5, <2>9, RowStepBy
  <1>4. CASE Return(w, None) /\ UNCHANGED row
    BY <1>1, <1>4, ReturnOnly
  <1> QED BY <1>3, <1>4 DEF Release, Releasable

LEMMA ReleaseRaisesStep ==
  ASSUME Inv, NEW w \in Workers, ReleaseRaises(w)
  PROVE  Good
  <1>1. worker[w].pc = "release" /\ UNCHANGED <<attempts, lease, jobs>>
    BY DEF ReleaseRaises, At
  <1>2. RowStep(w) /\ SameRun
    <2>1. CASE UNCHANGED row
      BY <1>1, <2>1, RowSame DEF SameRun
    <2>2. CASE Releasable(w) /\ row' = Unreserved(row)
      BY <1>1, <2>2, RowReleases DEF Releasable
    <2> QED BY <2>1, <2>2 DEF ReleaseRaises
  <1> DEFINE k == [worker[w] EXCEPT !.phase = "stopping", !.pc = "idle", !.snapshot = None]
  <1>3. /\ k \in Worker /\ k.phase = "stopping" /\ k.pc = "idle"
        /\ k.tracked = worker[w].tracked
    BY RowFacts DEF Worker, Steps
  <1>4. worker' = [worker EXCEPT ![w] = k]
    BY RowFacts DEF ReleaseRaises
  <1> HIDE DEF k
  <1>5. WorkerStep(w) /\ worker'[w] = k
    BY <1>3, <1>4, RowFacts, OneMoves
  <1>6. AtRest(w)' /\ Snapshots(w)' /\ Submits(w)' /\ SubmitterStep(w)
    BY <1>3, <1>5 DEF AtRest, Snapshots, Submits, SubmitterStep, ReadRunning, ReadOwn, Submitting, Reserved
  <1>7. Tracks(w)'
    BY <1>1, <1>2, <1>3, <1>5, TracksOn DEF Live
  <1> QED BY <1>1, <1>2, <1>5, <1>6, <1>7, RowStepBy DEF WorkerInv

LEMMA SubmissionFailsStep ==
  ASSUME Inv, NEW w \in Workers, SubmissionFails(w)
  PROVE  Good
  <1>1. /\ Active(w) /\ worker[w].pc \in {"reserve", "fail"} /\ Return(w, worker[w].tracked)
        /\ UNCHANGED <<lease, jobs>>
    BY DEF SubmissionFails, At, Active
  <1>2. CASE UNCHANGED <<row, attempts>>
    BY <1>1, <1>2, ReturnOnly
  <1>3. CASE StillClaimedBy(w, worker[w].snapshot) /\ HandleTaskFailure(TRUE)
    <2>1. row.state = "RUNNING" /\ ~AboutToSubmit(Identity(row))
      BY <1>1, <1>3, NobodySubmits DEF StillClaimedBy, Submission
    <2>2. RowStep(w) /\ row'.state # "RUNNING"
      BY <1>3, <2>1, RowFails
    <2> QED BY <1>1, <2>2, WriteAndReturn DEF SameRun
  <1> QED BY <1>2, <1>3 DEF SubmissionFails

-----------------------------------------------------------------------------
(***************************************************************************)
(* Reconciliation and recovery.                                            *)
(***************************************************************************)
LEMMA ConsumeStep ==
  ASSUME Inv, NEW w \in Workers, Consume(w)
  PROVE  Good
  <1>1. /\ Active(w) /\ worker[w].pc \in {"poll", "consume", "decide"}
        /\ UNCHANGED <<lease, jobs>>
    BY DEF Consume, At, Active
  <1>2. worker[w].pc \in ReadRunning
    BY <1>1 DEF ReadRunning
  <1>3. CASE Return(w, worker[w].tracked) /\ UNCHANGED <<row, attempts>>
    BY <1>1, <1>2, <1>3, ReturnOnly
  <1>4. CASE /\ Exact(worker[w].snapshot) /\ Return(w, None)
             /\ IF row.completion_data = "success"
                  THEN EndAs(row, "SUCCEEDED")
                  ELSE HandleTaskFailure(row.completion_data = "failure")
    <2>1. row.state = "RUNNING"
      BY <1>2, <1>4, ExactFence
    <2>2. CASE EndAs(row, "SUCCEEDED")
      BY <1>1, <1>2, <1>4, <2>2, RowEnds, States, WriteAndForget
    <2>3. CASE HandleTaskFailure(row.completion_data = "failure")
      <3>1. PICK b : b = (row.completion_data = "failure")
        OBVIOUS
      <3>2. RowStep(w)
        BY <2>1, <2>3, <3>1, NobodySubmits, RowFails
      <3> QED BY <1>1, <1>2, <1>4, <3>2, WriteAndForget
    <2> QED BY <1>4, <2>2, <2>3
  <1> QED BY <1>3, <1>4 DEF Consume

\* A worker that may take the row stops its job.
LEMMA StopsEntitled ==
  ASSUME NEW w \in Workers, Live(w), MayTakeFrom(w, row.claimed_by_worker), worker'[w] # worker[w]
  PROVE  StopStep
  BY DEF StopStep

LEMMA EndWithStop ==
  ASSUME Inv, NEW w \in Workers, Active(w), worker[w].pc \notin {"idle", "release"}, Live(w),
         MayTakeFrom(w, row.claimed_by_worker), Stop(row.ray_job_id), Return(w, None),
         UNCHANGED lease, NEW s \in Terminal, NEW r \in {row, Adopted(row, w)}, EndAs(r, s)
  PROVE  Good
  <1>1. RowStep(w) /\ row'.state = s
    BY RowEnds
  <1>2. SameRun
    BY <1>1, States DEF SameRun
  <1>3. PICK i \in Trackable : i = row.ray_job_id
    BY RowFacts
  <1>4. JobsMove
    BY <1>3, StopMoves DEF Inv
  <1>5. worker'[w].pc = "idle"
    BY RowFacts, ReturnMoves DEF Trackable
  <1>6. StopStep
    BY <1>5, StopsEntitled
  <1> QED BY <1>1, <1>2, <1>4, <1>6, StopAndReturn

LEMMA DecideStep ==
  ASSUME Inv, NEW w \in Workers, Decide(w)
  PROVE  Good
  <1>1. Active(w) /\ worker[w].pc = "decide" /\ Live(w) /\ UNCHANGED lease
    BY DEF Decide, At, Active
  <1>2. worker[w].pc \in ReadRunning /\ worker[w].pc \in ReadOwn
    BY <1>1 DEF ReadRunning, ReadOwn
  <1>3. CASE Return(w, worker[w].tracked) /\ UNCHANGED <<row, attempts, jobs>>
    BY <1>1, <1>2, <1>3, ReturnOnly
  <1>4. CASE /\ Exact(worker[w].snapshot) /\ row' = Monitored(row)
             /\ Return(w, worker[w].tracked) /\ UNCHANGED <<attempts, jobs>>
    <2>1. row' \in Row /\ SameExecution(row', row) /\ row'.claimed_by_worker = row.claimed_by_worker
      BY <1>4, RowFacts, ColumnTransitions
    <2>2. /\ row'.ray_job_id = row.ray_job_id /\ row'.completion_data = row.completion_data
          /\ row'.ray_job_request_reference = row.ray_job_request_reference
      BY <1>4, RowFacts, SubmissionColumns
    <2>3. Identity(row') = Identity(row) /\ row'.state = row.state
      BY <2>1, SameIdentity
    <2>4. RowStep(w) /\ SameRun
      BY <1>4, <2>1, <2>2, <2>3, RowKeeps DEF SameRun
    <2> QED BY <1>1, <1>2, <1>4, <2>4, WriteAndReturn
  <1>5. CASE /\ Exact(worker[w].snapshot) /\ HandleTaskFailure(FALSE)
             /\ Return(w, None) /\ UNCHANGED jobs
    <2>1. RowStep(w)
      BY <1>2, <1>5, ExactFence, RowFails
    <2> QED BY <1>1, <1>2, <1>5, <2>1, WriteAndForget
  <1>6. CASE Exact(worker[w].snapshot) /\ LoseAndStop(w)
    <2>1. MayTakeFrom(w, row.claimed_by_worker)
      BY <1>2, <1>6, ExactFence, OwnFence
    <2>2. "LOST" \in Terminal
      BY States
    <2> QED BY <1>1, <1>6, <2>1, <2>2, EndWithStop DEF LoseAndStop
  <1> QED BY <1>3, <1>4, <1>5, <1>6 DEF Decide

\* The adopter tracks what it adopts: the Ray Job ID on the row is its identity.
LEMMA AdoptOrphanStep ==
  ASSUME Inv, NEW w \in Workers, AdoptOrphan(w)
  PROVE  Good
  <1>1. Active(w) /\ worker[w].pc = "adopt" /\ UNCHANGED <<attempts, lease, jobs>>
    BY DEF AdoptOrphan, At, Active
  <1>2. CASE Return(w, None) /\ UNCHANGED row
    BY <1>1, <1>2, ReturnOnly
  <1>3. CASE /\ TakesOver(w) /\ row.state = "RUNNING" /\ row' = Adopted(row, w)
             /\ worker' = [worker EXCEPT ![w].pc = "consume",
                     ![w].tracked = row.ray_job_id, ![w].snapshot = Adopted(row, w)]
    <2>1. row' \in Row /\ SameExecution(row', row) /\ row'.claimed_by_worker = w
      BY <1>3, RowFacts, ColumnTransitions
    <2>2. /\ row'.ray_job_id = row.ray_job_id /\ row'.completion_data = row.completion_data
          /\ row'.ray_job_request_reference = row.ray_job_request_reference
      BY <1>3, RowFacts DEF Adopted, Row
    <2>3. Identity(row') = Identity(row) /\ row'.state = row.state
      BY <2>1, SameIdentity
    <2>4. RowStep(w)
      BY <1>1, <1>3, <2>1, <2>2, <2>3, RowKeeps, TakeoverFence
    <2>5. PICK t \in Trackable : t = row.ray_job_id
      BY RowFacts
    <2>6. PICK s \in Row : s = row'
      BY <2>1
    <2>7. worker' = [worker EXCEPT ![w].pc = "consume", ![w].tracked = t, ![w].snapshot = s]
      BY <1>3, <2>5, <2>6
    <2>8. /\ WorkerStep(w) /\ worker'[w].pc = "consume" /\ worker'[w].tracked = t
          /\ worker'[w].phase = worker[w].phase /\ worker'[w].snapshot = s
      <3>1. "consume" \in Steps /\ s \in Row \cup {None}
        BY DEF Steps
      <3> QED BY <2>7, <3>1, RowFacts, TrackMoves
    <2>9. AtRest(w)' /\ Submits(w)' /\ SubmitterStep(w)
      BY <1>1, <2>8 DEF AtRest, Submits, SubmitterStep, Active, Submitting
    <2>10. Snapshots(w)'
      BY <1>3, <2>1, <2>3, <2>6, <2>8 DEF Snapshots, Reserved
    <2>11. Tracks(w)'
      <3>1. t \in {None, Identity(row')}
        BY <1>3, <2>3, <2>5, States DEF Inv, RowInv, OwnJobId
      <3>2. Identity(row')[2] = row'.execution_generation /\ row'.execution_generation \in Nat
        BY <2>1, IdentityType DEF Identity
      <3>3. t # None => t[2] <= row'.execution_generation
        BY <3>1, <3>2
      <3> QED BY <2>1, <2>8, <3>3 DEF Tracks
    <2> QED BY <1>1, <2>4, <2>8, <2>9, <2>10, <2>11, RowStepBy DEF WorkerInv
  <1> QED BY <1>2, <1>3 DEF AdoptOrphan

LEMMA TimeOutStep ==
  ASSUME Inv, NEW w \in Workers, TimeOut(w)
  PROVE  Good
  <1>1. Active(w) /\ worker[w].pc = "overtime" /\ Live(w) /\ UNCHANGED lease
    BY DEF TimeOut, At, Active
  <1>2. CASE Return(w, worker[w].tracked) /\ UNCHANGED <<row, attempts, jobs>>
    BY <1>1, <1>2, ReturnOnly
  <1>3. CASE /\ TakesOver(w) /\ Stop(row.ray_job_id)
             /\ EndAs(Adopted(row, w), "FAILED") /\ Return(w, None)
    BY <1>1, <1>3, TakeoverFence, States, EndWithStop
  <1> QED BY <1>2, <1>3 DEF TimeOut

LEMMA FinishCancellationStep ==
  ASSUME Inv, NEW w \in Workers, FinishCancellation(w)
  PROVE  Good
  <1>1. Active(w) /\ worker[w].pc = "cancel" /\ Live(w) /\ UNCHANGED lease
    BY DEF FinishCancellation, At, Active
  <1>2. CASE Return(w, worker[w].tracked) /\ UNCHANGED <<row, attempts, jobs>>
    BY <1>1, <1>2, ReturnOnly
  <1>3. CASE /\ TakesOver(w) /\ Stop(row.ray_job_id)
             /\ EndAs(Adopted(row, w), "CANCELLED") /\ Return(w, None)
    BY <1>1, <1>3, TakeoverFence, States, EndWithStop
  <1> QED BY <1>2, <1>3 DEF FinishCancellation

LEMMA RecoverLostStep ==
  ASSUME Inv, NEW w \in Workers, RecoverLost(w)
  PROVE  Good
  <1>1. /\ Active(w) /\ worker[w].pc = "lost" /\ Return(w, worker[w].tracked)
        /\ UNCHANGED <<lease, jobs>>
    BY DEF RecoverLost, At, Active
  <1>2. CASE UNCHANGED <<row, attempts>>
    BY <1>1, <1>2, ReturnOnly
  <1>3. CASE TakesOver(w) /\ EndAs(Adopted(row, w), "LOST")
    <2>1. RowStep(w) /\ row'.state = "LOST"
      BY <1>3, TakeoverFence, States, RowEnds
    <2> QED BY <1>1, <2>1, WriteAndReturn DEF SameRun
  <1>4. CASE /\ TakesOver(w) /\ row.execution_generation < MaxGeneration
             /\ row' = RequeuedByRetry(row) /\ attempts' = Archived(attempts, row, "LOST")
    <2>1. row.state = "RUNNING" /\ row.ray_job_id = None
      BY <1>1, <1>4, ExactFence DEF TakesOver, ReadRunning
    <2>2. RowStep(w) /\ row'.state = "QUEUED"
      BY <1>4, <2>1, NobodySubmits, RowRequeues
    <2> QED BY <1>1, <2>2, WriteAndReturn DEF SameRun
  <1> QED BY <1>2, <1>3, <1>4 DEF RecoverLost

LEMMA CrashAfterStopStep ==
  ASSUME Inv, NEW w \in Workers, CrashAfterStop(w)
  PROVE  Good
  <1>1. /\ Active(w) /\ Live(w) /\ Stop(row.ray_job_id) /\ UNCHANGED <<row, attempts, lease>>
        /\ worker' = [worker EXCEPT ![w] = [Unstarted EXCEPT !.phase = "down"]]
    BY DEF CrashAfterStop, EndsWithStop, At, Active
  <1>2. MayTakeFrom(w, row.claimed_by_worker)
    <2>1. CASE TakesOver(w)
      BY <2>1, TakeoverFence
    <2>2. CASE worker[w].pc = "decide" /\ Exact(worker[w].snapshot)
      BY <2>2, ExactFence, OwnFence DEF ReadRunning, ReadOwn
    <2> QED BY <2>1, <2>2 DEF CrashAfterStop, EndsWithStop, At
  <1>3. /\ WorkerStep(w) /\ WorkerInv(w)' /\ SubmitterStep(w)
        /\ worker'[w] # worker[w]
    BY <1>1, Goes
  <1>4. RowStep(w) /\ StopStep
    BY <1>1, <1>2, <1>3, RowSame, StopsEntitled
  <1>5. PICK i \in Trackable : i = row.ray_job_id
    BY RowFacts
  <1>6. JobsMove
    BY <1>1, <1>5, StopMoves DEF Inv
  <1>7. lease' \in [Workers -> LeaseState] /\ \A v \in Workers : Live(v)' => Live(v)
    BY <1>1 DEF Inv, TypeOK, Live
  <1> QED BY <1>3, <1>4, <1>6, <1>7, StepBy

-----------------------------------------------------------------------------
(***************************************************************************)
(* Remote jobs, administrators and time: no worker moves.                  *)
(***************************************************************************)
LEMMA StepByNobody ==
  ASSUME Inv, RowStep(None), UNCHANGED <<lease, worker>>, JobsMove, StopStep
  PROVE  Good
  <1>1. Workers \ {None} = Workers
    BY NoneIsNull
  <1>2. TypeOK'
    BY DEF Inv, TypeOK, RowStep, JobsMove
  <1>3. ASSUME NEW v \in Workers PROVE WorkerInv(v)'
    <2>1. ASSUME worker[v].pc \in Unsent PROVE jobs'[Submission(v)] = "none"
      <3>1. worker[v].pc \in Submitting
        BY <2>1 DEF Unsent
      <3> QED BY <2>1, <3>1, SubmitterFacts DEF JobsMove
    <2>2. worker'[v] = worker[v] /\ (Live(v)' => Live(v))
      BY DEF Live
    <2> QED BY <1>1, <2>1, <2>2, OthersKeep
  <1>4. RowInv' /\ OneSubmitter'
    BY RowInvStep DEF Inv, OneSubmitter, Submission
  <1> QED BY <1>2, <1>3, <1>4 DEF Good, Inv, RowStep

LEMMA RowStepByNobody ==
  ASSUME Inv, RowStep(None), UNCHANGED <<lease, worker, jobs>>
  PROVE  Good
  BY JobsSame, NothingStops, StepByNobody DEF Inv

LEMMA JobArrivesStep ==
  ASSUME Inv, NEW i \in Identities, JobArrives(i)
  PROVE  Good
  <1>1. jobs[i] = "inflight" /\ jobs' = [jobs EXCEPT ![i] = "alive"]
    BY DEF JobArrives, Move
  <1>2. JobsMove /\ jobs'[i] = "alive" /\ \A k \in Identities \ {i} : jobs'[k] = jobs[k]
    BY <1>1, OneJobMoves DEF Inv, JobState
  <1>3. RowStep(None) /\ StopStep
    BY <1>2, RowSame DEF JobArrives, StopStep
  <1> QED BY <1>2, <1>3, StepByNobody DEF JobArrives

LEMMA JobEndsStep ==
  ASSUME Inv, NEW i \in Identities, JobEnds(i)
  PROVE  Good
  <1>1. jobs[i] # "none" /\ jobs' = [jobs EXCEPT ![i] = "ended"]
    BY DEF JobEnds, Move
  <1>2. JobsMove /\ jobs'[i] = "ended" /\ \A k \in Identities \ {i} : jobs'[k] = jobs[k]
    BY <1>1, OneJobMoves DEF Inv, JobState
  <1>3. RowStep(None) /\ StopStep
    BY <1>2, RowSame DEF JobEnds, StopStep
  <1> QED BY <1>2, <1>3, StepByNobody DEF JobEnds

\* The entrypoint publishes for its own execution only, as its task code ends.
LEMMA JobPublishesStep ==
  ASSUME Inv, NEW i \in Identities, JobPublishes(i)
  PROVE  Good
  <1>1. /\ jobs[i] \in {"alive", "stopping"} /\ jobs' = [jobs EXCEPT ![i] = "exiting"]
        /\ UNCHANGED <<attempts, lease, worker>>
    BY DEF JobPublishes, Move
  <1>2. JobsMove /\ jobs'[i] = "exiting" /\ \A k \in Identities \ {i} : jobs'[k] = jobs[k]
    BY <1>1, OneJobMoves DEF Inv, JobState
  <1>3. StopStep
    BY <1>2 DEF StopStep
  <1>4. CASE UNCHANGED row
    BY <1>1, <1>2, <1>3, <1>4, RowSame, StepByNobody
  <1>5. ASSUME NEW e \in Envelope, row.state = "RUNNING", Identity(row) = i, row' = Published(row, e)
        PROVE  Good
    <2>1. /\ row' \in Row /\ SameExecution(row', row)
          /\ row'.claimed_by_worker = row.claimed_by_worker
      BY <1>5, RowFacts, ColumnTransitions
    <2>2. /\ row'.ray_job_id = row.ray_job_id
          /\ row'.ray_job_request_reference = row.ray_job_request_reference
      BY <1>5, RowFacts DEF Published, Row
    <2>3. Identity(row') = Identity(row) /\ row'.state = row.state
      BY <2>1, SameIdentity
    <2>4. EnvelopeStep
      BY <1>2, <1>5, <2>3 DEF EnvelopeStep
    <2>5. RowStep(None)
      BY <1>1, <2>1, <2>2, <2>3, <2>4, RowKeeps
    <2> QED BY <1>1, <1>2, <1>3, <2>5, StepByNobody
  <1> QED BY <1>4, <1>5 DEF JobPublishes

\* The clock changes timestamps only.
LEMMA AgedRow ==
  ASSUME NEW r \in Row, NEW q,
         q = [r EXCEPT !.last_heartbeat_at = "stale"] \/ q = [r EXCEPT !.started_at = "overtime"]
           \/ q = [r EXCEPT !.queue_deadline_at = "passed"]
  PROVE  /\ q \in Row /\ SameExecution(q, r) /\ q.claimed_by_worker = r.claimed_by_worker
         /\ q.ray_job_id = r.ray_job_id /\ q.completion_data = r.completion_data
         /\ q.ray_job_request_reference = r.ray_job_request_reference
  <1>1. CASE q = [r EXCEPT !.last_heartbeat_at = "stale"]
    BY <1>1 DEF Row, SameExecution
  <1>2. CASE q = [r EXCEPT !.started_at = "overtime"]
    BY <1>2 DEF Row, SameExecution
  <1>3. CASE q = [r EXCEPT !.queue_deadline_at = "passed"]
    BY <1>3 DEF Row, SameExecution
  <1> QED BY <1>1, <1>2, <1>3

LEMMA ClockStep ==
  ASSUME Inv, HeartbeatAges \/ DeadlinePasses \/ RunsOvertime
  PROVE  Good
  <1>1. row \in Row /\ UNCHANGED <<attempts, lease, worker, jobs>>
    BY RowFacts DEF HeartbeatAges, DeadlinePasses, RunsOvertime,
           Lifecycle!HeartbeatAges, Lifecycle!DeadlinePasses, Lifecycle!RunsOvertime
  <1>2. \/ row' = [row EXCEPT !.last_heartbeat_at = "stale"]
        \/ row' = [row EXCEPT !.started_at = "overtime"]
        \/ row' = [row EXCEPT !.queue_deadline_at = "passed"]
    BY DEF HeartbeatAges, DeadlinePasses, RunsOvertime,
           Lifecycle!HeartbeatAges, Lifecycle!DeadlinePasses, Lifecycle!RunsOvertime
  <1>3. /\ row' \in Row /\ SameExecution(row', row)
        /\ row'.claimed_by_worker = row.claimed_by_worker
        /\ row'.ray_job_id = row.ray_job_id /\ row'.completion_data = row.completion_data
        /\ row'.ray_job_request_reference = row.ray_job_request_reference
    BY <1>1, <1>2, AgedRow
  <1>4. Identity(row') = Identity(row) /\ row'.state = row.state
    BY <1>3, SameIdentity
  <1>5. RowStep(None)
    BY <1>1, <1>3, <1>4, RowKeeps
  <1> QED BY <1>1, <1>5, RowStepByNobody

LEMMA RequestCancellationStep ==
  ASSUME Inv, RequestCancellation
  PROVE  Good
  <1>0. "CANCELLED" \in TaskState /\ "CANCELLING" \in TaskState
    BY States
  <1>1. row \in Row /\ UNCHANGED <<lease, worker, jobs>>
    BY RowFacts DEF RequestCancellation
  <1>2. CASE /\ row.state = "QUEUED" /\ row' = Finished(row, "CANCELLED")
             /\ attempts' = Archived(attempts, row, "CANCELLED")
    <2>1. /\ row' \in Row /\ row'.state = "CANCELLED"
          /\ row'.attempt_number = row.attempt_number
          /\ row'.execution_generation = row.execution_generation
      BY <1>0, <1>1, <1>2, StateTransitions
    <2>2. attempts' \in [Attempts -> Terminal \cup {None}]
      BY <1>1, <1>2, ArchivedType, States DEF Inv, TypeOK
    <2>3. /\ row'.attempt_number <= row'.execution_generation + 1
          /\ row.execution_generation <= row'.execution_generation
      BY <2>1, RowFacts DEF Inv, RowInv, AttemptsWithin
    <2>4. OwnerStep /\ RequeueStep /\ row'.state \notin InFlight
      BY <1>2, <2>1, States DEF OwnerStep, RequeueStep
    <2>5. RowStep(None)
      BY <2>1, <2>2, <2>3, <2>4, RowLeaves
    <2> QED BY <1>1, <2>5, RowStepByNobody
  <1>3. CASE /\ row.state = "RUNNING" /\ row' = Finished(row, "CANCELLING")
             /\ attempts' = attempts
    <2>1. /\ row' \in Row /\ row'.state = "CANCELLING" /\ Identity(row') = Identity(row)
          /\ row'.claimed_by_worker = row.claimed_by_worker
      BY <1>0, <1>1, <1>3, StateTransitions DEF Identity
    <2>2. /\ row'.ray_job_id = row.ray_job_id /\ row'.completion_data = row.completion_data
          /\ row'.ray_job_request_reference = row.ray_job_request_reference
      BY <1>1, <1>3 DEF Finished, Row
    <2>3. RowStep(None)
      BY <1>3, <2>1, <2>2, RowKeeps
    <2> QED BY <1>1, <2>3, RowStepByNobody
  <1> QED BY <1>2, <1>3
      DEF RequestCancellation, Lifecycle!RequestCancellation, Lifecycle!Finished,
          Lifecycle!Archived, Finished, Archived

LEMMA RetryStep ==
  ASSUME Inv, Retry
  PROVE  Good
  <1>1. /\ row \in Row /\ row.state \in Retryable /\ row.execution_generation < MaxGeneration
        /\ row' = RequeuedByRetry(row) /\ attempts' = Archived(attempts, row, row.state)
        /\ UNCHANGED <<lease, worker, jobs>>
    BY RowFacts DEF Retry, Lifecycle!Retry, Lifecycle!Retryable, Lifecycle!RequeuedByRetry,
           Lifecycle!Archived, Retryable, RequeuedByRetry, Archived
  <1>2. /\ row.attempt_number \in Nat /\ row.execution_generation \in Nat
        /\ row.attempt_number < MaxGeneration + 1
        /\ row.attempt_number <= row.execution_generation + 1
    BY <1>1, IdentityType, MaxGenerationType DEF Inv, RowInv, AttemptsWithin
  <1>3. /\ row' \in Row /\ row'.state = "QUEUED"
        /\ row'.attempt_number = row.attempt_number + 1
        /\ row'.execution_generation = row.execution_generation + 1
    BY <1>1, <1>2, RequeueTransitions
  <1>4. attempts' \in [Attempts -> Terminal \cup {None}]
    BY <1>1, ArchivedType, States DEF Inv, TypeOK
  <1>5. /\ row'.attempt_number <= row'.execution_generation + 1
        /\ row.execution_generation <= row'.execution_generation
    BY <1>2, <1>3
  <1>6. OwnerStep /\ RequeueStep /\ row'.state \notin InFlight
    BY <1>1, <1>3, States DEF OwnerStep, RequeueStep
  <1>7. RowStep(None)
    BY <1>3, <1>4, <1>5, <1>6, RowLeaves
  <1> QED BY <1>1, <1>7, RowStepByNobody

-----------------------------------------------------------------------------
(***************************************************************************)
(* The invariant and the properties that follow from it.                   *)
(***************************************************************************)
LEMMA Initial == Init => Inv
  <1> SUFFICES ASSUME Init PROVE Inv
    OBVIOUS
  <1>1. /\ row \in Row /\ row.state = "QUEUED" /\ row.attempt_number = 1
        /\ row.execution_generation = 0
    BY MaxGenerationType DEF Init, Enqueued, Row, TaskState, Attempts, Generations
  <1>2. Unstarted \in Worker /\ Unstarted.pc = "idle" /\ Unstarted.tracked = None
    BY DEF Unstarted, Worker, Steps
  <1>3. TypeOK
    BY <1>1, <1>2 DEF Init, TypeOK, JobState, LeaseState
  <1>4. AttemptsWithin /\ OwnJobId /\ RunningJobIsBound /\ EnvelopeIsOwn
    BY <1>1, States DEF AttemptsWithin, OwnJobId, RunningJobIsBound, EnvelopeIsOwn
  <1>5. JobsKnown
    BY DEF Init, JobsKnown
  <1>6. ASSUME NEW w \in Workers PROVE worker[w].pc = "idle" /\ worker[w].tracked = None
    BY <1>2 DEF Init
  <1>7. OneSubmitter
    BY <1>6 DEF OneSubmitter, Submitting
  <1>8. ASSUME NEW w \in Workers PROVE WorkerInv(w)
    <2>1. Identity(row) # None
      BY <1>1, IdentityType, NoneIsNull
    <2>2. AtRest(w) /\ Snapshots(w) /\ Submits(w)
      BY <1>6 DEF AtRest, Snapshots, Submits, ReadRunning, ReadOwn, Submitting, Reserved
    <2>3. Tracks(w)
      BY <1>6, <2>1 DEF Tracks
    <2> QED BY <2>2, <2>3 DEF WorkerInv
  <1> QED BY <1>3, <1>4, <1>5, <1>7, <1>8 DEF Inv, RowInv

LEMMA WorkerActions ==
  ASSUME Inv, NEW w \in Workers, Boot(w) \/ Proceed(w) \/ Loop(w) \/ Fault(w)
  PROVE  Good
  <1>1. CASE Boot(w) \/ Fault(w)
    BY <1>1, BootStep, CrashStep, CrashAfterStopStep, LeaseAgesStep, SignalStep,
       ReleaseRaisesStep DEF Fault
  <1>2. CASE Loop(w)
    BY <1>2, ExpireQueuedStep, ClaimStep, ReconcileStep, ReadOrphanStep, ReadStuckStep,
       ReadCancellingStep DEF Loop
  <1>3. CASE Proceed(w)
    BY <1>3, LoseLeaseStep, ReadHandoffStep, HandoffStep, StoppedStep, HandBackStep,
       ProcessTaskStep, ReserveStep, AttachRequestStep, PreparationFailsStep, SubmitStep,
       ConfirmStep, ConfirmationLossStep, ReleaseStep, SubmissionFailsStep, ConsumeStep,
       ConsumeNothingStep, GetStatusStep, RefreshStep, DecideStep, AdoptOrphanStep, TimeOutStep,
       RecoverLostStep, FinishCancellationStep DEF Proceed
  <1> QED BY <1>1, <1>2, <1>3

LEMMA EveryStep == Inv /\ [Next]_vars => Good
  <1> SUFFICES ASSUME Inv, [Next]_vars PROVE Good
    OBVIOUS
  <1>1. CASE UNCHANGED vars
    BY <1>1, RowSame, RowStepByNobody DEF vars
  <1>2. CASE Next
    BY <1>2, WorkerActions, JobArrivesStep, JobPublishesStep, JobEndsStep,
       RequestCancellationStep, RetryStep, ClockStep DEF Next, Job
  <1> QED BY <1>1, <1>2

LEMMA Invariance == Spec => []Inv
  BY Initial, EveryStep, PTL DEF Spec, Good

\* Row, history, leases, workers and Ray's job records are always what the model
\* says they are, for any number of workers and generations.
THEOREM TypeCorrect == Spec => []TypeOK
  BY Invariance, PTL DEF Inv

\* No execution is requested from Ray twice, whoever crashed, stalled or lost an
\* answer before (submit_task_to_ray).
THEOREM RequestedOnce == Spec => []SubmitsOnce
  <1>1. Inv => SubmitsOnce
    BY DEF Inv, WorkerInv, Submits, Submission, Submitting, Unsent, SubmitsOnce, At
  <1> QED BY <1>1, Invariance, PTL

\* A job of the current execution that Ray knows is always bound to the row, with
\* its submission ID and its stored request.
THEOREM JobAlwaysBound == Spec => []RunningJobIsBound
  BY Invariance, PTL DEF Inv, RowInv

\* The envelope of a running execution always comes from its own job, whose task
\* code has ended.
THEOREM EnvelopeAlwaysOwn == Spec => []EnvelopeIsOwn
  BY Invariance, PTL DEF Inv, RowInv

\* Two live workers never monitor the same running execution.
THEOREM TrackedByOwner == Spec => []TrackingExclusive
  <1>1. Inv => TrackingExclusive
    BY DEF Inv, WorkerInv, Tracks, TrackingExclusive
  <1> QED BY <1>1, Invariance, PTL

\* No takeover takes a row from a live worker.
THEOREM OwnerReplacedOnlyWhenDead == Spec => OwnerChangesOnlyFromDead
  <1>1. Inv /\ [Next]_vars =>
          [\A v \in Workers :
              /\ row.claimed_by_worker = v /\ row.state \in InFlight
              /\ row'.claimed_by_worker \in Workers \ {v}
              => ~Live(v)]_vars
    BY EveryStep DEF Good, OwnerStep
  <1> QED BY <1>1, Invariance, PTL DEF Spec, OwnerChangesOnlyFromDead

\* A stop reaches the job of the running execution only from a live worker that
\* is entitled to the row.
THEOREM StoppedWithAuthority == Spec => StopsOnlyWithAuthority
  <1>1. Inv /\ [Next]_vars =>
          [\A i \in Identities :
              /\ jobs[i] # "stopping" /\ jobs'[i] = "stopping"
              /\ row.state = "RUNNING" /\ Identity(row) = i
              => \E w \in Workers :
                    /\ worker'[w] # worker[w]
                    /\ Live(w) /\ MayTakeFrom(w, row.claimed_by_worker)]_vars
    BY EveryStep DEF Good, StopStep
  <1> QED BY <1>1, Invariance, PTL DEF Spec, StopsOnlyWithAuthority

-----------------------------------------------------------------------------
(***************************************************************************)
(* The durable row follows TaskLifecycle.  Every write of a process is     *)
(* matched with the transition whose guard its fences establish; a write   *)
(* of the owner leaves the owner as it is, which is an adoption by itself. *)
(***************************************************************************)
LifecycleStep == Lifecycle!Next \/ UNCHANGED <<row, attempts>>

\* The instance's row transitions are the ones this machine uses.
LEMMA SameTransitions ==
  /\ \A r, w : Lifecycle!Claimed(r, w) = Claimed(r, w) /\ Lifecycle!Adopted(r, w) = Adopted(r, w)
  /\ \A r : /\ Lifecycle!HandedBack(r) = HandedBack(r) /\ Lifecycle!Tracked(r) = Tracked(r)
            /\ Lifecycle!Attached(r) = Attached(r) /\ Lifecycle!Unreserved(r) = Unreserved(r)
            /\ Lifecycle!Disowned(r) = Disowned(r) /\ Lifecycle!Monitored(r) = Monitored(r)
            /\ Lifecycle!RequeuedByPolicy(r) = RequeuedByPolicy(r)
            /\ Lifecycle!RequeuedByRetry(r) = RequeuedByRetry(r)
            /\ Lifecycle!Identity(r) = Identity(r)
            /\ Lifecycle!WithinAttempts(r) <=> WithinAttempts(r)
  /\ \A r, s : Lifecycle!Finished(r, s) = Finished(r, s) /\ Lifecycle!Published(r, s) = Published(r, s)
  /\ \A h, r, s : Lifecycle!Archived(h, r, s) = Archived(h, r, s)
  /\ Lifecycle!Envelope = Envelope /\ Lifecycle!InFlight = InFlight /\ Lifecycle!Retryable = Retryable
  <1>1. \A r, w : Lifecycle!Claimed(r, w) = Claimed(r, w) /\ Lifecycle!Adopted(r, w) = Adopted(r, w)
    BY DEF Lifecycle!Claimed, Claimed, Lifecycle!Adopted, Adopted
  <1>2. \A r : /\ Lifecycle!HandedBack(r) = HandedBack(r) /\ Lifecycle!Tracked(r) = Tracked(r)
               /\ Lifecycle!Attached(r) = Attached(r) /\ Lifecycle!Unreserved(r) = Unreserved(r)
    BY DEF Lifecycle!HandedBack, HandedBack, Lifecycle!Tracked, Tracked, Lifecycle!Attached, Attached,
           Lifecycle!Unreserved, Unreserved, Lifecycle!Identity, Identity
  <1>3. \A r : /\ Lifecycle!Disowned(r) = Disowned(r) /\ Lifecycle!Monitored(r) = Monitored(r)
               /\ Lifecycle!RequeuedByPolicy(r) = RequeuedByPolicy(r)
               /\ Lifecycle!RequeuedByRetry(r) = RequeuedByRetry(r)
    BY DEF Lifecycle!Disowned, Disowned, Lifecycle!Monitored, Monitored, Lifecycle!RequeuedByPolicy,
           RequeuedByPolicy, Lifecycle!RequeuedByRetry, RequeuedByRetry
  <1>4. \A r : /\ Lifecycle!Identity(r) = Identity(r)
               /\ Lifecycle!WithinAttempts(r) <=> WithinAttempts(r)
    BY DEF Lifecycle!Identity, Identity, Lifecycle!WithinAttempts, WithinAttempts
  <1>5. \A r, s : Lifecycle!Finished(r, s) = Finished(r, s) /\ Lifecycle!Published(r, s) = Published(r, s)
    BY DEF Lifecycle!Finished, Finished, Lifecycle!Published, Published
  <1>6. \A h, r, s : Lifecycle!Archived(h, r, s) = Archived(h, r, s)
    BY DEF Lifecycle!Archived, Archived
  <1>7. Lifecycle!Envelope = Envelope /\ Lifecycle!InFlight = InFlight /\ Lifecycle!Retryable = Retryable
    BY DEF Lifecycle!Envelope, Envelope, Lifecycle!InFlight, InFlight, Lifecycle!Retryable, Retryable
  <1> QED BY <1>1, <1>2, <1>3, <1>4, <1>5, <1>6, <1>7

\* An adoption by the owner changes nothing.
LEMMA OwnAdoption ==
  ASSUME NEW r \in Row
  PROVE  Adopted(r, r.claimed_by_worker) = r
  BY DEF Adopted, Row

LEMMA AdoptedBy ==
  ASSUME NEW r \in Row, NEW w \in Workers
  PROVE  Adopted(r, w).claimed_by_worker = w /\ Adopted(r, w).attempt_number = r.attempt_number
  BY DEF Adopted, Row

\* A running execution ends in failure or is lost, by its owner or by a takeover.
LEMMA EndsInLifecycle ==
  ASSUME Inv, NEW w \in Workers, row.state = "RUNNING", NEW r \in {row, Adopted(row, w)},
         r = row => row.claimed_by_worker = w, NEW s, EndAs(r, s),
         \/ s = "FAILED" /\ row.completion_data # "success"
         \/ s = "LOST" /\ row.completion_data \in {None, "rejected"}
  PROVE  LifecycleStep
  <1>1. r = Adopted(row, w) /\ Archived(attempts, r, s) = Archived(attempts, row, s)
    <2>1. r = Adopted(row, w)
      BY RowFacts, OwnAdoption
    <2>2. r.attempt_number = row.attempt_number
      BY <2>1, RowFacts, AdoptedBy
    <2> QED BY <2>1, <2>2 DEF Archived
  <1>2. row' = Finished(Adopted(row, w), s) /\ attempts' = Archived(attempts, row, s)
    BY <1>1 DEF EndAs
  <1>3. CASE s = "FAILED" /\ row.completion_data # "success"
    BY <1>2, <1>3, SameTransitions DEF LifecycleStep, Lifecycle!Next, Lifecycle!Fail
  <1>4. CASE s = "LOST" /\ row.completion_data \in {None, "rejected"}
    BY <1>2, <1>4, SameTransitions DEF LifecycleStep, Lifecycle!Next, Lifecycle!Lose
  <1> QED BY <1>3, <1>4

\* A failure that the owner handles.
LEMMA FailsInLifecycle ==
  ASSUME Inv, NEW w \in Workers, row.state = "RUNNING", row.claimed_by_worker = w, NEW b,
         HandleTaskFailure(b), row.completion_data # "success",
         b => \/ row.completion_data = "failure"
              \/ row.completion_data = None /\ row.ray_job_request_reference = None
  PROVE  LifecycleStep
  <1>1. CASE EndAs(row, "FAILED")
    BY <1>1, EndsInLifecycle
  <1>2. CASE /\ b /\ WithinAttempts(row) /\ row' = RequeuedByPolicy(row)
             /\ attempts' = Archived(attempts, row, "FAILED")
    BY <1>2, SameTransitions DEF LifecycleStep, Lifecycle!Next, Lifecycle!FailAndRequeue
  <1> QED BY <1>1, <1>2 DEF HandleTaskFailure

LEMMA HandoffRefines ==
  ASSUME Inv, NEW w \in Workers, Handoff(w)
  PROVE  LifecycleStep
  <1>1. CASE UNCHANGED row
    BY <1>1 DEF Handoff, LifecycleStep
  <1>2. CASE row.state = "RUNNING" /\ row' = Disowned(row) /\ attempts' = attempts
    BY <1>2, SameTransitions DEF LifecycleStep, Lifecycle!Next, Lifecycle!Disown
  <1> QED BY <1>1, <1>2 DEF Handoff, Exact

LEMMA ClaimRefines ==
  ASSUME Inv, NEW w \in Workers, ExpireQueued(w) \/ Claim(w)
  PROVE  LifecycleStep
  <1>1. CASE Claim(w)
    BY <1>1, SameTransitions DEF Claim, LifecycleStep, Lifecycle!Next, Lifecycle!Claim
  <1>2. CASE ExpireQueued(w)
    BY <1>2, SameTransitions DEF ExpireQueued, EndAs, LifecycleStep, Lifecycle!Next, Lifecycle!Expire
  <1> QED BY <1>1, <1>2

LEMMA HandBackRefines ==
  ASSUME Inv, NEW w \in Workers, HandBack(w)
  PROVE  LifecycleStep
  <1>1. CASE ~Exact(worker[w].snapshot)
    BY <1>1 DEF HandBack, LifecycleStep
  <1>2. CASE Exact(worker[w].snapshot)
    <2>1. row.state = "RUNNING" /\ row.ray_job_id = None /\ row.completion_data = None
      BY <1>2, ExactFence DEF HandBack, At, ReadRunning, Submitting
    <2> QED BY <1>2, <2>1, SameTransitions
        DEF HandBack, LifecycleStep, Lifecycle!Next, Lifecycle!ReturnToQueue
  <1> QED BY <1>1, <1>2

LEMMA TrackRefines ==
  ASSUME Inv, NEW w \in Workers, Reserve(w) \/ Confirm(w)
  PROVE  LifecycleStep
  <1>1. CASE UNCHANGED row
    BY <1>1 DEF Reserve, Confirm, LifecycleStep
  <1>2. CASE /\ row.state = "RUNNING" /\ row.ray_job_id \in {None, Identity(row)}
             /\ row' = Tracked(row) /\ attempts' = attempts
    BY <1>2, SameTransitions DEF LifecycleStep, Lifecycle!Next, Lifecycle!Track
  <1> QED BY <1>1, <1>2 DEF Reserve, Confirm, StillClaimedBy

LEMMA AttachRefines ==
  ASSUME Inv, NEW w \in Workers, AttachRequest(w)
  PROVE  LifecycleStep
  <1>1. /\ row.state = "RUNNING" /\ row.ray_job_id = Identity(row)
        /\ row' = Attached(row) /\ attempts' = attempts
    BY DEF AttachRequest, StillClaimedBy
  <1> QED BY <1>1, SameTransitions DEF LifecycleStep, Lifecycle!Next, Lifecycle!Attach

\* Ray was not asked yet, so the row has no envelope.
LEMMA NoEnvelopeYet ==
  ASSUME Inv, NEW w \in Workers, worker[w].pc \in Unsent, StillClaimedBy(w, worker[w].snapshot)
  PROVE  /\ row.state = "RUNNING" /\ row.claimed_by_worker = w /\ row.completion_data = None
         /\ worker[w].pc \in Unbound => row.ray_job_request_reference = None
         /\ worker[w].pc \in Reserved => row.ray_job_id = Identity(row)
  <1>1. worker[w].pc \in Submitting
    BY DEF Unsent
  <1>2. /\ row.state = "RUNNING" /\ Identity(row) = Submission(w) /\ row.claimed_by_worker = w
        /\ Progress(w) /\ jobs[Submission(w)] = "none"
    BY <1>1, SubmitterHolds, SubmitterFacts
  <1>3. row.completion_data = None
    BY <1>2 DEF Inv, RowInv, EnvelopeIsOwn
  <1> QED BY <1>2, <1>3 DEF Progress

LEMMA ReleaseRefines ==
  ASSUME Inv, NEW w \in Workers, Release(w) \/ ReleaseRaises(w)
  PROVE  LifecycleStep
  <1>1. CASE UNCHANGED row
    BY <1>1 DEF Release, ReleaseRaises, LifecycleStep
  <1>2. CASE StillClaimedBy(w, worker[w].snapshot) /\ row' = Unreserved(row)
    <2>1. worker[w].pc \in Unsent /\ worker[w].pc \in Reserved /\ attempts' = attempts
      BY DEF Release, ReleaseRaises, At, Unsent, Submitting, Reserved
    <2>2. row.state = "RUNNING" /\ row.ray_job_id = Identity(row) /\ row.completion_data = None
      BY <1>2, <2>1, NoEnvelopeYet
    <2> QED BY <1>2, <2>1, <2>2, SameTransitions
        DEF LifecycleStep, Lifecycle!Next, Lifecycle!Unreserve
  <1> QED BY <1>1, <1>2 DEF Release, ReleaseRaises, Releasable

LEMMA SubmissionFailsRefines ==
  ASSUME Inv, NEW w \in Workers, SubmissionFails(w)
  PROVE  LifecycleStep
  <1>1. CASE UNCHANGED <<row, attempts>>
    BY <1>1 DEF LifecycleStep
  <1>2. CASE StillClaimedBy(w, worker[w].snapshot) /\ HandleTaskFailure(TRUE)
    <2>1. worker[w].pc \in Unsent /\ worker[w].pc \in Unbound
      BY DEF SubmissionFails, At, Unsent, Submitting, Unbound
    <2>2. /\ row.state = "RUNNING" /\ row.claimed_by_worker = w /\ row.completion_data = None
          /\ row.ray_job_request_reference = None
      BY <1>2, <2>1, NoEnvelopeYet
    <2>3. row.completion_data # "success"
      BY <2>2, NoneIsNull DEF Envelope
    <2> QED BY <1>2, <2>2, <2>3, FailsInLifecycle
  <1> QED BY <1>1, <1>2 DEF SubmissionFails

LEMMA ConsumeRefines ==
  ASSUME Inv, NEW w \in Workers, Consume(w)
  PROVE  LifecycleStep
  <1>1. CASE UNCHANGED <<row, attempts>>
    BY <1>1 DEF LifecycleStep
  <1>2. CASE /\ Exact(worker[w].snapshot)
             /\ IF row.completion_data = "success"
                  THEN EndAs(row, "SUCCEEDED")
                  ELSE HandleTaskFailure(row.completion_data = "failure")
    <2>1. worker[w].pc \in ReadRunning /\ worker[w].pc \in ReadOwn
      BY DEF Consume, At, ReadRunning, ReadOwn
    <2>2. row.state = "RUNNING" /\ row.claimed_by_worker = w
      BY <1>2, <2>1, ExactFence
    <2>3. CASE row.completion_data = "success"
      BY <1>2, <2>2, <2>3, SameTransitions DEF EndAs, LifecycleStep, Lifecycle!Next, Lifecycle!Succeed
    <2>4. CASE row.completion_data # "success"
      <3>1. PICK b : b = (row.completion_data = "failure")
        OBVIOUS
      <3> QED BY <1>2, <2>2, <2>4, <3>1, FailsInLifecycle
    <2> QED BY <2>3, <2>4
  <1> QED BY <1>1, <1>2 DEF Consume

LEMMA DecideRefines ==
  ASSUME Inv, NEW w \in Workers, Decide(w)
  PROVE  LifecycleStep
  <1>1. CASE UNCHANGED <<row, attempts>>
    BY <1>1 DEF LifecycleStep
  <1>2. CASE Exact(worker[w].snapshot) /\ ~UNCHANGED <<row, attempts>>
    <2>1. worker[w].pc \in ReadRunning /\ worker[w].pc \in ReadOwn
      BY DEF Decide, At, ReadRunning, ReadOwn
    <2>2. /\ row.state = "RUNNING" /\ row.claimed_by_worker = w
          /\ row.completion_data \in {None, "rejected"}
      BY <1>2, <2>1, ExactFence DEF Decide
    <2>3. row.completion_data # "success"
      BY <2>2, NoneIsNull DEF Envelope
    <2>4. CASE Verdict(w) = "monitor" /\ row' = Monitored(row) /\ attempts' = attempts
      <3>1. row.completion_data = None
        BY <1>2, <2>1, <2>2, <2>4, ExactFence DEF Verdict
      <3> QED BY <2>2, <2>4, <3>1, SameTransitions DEF LifecycleStep, Lifecycle!Next, Lifecycle!Monitor
    <2>5. CASE HandleTaskFailure(FALSE)
      BY <2>2, <2>3, <2>5, FailsInLifecycle
    <2>6. CASE EndAs(row, "LOST")
      BY <2>2, <2>6, EndsInLifecycle
    <2> QED BY <1>2, <2>4, <2>5, <2>6 DEF Decide, LoseAndStop
  <1> QED BY <1>1, <1>2 DEF Decide

LEMMA AdoptRefines ==
  ASSUME Inv, NEW w \in Workers, AdoptOrphan(w)
  PROVE  LifecycleStep
  <1>1. CASE UNCHANGED row
    BY <1>1 DEF AdoptOrphan, LifecycleStep
  <1>2. CASE row.state = "RUNNING" /\ row' = Adopted(row, w) /\ attempts' = attempts
    <2>1. row.state \in InFlight
      BY <1>2, States
    <2> QED BY <1>2, <2>1, SameTransitions DEF LifecycleStep, Lifecycle!Next, Lifecycle!Adopt
  <1> QED BY <1>1, <1>2 DEF AdoptOrphan

LEMMA TimeOutRefines ==
  ASSUME Inv, NEW w \in Workers, TimeOut(w)
  PROVE  LifecycleStep
  <1>1. CASE UNCHANGED <<row, attempts>>
    BY <1>1 DEF LifecycleStep
  <1>2. CASE TakesOver(w) /\ EndAs(Adopted(row, w), "FAILED")
    <2>1. row.state = "RUNNING" /\ row.completion_data = None
      BY <1>2, ExactFence DEF TimeOut, TakesOver, At, ReadRunning
    <2>2. row.completion_data # "success"
      BY <2>1, NoneIsNull DEF Envelope
    <2>3. PICK r \in {row, Adopted(row, w)} : r = Adopted(row, w)
      OBVIOUS
    <2>4. r = row => row.claimed_by_worker = w
      BY <2>3, RowFacts, AdoptedBy
    <2> QED BY <1>2, <2>1, <2>2, <2>3, <2>4, EndsInLifecycle
  <1> QED BY <1>1, <1>2 DEF TimeOut

LEMMA RecoverLostRefines ==
  ASSUME Inv, NEW w \in Workers, RecoverLost(w)
  PROVE  LifecycleStep
  <1>1. CASE UNCHANGED <<row, attempts>>
    BY <1>1 DEF LifecycleStep
  <1>2. CASE TakesOver(w)
    <2>1. row.state = "RUNNING" /\ row.completion_data = None /\ row.ray_job_id = None
      BY <1>2, ExactFence DEF RecoverLost, TakesOver, At, ReadRunning
    <2>2. CASE EndAs(Adopted(row, w), "LOST")
      <3>1. PICK r \in {row, Adopted(row, w)} : r = Adopted(row, w)
        OBVIOUS
      <3>2. r = row => row.claimed_by_worker = w
        BY <3>1, RowFacts, AdoptedBy
      <3> QED BY <2>1, <2>2, <3>1, <3>2, EndsInLifecycle
    <2>3. CASE /\ WithinAttempts(row) /\ row.execution_generation < MaxGeneration
               /\ row' = RequeuedByRetry(row) /\ attempts' = Archived(attempts, row, "LOST")
      BY <2>1, <2>3, SameTransitions DEF LifecycleStep, Lifecycle!Next, Lifecycle!LoseAndRequeue
    <2> QED BY <1>1, <1>2, <2>2, <2>3 DEF RecoverLost
  <1> QED BY <1>1, <1>2 DEF RecoverLost

LEMMA FinishCancellationRefines ==
  ASSUME Inv, NEW w \in Workers, FinishCancellation(w)
  PROVE  LifecycleStep
  <1>1. CASE UNCHANGED <<row, attempts>>
    BY <1>1 DEF LifecycleStep
  <1>2. CASE TakesOver(w) /\ EndAs(Adopted(row, w), "CANCELLED")
    <2>1. row.state = "CANCELLING"
      BY <1>2 DEF FinishCancellation, TakesOver, At, Exact, Inv, WorkerInv, Snapshots
    <2>2. Archived(attempts, Adopted(row, w), "CANCELLED") = Archived(attempts, row, "CANCELLED")
      BY RowFacts, ColumnTransitions DEF SameExecution, Archived
    <2> QED BY <1>2, <2>1, <2>2, SameTransitions
        DEF EndAs, LifecycleStep, Lifecycle!Next, Lifecycle!FinishCancellation
  <1> QED BY <1>1, <1>2 DEF FinishCancellation

\* Only a bound job publishes, and only once: before, its task code was running.
LEMMA JobPublishesRefines ==
  ASSUME Inv, NEW i \in Identities, JobPublishes(i)
  PROVE  LifecycleStep
  <1>1. CASE UNCHANGED row
    BY <1>1 DEF JobPublishes, LifecycleStep
  <1>2. ASSUME NEW e \in Envelope, row.state = "RUNNING", Identity(row) = i, row' = Published(row, e)
        PROVE  LifecycleStep
    <2>1. jobs[Identity(row)] \in {"alive", "stopping"} /\ attempts' = attempts
      BY <1>2 DEF JobPublishes, Move
    <2>2. row.ray_job_id = Identity(row) /\ row.completion_data = None
      BY <1>2, <2>1, States DEF Inv, RowInv, RunningJobIsBound, EnvelopeIsOwn
    <2> QED BY <1>2, <2>1, <2>2, SameTransitions DEF LifecycleStep, Lifecycle!Next, Lifecycle!Publish
  <1> QED BY <1>1, <1>2 DEF JobPublishes

LEMMA WorkerRefines ==
  ASSUME Inv, NEW w \in Workers, Boot(w) \/ Proceed(w) \/ Loop(w) \/ Fault(w)
  PROVE  LifecycleStep
  <1>1. CASE Boot(w) \/ Fault(w)
    BY <1>1, ReleaseRefines DEF Fault, Boot, Crash, CrashAfterStop, LeaseAges, Signal, LifecycleStep
  <1>2. CASE PollCompletion(w) \/ ReconcileTracked(w)
    BY <1>2 DEF PollCompletion, ReconcileTracked, ReadTracked, LifecycleStep
  <1>3. CASE ReadOrphan(w) \/ ReadStuck(w) \/ ReadCancelling(w)
    BY <1>3 DEF ReadOrphan, ReadStuck, ReadCancelling, LifecycleStep
  <1>4. CASE LoseLease(w) \/ ReadHandoff(w) \/ Stopped(w) \/ ProcessTask(w) \/ PreparationFails(w)
    BY <1>4 DEF LoseLease, ReadHandoff, Stopped, ProcessTask, PreparationFails, LifecycleStep
  <1>5. CASE Submit(w) \/ ConfirmationLoss(w) \/ ConsumeNothing(w) \/ GetStatus(w) \/ Refresh(w)
    BY <1>5 DEF Submit, ConfirmationLoss, ConsumeNothing, GetStatus, Refresh, LifecycleStep
  <1>6. CASE \/ Handoff(w) \/ ExpireQueued(w) \/ Claim(w) \/ HandBack(w) \/ Reserve(w) \/ Confirm(w)
             \/ AttachRequest(w) \/ Release(w) \/ SubmissionFails(w)
    BY <1>6, HandoffRefines, ClaimRefines, HandBackRefines, TrackRefines, AttachRefines,
       ReleaseRefines, SubmissionFailsRefines
  <1>7. CASE \/ Consume(w) \/ Decide(w) \/ AdoptOrphan(w) \/ TimeOut(w) \/ RecoverLost(w)
             \/ FinishCancellation(w)
    BY <1>7, ConsumeRefines, DecideRefines, AdoptRefines, TimeOutRefines, RecoverLostRefines,
       FinishCancellationRefines
  <1> QED BY <1>1, <1>2, <1>3, <1>4, <1>5, <1>6, <1>7 DEF Loop, Proceed

LEMMA StepRefines == Inv /\ [Next]_vars => LifecycleStep
  <1> SUFFICES ASSUME Inv, [Next]_vars PROVE LifecycleStep
    OBVIOUS
  <1>1. CASE UNCHANGED vars
    BY <1>1 DEF vars, LifecycleStep
  <1>2. ASSUME NEW i \in Identities, Job(i) PROVE LifecycleStep
    BY <1>2, JobPublishesRefines DEF Job, JobArrives, JobEnds, LifecycleStep
  <1>3. CASE RequestCancellation \/ Retry \/ HeartbeatAges \/ DeadlinePasses \/ RunsOvertime
    BY <1>3 DEF RequestCancellation, Retry, HeartbeatAges, DeadlinePasses, RunsOvertime,
                LifecycleStep, Lifecycle!Next
  <1>4. CASE Next
    BY <1>2, <1>3, <1>4, WorkerRefines DEF Next
  <1> QED BY <1>1, <1>4

\* A Ray Job execution implements the durable lifecycle: under every interleaving
\* of stale snapshots, takeovers, lost answers and crashes each step is one
\* transition of TaskLifecycle, or leaves row and history alone.
THEOREM Refinement == Spec => ImplementsLifecycle
  <1>1. Init => Lifecycle!Init
    BY DEF Init, Lifecycle!Init, Enqueued, Lifecycle!Enqueued, Attempts, Lifecycle!Attempts
  <1>2. Inv /\ [Next]_vars => [Lifecycle!Next]_(Lifecycle!vars)
    BY StepRefines DEF LifecycleStep, Lifecycle!vars
  <1> QED BY <1>1, <1>2, Invariance, PTL DEF Spec, ImplementsLifecycle, Lifecycle!Spec

\* From a running row back to the queue there are three ways, and each shows that
\* the job is over or was never asked for.
LEMMA Requeues ==
  ASSUME Inv, LifecycleStep, row.state = "RUNNING", row'.state = "QUEUED"
  PROVE  \/ row.completion_data = "failure" \/ row.ray_job_id = None
         \/ row.ray_job_request_reference = None
  <1>1. row \in Row /\ "QUEUED" # "RUNNING"
    BY RowFacts
  <1>2. CASE Lifecycle!ReturnToQueue \/ Lifecycle!FailAndRequeue \/ Lifecycle!LoseAndRequeue
    BY <1>2 DEF Lifecycle!ReturnToQueue, Lifecycle!FailAndRequeue, Lifecycle!LoseAndRequeue
  <1>3. CASE UNCHANGED <<row, attempts>>
    BY <1>1, <1>3
  <1>4. ASSUME NEW w \in Workers, Lifecycle!Claim(w) \/ Lifecycle!Adopt(w) \/ Lifecycle!Fail(w)
                 \/ Lifecycle!Lose(w) \/ Lifecycle!FinishCancellation(w)
        PROVE  FALSE
    <2>1. CASE Lifecycle!Claim(w) \/ Lifecycle!FinishCancellation(w)
      BY <2>1 DEF Lifecycle!Claim, Lifecycle!FinishCancellation
    <2>2. CASE Lifecycle!Adopt(w)
      BY <1>1, <2>2, SameTransitions, ColumnTransitions DEF Lifecycle!Adopt, SameExecution
    <2>3. CASE Lifecycle!Fail(w) \/ Lifecycle!Lose(w)
      <3>1. PICK s \in {"FAILED", "LOST"} : row' = Finished(Adopted(row, w), s)
        BY <2>3, SameTransitions DEF Lifecycle!Fail, Lifecycle!Lose
      <3>2. Adopted(row, w) \in Row /\ s \in TaskState
        BY <1>1, ColumnTransitions, States
      <3> QED BY <3>1, <3>2, StateTransitions
    <2> QED BY <1>4, <2>1, <2>2, <2>3
  <1>5. ASSUME NEW e \in Envelope, Lifecycle!Publish(e) PROVE FALSE
    BY <1>1, <1>5, SameTransitions, ColumnTransitions DEF Lifecycle!Publish, SameExecution
  <1>6. CASE Lifecycle!Expire \/ Lifecycle!DeadlinePasses \/ Lifecycle!Retry
    BY <1>6, SameTransitions, States
       DEF Lifecycle!Expire, Lifecycle!DeadlinePasses, Lifecycle!Retry
  <1>7. CASE Lifecycle!Track \/ Lifecycle!Attach \/ Lifecycle!Unreserve \/ Lifecycle!Disown \/ Lifecycle!Monitor
    BY <1>1, <1>7, SameTransitions, ColumnTransitions
       DEF Lifecycle!Track, Lifecycle!Attach, Lifecycle!Unreserve, Lifecycle!Disown,
           Lifecycle!Monitor, SameExecution
  <1>8. CASE Lifecycle!Succeed
    <2>1. row' = Finished(row, "SUCCEEDED") /\ "SUCCEEDED" \in TaskState
      BY <1>8, SameTransitions, States DEF Lifecycle!Succeed
    <2> QED BY <1>1, <2>1, StateTransitions
  <1>9. CASE Lifecycle!RequestCancellation
    BY <1>1, <1>9 DEF Lifecycle!RequestCancellation, Row
  <1>10. CASE Lifecycle!HeartbeatAges \/ Lifecycle!RunsOvertime
    BY <1>1, <1>10, AgedRow DEF Lifecycle!HeartbeatAges, Lifecycle!RunsOvertime, SameExecution
  <1> QED BY <1>2, <1>3, <1>4, <1>5, <1>6, <1>7, <1>8, <1>9, <1>10, SameTransitions
      DEF LifecycleStep, Lifecycle!Next

\* No automatic path queues an execution again while its task code runs or can
\* still start: its job has ended, or Ray was never asked for it and nobody is
\* about to.
THEOREM RetryNeverOverlaps == Spec => AutomaticRetryNeverOverlaps
  <1>1. ASSUME Inv, [Next]_vars, row.state = "RUNNING", row'.state = "QUEUED"
        PROVE  ~MayExecute(Identity(row)) /\ ~AboutToSubmit(Identity(row))
    <2>1. \/ row.completion_data = "failure" \/ row.ray_job_id = None
          \/ row.ray_job_request_reference = None
      BY <1>1, StepRefines, Requeues
    <2>2. jobs[Identity(row)] \in {"none", "exiting", "ended"}
      <3>1. CASE row.completion_data = "failure"
        BY <1>1, <3>1, NoneIsNull DEF Inv, RowInv, EnvelopeIsOwn, Envelope
      <3>2. CASE row.ray_job_id = None \/ row.ray_job_request_reference = None
        BY <1>1, <3>2, RowFacts, States DEF Inv, RowInv, RunningJobIsBound
      <3> QED BY <2>1, <3>1, <3>2
    <2>3. ~AboutToSubmit(Identity(row))
      BY <1>1, EveryStep DEF Good, RequeueStep
    <2> QED BY <2>2, <2>3 DEF MayExecute
  <1>2. Inv /\ [Next]_vars =>
          [row.state = "RUNNING" /\ row'.state = "QUEUED" =>
              ~MayExecute(Identity(row)) /\ ~AboutToSubmit(Identity(row))]_vars
    BY <1>1
  <1> QED BY <1>2, Invariance, PTL DEF Spec, AutomaticRetryNeverOverlaps
=============================================================================
