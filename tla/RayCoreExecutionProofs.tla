------------------------ MODULE RayCoreExecutionProofs ------------------------
(***************************************************************************)
(* Proofs about RayCoreExecution, for every set of workers, retry budget   *)
(* and number of generations: its types, that a requested cancellation     *)
(* ends as one, that no handle is left over when a worker submits again    *)
(* and that nothing requeues a row under its owner's handle.               *)
(*                                                                         *)
(* The argument: while its lease is live nobody but a worker itself ends   *)
(* or requeues what it claimed, so that it has a handle of nothing else    *)
(* (Keeps), and where it decides about a row it read, that row was RUNNING *)
(* (Snapshots).                                                            *)
(***************************************************************************)
EXTENDS RayCoreExecution, TLAPS

-----------------------------------------------------------------------------
(***************************************************************************)
(* What the row transitions of TaskExecutionRow return.                    *)
(***************************************************************************)
LEMMA States ==
  /\ InFlight \cap Terminal = {} /\ "QUEUED" \notin Terminal /\ "QUEUED" \notin InFlight
  /\ InFlight = {"RUNNING", "CANCELLING"}
  /\ Terminal \subseteq TaskState /\ InFlight \subseteq TaskState /\ "QUEUED" \in TaskState
  /\ Retryable \subseteq Terminal /\ "SUCCEEDED" \in Terminal
  /\ {"FAILED", "CANCELLED", "LOST", "EXPIRED"} = Retryable
  BY DEF InFlight, Terminal, Retryable, TaskState

LEMMA IdentityType ==
  ASSUME NEW r \in Row
  PROVE  /\ Identity(r) \in Identities
         /\ r.attempt_number \in Attempts /\ r.attempt_number \in Nat
         /\ r.execution_generation \in Generations /\ r.execution_generation \in Nat
         /\ r.execution_generation <= MaxGeneration
  <1>1. r.attempt_number \in Attempts /\ r.execution_generation \in Generations
    BY DEF Row
  <1>2. Identity(r) \in Identities
    BY <1>1 DEF Identity, Identities
  <1> QED BY <1>1, <1>2, MaxGenerationType DEF Attempts, Generations

\* The same attempt and generation under the same state.
SameExecution(q, r) ==
    /\ q.state = r.state
    /\ q.attempt_number = r.attempt_number
    /\ q.execution_generation = r.execution_generation

\* Transitions that touch neither state nor identity.
LEMMA ColumnTransitions ==
  ASSUME NEW r \in Row
  PROVE  /\ \A w \in Workers \cup {None} :
               /\ Adopted(r, w) \in Row /\ SameExecution(Adopted(r, w), r)
               /\ Adopted(r, w).claimed_by_worker = w
         /\ \A e \in Envelope :
               /\ Published(r, e) \in Row /\ SameExecution(Published(r, e), r)
               /\ Published(r, e).claimed_by_worker = r.claimed_by_worker
         /\ \A q \in {Tracked(r), Attached(r), Unreserved(r), Monitored(r)} :
               q \in Row /\ SameExecution(q, r) /\ q.claimed_by_worker = r.claimed_by_worker
         /\ Disowned(r) \in Row /\ SameExecution(Disowned(r), r) /\ Disowned(r).claimed_by_worker = None
  <1>1. Identity(r) \in Identities
    BY IdentityType
  <1> USE <1>1 DEF Row, SameExecution
  <1>2. ASSUME NEW w \in Workers \cup {None}
        PROVE  /\ Adopted(r, w) \in Row /\ SameExecution(Adopted(r, w), r)
               /\ Adopted(r, w).claimed_by_worker = w
    BY DEF Adopted
  <1>3. ASSUME NEW e \in Envelope
        PROVE  /\ Published(r, e) \in Row /\ SameExecution(Published(r, e), r)
               /\ Published(r, e).claimed_by_worker = r.claimed_by_worker
    BY DEF Published
  <1>4. /\ Tracked(r) \in Row /\ SameExecution(Tracked(r), r)
        /\ Tracked(r).claimed_by_worker = r.claimed_by_worker
    BY DEF Tracked
  <1>5. /\ Attached(r) \in Row /\ SameExecution(Attached(r), r)
        /\ Attached(r).claimed_by_worker = r.claimed_by_worker
    BY DEF Attached
  <1>6. /\ Unreserved(r) \in Row /\ SameExecution(Unreserved(r), r)
        /\ Unreserved(r).claimed_by_worker = r.claimed_by_worker
    BY DEF Unreserved
  <1>7. /\ Monitored(r) \in Row /\ SameExecution(Monitored(r), r)
        /\ Monitored(r).claimed_by_worker = r.claimed_by_worker
    BY DEF Monitored
  <1>8. Disowned(r) \in Row /\ SameExecution(Disowned(r), r) /\ Disowned(r).claimed_by_worker = None
    BY DEF Disowned
  <1> HIDE DEF Row, SameExecution
  <1> QED BY <1>2, <1>3, <1>4, <1>5, <1>6, <1>7, <1>8

\* Transitions to another state of the same attempt.
LEMMA StateTransitions ==
  ASSUME NEW r \in Row
  PROVE  /\ \A s \in TaskState :
               /\ Finished(r, s) \in Row /\ Finished(r, s).state = s
               /\ Finished(r, s).attempt_number = r.attempt_number
               /\ Finished(r, s).execution_generation = r.execution_generation
               /\ Finished(r, s).claimed_by_worker = r.claimed_by_worker
         /\ HandedBack(r) \in Row /\ HandedBack(r).state = "QUEUED"
         /\ HandedBack(r).attempt_number = r.attempt_number
         /\ HandedBack(r).execution_generation = r.execution_generation
         /\ \A w \in Workers : r.execution_generation < MaxGeneration =>
               /\ Claimed(r, w) \in Row /\ Claimed(r, w).state = "RUNNING"
               /\ Claimed(r, w).attempt_number = r.attempt_number
               /\ Claimed(r, w).execution_generation = r.execution_generation + 1
               /\ Claimed(r, w).claimed_by_worker = w
  <1>1. r.execution_generation < MaxGeneration => r.execution_generation + 1 \in Generations
    BY IdentityType, MaxGenerationType DEF Generations
  <1>2. "QUEUED" \in TaskState /\ "RUNNING" \in TaskState
    BY DEF TaskState, InFlight
  <1> USE <1>1, <1>2 DEF Row
  <1>3. ASSUME NEW s \in TaskState
        PROVE  /\ Finished(r, s) \in Row /\ Finished(r, s).state = s
               /\ Finished(r, s).attempt_number = r.attempt_number
               /\ Finished(r, s).execution_generation = r.execution_generation
               /\ Finished(r, s).claimed_by_worker = r.claimed_by_worker
    BY DEF Finished
  <1>4. /\ HandedBack(r) \in Row /\ HandedBack(r).state = "QUEUED"
        /\ HandedBack(r).attempt_number = r.attempt_number
        /\ HandedBack(r).execution_generation = r.execution_generation
    BY DEF HandedBack
  <1>5. ASSUME NEW w \in Workers, r.execution_generation < MaxGeneration
        PROVE  /\ Claimed(r, w) \in Row /\ Claimed(r, w).state = "RUNNING"
               /\ Claimed(r, w).attempt_number = r.attempt_number
               /\ Claimed(r, w).execution_generation = r.execution_generation + 1
               /\ Claimed(r, w).claimed_by_worker = w
    BY <1>5 DEF Claimed
  <1> HIDE DEF Row
  <1> QED BY <1>3, <1>4, <1>5

\* Transitions to the next attempt.
LEMMA RequeueTransitions ==
  ASSUME NEW r \in Row, r.attempt_number < MaxGeneration + 1
  PROVE  /\ RequeuedByPolicy(r) \in Row /\ RequeuedByPolicy(r).state = "QUEUED"
         /\ RequeuedByPolicy(r).attempt_number = r.attempt_number + 1
         /\ RequeuedByPolicy(r).execution_generation = r.execution_generation
         /\ r.execution_generation < MaxGeneration =>
               /\ RequeuedByRetry(r) \in Row /\ RequeuedByRetry(r).state = "QUEUED"
               /\ RequeuedByRetry(r).attempt_number = r.attempt_number + 1
               /\ RequeuedByRetry(r).execution_generation = r.execution_generation + 1
  <1>1. r.attempt_number + 1 \in Attempts
    BY IdentityType, MaxGenerationType DEF Attempts
  <1>2. r.execution_generation < MaxGeneration => r.execution_generation + 1 \in Generations
    BY IdentityType, MaxGenerationType DEF Generations
  <1>3. "QUEUED" \in TaskState
    BY DEF TaskState
  <1>4. /\ RequeuedByPolicy(r) \in Row /\ RequeuedByPolicy(r).state = "QUEUED"
        /\ RequeuedByPolicy(r).attempt_number = r.attempt_number + 1
        /\ RequeuedByPolicy(r).execution_generation = r.execution_generation
    BY <1>1, <1>3 DEF RequeuedByPolicy, Row
  <1>5. r.execution_generation < MaxGeneration =>
               /\ RequeuedByRetry(r) \in Row /\ RequeuedByRetry(r).state = "QUEUED"
               /\ RequeuedByRetry(r).attempt_number = r.attempt_number + 1
               /\ RequeuedByRetry(r).execution_generation = r.execution_generation + 1
    BY <1>1, <1>2, <1>3 DEF RequeuedByRetry, Row
  <1> QED BY <1>4, <1>5

LEMMA ArchivedType ==
  ASSUME NEW h \in [Attempts -> Terminal \cup {None}], NEW r \in Row, NEW s \in Terminal
  PROVE  /\ Archived(h, r, s) \in [Attempts -> Terminal \cup {None}]
         /\ \A n \in Attempts :
               Archived(h, r, s)[n] = IF n = r.attempt_number THEN s ELSE h[n]
  BY DEF Archived, Row

-----------------------------------------------------------------------------
(***************************************************************************)
(* The inductive invariant.                                                *)
(***************************************************************************)

\* The row is in flight as execution i of worker w.
Mine(w, i) ==
    /\ row.claimed_by_worker = w
    /\ Identity(row) = i
    /\ row.state \in InFlight

\* Between a claim and the end of its submission, and whatever is read from a
\* running row.
Claiming == {"claimed", "submit", "track", "fail"}
ReadRunning == Claiming \cup {"apply", "terminalize", "overtime", "stuck", "handoff"}

\* Where a worker has no handle and where it has one, and what its snapshot is of.
HandleAt(w) ==
    /\ worker[w].phase \in {"new", "down"} => worker[w].pc = "idle" /\ worker[w].handle = None
    /\ worker[w].pc \in {"claimed", "submit", "fail", "reply", "apply", "finalize"} => worker[w].handle = None
    /\ worker[w].pc = "stuck" /\ Live(w) => worker[w].handle = None
    /\ worker[w].pc = "wait" => worker[w].handle # None
    /\ worker[w].pc \in {"lost", "terminalize"} => ~worker[w].connected

Snapshots(w) ==
    /\ worker[w].pc \in ReadRunning =>
          worker[w].snapshot \in Row /\ worker[w].snapshot.state = "RUNNING"
    /\ worker[w].pc \in Claiming => worker[w].snapshot.claimed_by_worker = w
    /\ worker[w].pc = "track" => worker[w].handle = Identity(worker[w].snapshot)

\* A worker with a live lease has not lost what it claimed or has a handle of.
Keeps(w) ==
    Live(w) =>
        /\ worker[w].pc \in Claiming => Mine(w, Identity(worker[w].snapshot))
        /\ worker[w].handle # None => Mine(w, worker[w].handle)

WorkerInv(w) == HandleAt(w) /\ Snapshots(w) /\ Keeps(w)

\* Attempts leave room for a retry (see TaskLifecycle!AttemptsWithin).
AttemptsWithin ==
    /\ row.attempt_number <= row.execution_generation + 1
    /\ row.state \in InFlight => row.attempt_number <= row.execution_generation

Typed == TypeOK /\ AttemptsWithin
Inv == Typed /\ \A w \in Workers : WorkerInv(w)

-----------------------------------------------------------------------------
(***************************************************************************)
(* What a step does to the worker processes.                               *)
(***************************************************************************)

\* The worker is as before, up to the heartbeat it may have missed.
SameWorker(v) ==
    /\ worker'[v].phase = worker[v].phase
    /\ worker'[v].pc = worker[v].pc
    /\ worker'[v].connected = worker[v].connected
    /\ worker'[v].handle = worker[v].handle
    /\ worker'[v].snapshot = worker[v].snapshot

\* Only w moves.
WorkerStep(w) ==
    /\ worker' \in [Workers -> Worker]
    /\ \A v \in Workers \ {w} : SameWorker(v)

PCs == {"idle", "claimed", "submit", "track", "fail", "wait", "reply",
        "apply", "finalize", "lost", "terminalize", "overtime", "stuck",
        "cancel", "handoff"}

Handles == Identities \cup {None}

\* One worker takes a new state.
LEMMA OneMoves ==
  ASSUME worker \in [Workers -> Worker], NEW w \in Workers, NEW k \in Worker,
         worker' = [worker EXCEPT ![w] = k]
  PROVE  WorkerStep(w) /\ worker'[w] = k
  BY DEF WorkerStep, SameWorker

LEMMA ReturnMoves ==
  ASSUME worker \in [Workers -> Worker], NEW w \in Workers, NEW h \in Handles, Return(w, h)
  PROVE  /\ WorkerStep(w)
         /\ worker'[w].pc = "idle" /\ worker'[w].handle = h
         /\ worker'[w].phase = worker[w].phase /\ worker'[w].connected = worker[w].connected
  <1> DEFINE k == [worker[w] EXCEPT !.pc = "idle", !.handle = h, !.snapshot = None, !.moved = FALSE]
  <1>1. k \in Worker
    BY DEF Worker, Handles
  <1>2. worker' = [worker EXCEPT ![w] = k]
    BY DEF Return
  <1>3. WorkerStep(w) /\ worker'[w] = k
    BY <1>1, <1>2, OneMoves
  <1>4. /\ k.pc = "idle" /\ k.handle = h
        /\ k.phase = worker[w].phase /\ k.connected = worker[w].connected
    BY DEF Worker
  <1> QED BY <1>3, <1>4

LEMMA GotoMoves ==
  ASSUME worker \in [Workers -> Worker], NEW w \in Workers, NEW pc \in PCs, Goto(w, pc)
  PROVE  /\ WorkerStep(w)
         /\ worker'[w].pc = pc /\ worker'[w].handle = worker[w].handle
         /\ worker'[w].phase = worker[w].phase /\ worker'[w].connected = worker[w].connected
         /\ worker'[w].snapshot = worker[w].snapshot
  <1> DEFINE k == [worker[w] EXCEPT !.pc = pc]
  <1>1. k \in Worker
    BY DEF Worker, PCs
  <1>2. worker' = [worker EXCEPT ![w] = k]
    BY DEF Goto
  <1>3. WorkerStep(w) /\ worker'[w] = k
    BY <1>1, <1>2, OneMoves
  <1>4. /\ k.pc = pc /\ k.handle = worker[w].handle /\ k.snapshot = worker[w].snapshot
        /\ k.phase = worker[w].phase /\ k.connected = worker[w].connected
    BY DEF Worker
  <1> QED BY <1>3, <1>4

LEMMA RememberMoves ==
  ASSUME worker \in [Workers -> Worker], row \in Row,
         NEW w \in Workers, NEW pc \in PCs, Remember(w, pc)
  PROVE  /\ WorkerStep(w)
         /\ worker'[w].pc = pc /\ worker'[w].handle = worker[w].handle
         /\ worker'[w].phase = worker[w].phase /\ worker'[w].connected = worker[w].connected
         /\ worker'[w].snapshot = row
  <1> DEFINE k == [worker[w] EXCEPT !.pc = pc, !.snapshot = row, !.moved = FALSE]
  <1>1. k \in Worker
    BY DEF Worker, PCs
  <1>2. worker' = [worker EXCEPT ![w] = k]
    BY DEF Remember
  <1>3. WorkerStep(w) /\ worker'[w] = k
    BY <1>1, <1>2, OneMoves
  <1>4. /\ k.pc = pc /\ k.handle = worker[w].handle /\ k.snapshot = row
        /\ k.phase = worker[w].phase /\ k.connected = worker[w].connected
    BY DEF Worker
  <1> QED BY <1>3, <1>4

\* Marking a heartbeat as missed moves nobody.
LEMMA MovedMoves ==
  ASSUME NEW ws \in [Workers -> Worker], worker' = Moved(ws)
  PROVE  /\ worker' \in [Workers -> Worker]
         /\ \A v \in Workers :
               /\ worker'[v].phase = ws[v].phase /\ worker'[v].pc = ws[v].pc
               /\ worker'[v].connected = ws[v].connected /\ worker'[v].handle = ws[v].handle
               /\ worker'[v].snapshot = ws[v].snapshot
  <1>1. ASSUME NEW v \in Workers
        PROVE  /\ worker'[v] \in Worker
               /\ worker'[v].phase = ws[v].phase /\ worker'[v].pc = ws[v].pc
               /\ worker'[v].connected = ws[v].connected /\ worker'[v].handle = ws[v].handle
               /\ worker'[v].snapshot = ws[v].snapshot
    <2> DEFINE k == [ws[v] EXCEPT !.moved = TRUE]
    <2>1. /\ k \in Worker
          /\ k.phase = ws[v].phase /\ k.pc = ws[v].pc /\ k.connected = ws[v].connected
          /\ k.handle = ws[v].handle /\ k.snapshot = ws[v].snapshot
      BY DEF Worker
    <2>2. worker'[v] = IF ws[v].snapshot # None THEN k ELSE ws[v]
      BY DEF Moved
    <2> HIDE DEF k
    <2> QED BY <2>1, <2>2
  <1>2. worker' = [v \in Workers |-> worker'[v]]
    BY DEF Moved
  <1> QED BY <1>1, <1>2

-----------------------------------------------------------------------------
(***************************************************************************)
(* What a step of w does to the row.                                       *)
(***************************************************************************)

\* No worker with lease, connection and handle is the owner.
Unpolled ==
    \A v \in Workers :
        ~ ( /\ row.claimed_by_worker = v /\ Live(v)
            /\ worker[v].connected /\ worker[v].handle = Identity(row) )

\* The row is typed, a cancellation ends as one, no polled row is requeued and
\* no other worker with a live lease loses an execution.
RowStep(w) ==
    /\ row' \in Row
    /\ attempts' \in [Attempts -> Terminal \cup {None}]
    /\ AttemptsWithin'
    /\ row.state = "CANCELLING" => row'.state \in {"CANCELLING", "CANCELLED"}
    /\ row.state = "RUNNING" /\ row'.state = "QUEUED" => Unpolled
    /\ \A v \in Workers \ {w}, i \in Identities :
          Live(v) /\ Mine(v, i) => Mine(v, i)'

LEMMA RowSame ==
  ASSUME Typed, NEW w, UNCHANGED <<row, attempts>>
  PROVE  RowStep(w)
  <1>1. row' = row /\ attempts' = attempts
    OBVIOUS
  <1> QED BY <1>1 DEF RowStep, Typed, TypeOK, AttemptsWithin, Mine

\* The execution goes on, at most towards its cancellation.
LEMMA RowKeeps ==
  ASSUME Typed, NEW w, row' \in Row, attempts' = attempts,
         Identity(row') = Identity(row), row'.claimed_by_worker = row.claimed_by_worker,
         row'.state = row.state \/ (row.state = "RUNNING" /\ row'.state = "CANCELLING")
  PROVE  RowStep(w)
  <1>1. row'.attempt_number = row.attempt_number /\ row'.execution_generation = row.execution_generation
    BY DEF Identity
  <1>2. AttemptsWithin'
    BY <1>1, States DEF Typed, AttemptsWithin
  <1>3. \A v \in Workers, i \in Identities : Mine(v, i) => Mine(v, i)'
    BY States DEF Mine
  <1> QED BY <1>2, <1>3 DEF RowStep, Typed, TypeOK

\* A worker that may take the row takes it from no other live one.
LEMMA Fence ==
  ASSUME NEW w \in Workers, NEW v \in Workers \ {w}, Live(v),
         MayTakeFrom(w, row.claimed_by_worker)
  PROVE  row.claimed_by_worker # v
  BY NoneIsNull DEF MayTakeFrom

\* A terminal transition, possibly after an adoption.
LEMMA RowEnds ==
  ASSUME Typed, NEW w \in Workers, NEW s \in Terminal, NEW r,
         r = row \/ r = Adopted(row, w), EndAs(r, s),
         row.state \in InFlight => MayTakeFrom(w, row.claimed_by_worker),
         row.state = "CANCELLING" => s = "CANCELLED"
  PROVE  RowStep(w)
  <1>1. row \in Row /\ s \in TaskState
    BY States DEF Typed, TypeOK
  <1>2. r \in Row /\ SameExecution(r, row)
    BY <1>1, ColumnTransitions DEF SameExecution
  <1>3. /\ row' \in Row /\ row'.state = s
        /\ row'.attempt_number = row.attempt_number
        /\ row'.execution_generation = row.execution_generation
    BY <1>1, <1>2, StateTransitions DEF EndAs, SameExecution
  <1>4. attempts' \in [Attempts -> Terminal \cup {None}]
    BY <1>2, ArchivedType DEF EndAs, Typed, TypeOK
  <1>5. AttemptsWithin'
    BY <1>3, States DEF Typed, AttemptsWithin
  <1>6. ASSUME NEW v \in Workers \ {w}, NEW i \in Identities, Live(v), Mine(v, i)
        PROVE  FALSE
    BY <1>6, Fence DEF Mine
  <1>7. row'.state # "QUEUED"
    BY <1>3, States
  <1> QED BY <1>3, <1>4, <1>5, <1>6, <1>7 DEF RowStep

\* A running row goes back to the queue.
LEMMA RowRequeues ==
  ASSUME Typed, NEW w \in Workers, row.state = "RUNNING",
         MayTakeFrom(w, row.claimed_by_worker), Unpolled,
         row' \in Row, row'.state = "QUEUED",
         attempts' \in [Attempts -> Terminal \cup {None}],
         row'.attempt_number <= row'.execution_generation + 1
  PROVE  RowStep(w)
  <1>1. ASSUME NEW v \in Workers \ {w}, NEW i \in Identities, Live(v), Mine(v, i)
        PROVE  FALSE
    BY <1>1, Fence DEF Mine
  <1>2. AttemptsWithin'
    BY States DEF AttemptsWithin
  <1> QED BY <1>1, <1>2 DEF RowStep

\* Attempts of a running row leave room for another one.
LEMMA RoomForRetry ==
  ASSUME Typed, row.state = "RUNNING"
  PROVE  /\ row \in Row /\ row.attempt_number \in Nat /\ row.execution_generation \in Nat
         /\ row.attempt_number < MaxGeneration + 1
         /\ row.attempt_number <= row.execution_generation
  <1>1. row \in Row /\ row.attempt_number <= row.execution_generation
    BY States DEF Typed, TypeOK, AttemptsWithin
  <1> QED BY <1>1, IdentityType, MaxGenerationType

LEMMA RowFails ==
  ASSUME Typed, NEW w \in Workers, row.state = "RUNNING",
         MayTakeFrom(w, row.claimed_by_worker), Unpolled,
         NEW b, HandleTaskFailure(b)
  PROVE  RowStep(w)
  <1>1. CASE EndAs(row, "FAILED")
    BY <1>1, RowEnds, States
  <1>2. CASE row' = RequeuedByPolicy(row) /\ attempts' = Archived(attempts, row, "FAILED")
    <2>1. /\ row' \in Row /\ row'.state = "QUEUED"
          /\ row'.attempt_number = row.attempt_number + 1
          /\ row'.execution_generation = row.execution_generation
      BY <1>2, RoomForRetry, RequeueTransitions
    <2>2. attempts' \in [Attempts -> Terminal \cup {None}]
      BY <1>2, RoomForRetry, ArchivedType, States DEF Typed, TypeOK
    <2>3. row'.attempt_number <= row'.execution_generation + 1
      BY <2>1, RoomForRetry
    <2> QED BY <2>1, <2>2, <2>3, RowRequeues
  <1> QED BY <1>1, <1>2 DEF HandleTaskFailure

-----------------------------------------------------------------------------
(***************************************************************************)
(* What a step keeps of each worker's invariant.                           *)
(***************************************************************************)

\* A worker that does not move.
LEMMA OthersKeep ==
  ASSUME Inv, NEW w, NEW v \in Workers \ {w}, RowStep(w), WorkerStep(w),
         Live(v)' => Live(v)
  PROVE  WorkerInv(v)'
  <1>1. WorkerInv(v) /\ SameWorker(v) /\ worker[v] \in Worker
    BY DEF Inv, WorkerStep, Typed, TypeOK
  <1>2. HandleAt(v)' /\ Snapshots(v)'
    BY <1>1 DEF WorkerInv, HandleAt, Snapshots, SameWorker
  <1>3. ASSUME Live(v)', worker'[v].pc \in Claiming
        PROVE  Mine(v, Identity(worker[v].snapshot))'
    <2>1. /\ worker[v].snapshot \in Row /\ Mine(v, Identity(worker[v].snapshot))
          /\ worker'[v].snapshot = worker[v].snapshot
      BY <1>1, <1>3 DEF WorkerInv, Snapshots, Keeps, SameWorker, ReadRunning
    <2>2. Identity(worker[v].snapshot) \in Identities
      BY <2>1, IdentityType
    <2>3. /\ row'.claimed_by_worker = v /\ row'.state \in InFlight
          /\ Identity(row') = Identity(worker[v].snapshot)
      BY <1>3, <2>1, <2>2 DEF RowStep, Mine
    <2> QED BY <2>1, <2>3 DEF Mine
  <1>4. ASSUME Live(v)', worker'[v].handle # None
        PROVE  Mine(v, worker[v].handle)'
    <2>1. worker[v].handle \in Identities /\ Mine(v, worker[v].handle)
      BY <1>1, <1>4 DEF WorkerInv, Keeps, SameWorker, Worker
    <2>2. Live(v)
      BY <1>4
    <2>3. /\ row'.claimed_by_worker = v /\ row'.state \in InFlight
          /\ Identity(row') = worker[v].handle
      BY <2>1, <2>2 DEF RowStep, Mine
    <2> QED BY <1>1, <2>3 DEF Mine, SameWorker
  <1> QED BY <1>2, <1>3, <1>4 DEF WorkerInv, Keeps

\* What every step is shown to do.
Good ==
    /\ Inv'
    /\ row.state = "CANCELLING" => row'.state \in {"CANCELLING", "CANCELLED"}
    /\ row.state = "RUNNING" /\ row'.state = "QUEUED" => Unpolled

\* A step of w, from what it does to the row, to w and to the leases.
LEMMA StepBy ==
  ASSUME Inv, NEW w \in Workers, RowStep(w), WorkerStep(w), WorkerInv(w)',
         lease' \in [Workers -> {"none", "live", "dead"}],
         \A v \in Workers \ {w} : Live(v)' => Live(v),
         tasks' \in [Identities -> TaskStatus]
  PROVE  Good
  <1>1. Typed'
    BY DEF Typed, TypeOK, RowStep, WorkerStep
  <1>2. ASSUME NEW v \in Workers PROVE WorkerInv(v)'
    BY OthersKeep
  <1> QED BY <1>1, <1>2 DEF Good, Inv, RowStep

\* Leases and remote tasks stay.
LEMMA RowStepBy ==
  ASSUME Inv, NEW w \in Workers, RowStep(w), WorkerStep(w), WorkerInv(w)',
         UNCHANGED <<lease, tasks>>
  PROVE  Good
  <1>1. /\ lease' \in [Workers -> {"none", "live", "dead"}]
        /\ \A v \in Workers \ {w} : Live(v)' => Live(v)
        /\ tasks' \in [Identities -> TaskStatus]
    BY DEF Inv, Typed, TypeOK, Live
  <1> QED BY <1>1, StepBy

Active(w) == worker[w].phase \in {"up", "stopping"}

\* Back to the loop with a handle of an execution that is still w's.
LEMMA ReturnKeeps ==
  ASSUME Inv, NEW w \in Workers, Active(w), NEW h \in Handles, Return(w, h),
         h # None /\ Live(w)' => Mine(w, h)'
  PROVE  WorkerInv(w)' /\ WorkerStep(w)
  <1>1. worker \in [Workers -> Worker]
    BY DEF Inv, Typed, TypeOK
  <1>2. /\ WorkerStep(w)
        /\ worker'[w].pc = "idle" /\ worker'[w].handle = h
        /\ worker'[w].phase = worker[w].phase /\ worker'[w].connected = worker[w].connected
    BY <1>1, ReturnMoves
  <1>3. HandleAt(w)' /\ Snapshots(w)'
    BY <1>2 DEF HandleAt, Snapshots, Active, ReadRunning, Claiming
  <1>4. Keeps(w)'
    <2>1. ASSUME Live(w)', worker'[w].handle # None PROVE Mine(w, worker[w].handle)'
      BY <1>2, <2>1 DEF Mine
    <2>2. worker'[w].pc \notin Claiming
      BY <1>2 DEF Claiming
    <2> QED BY <2>1, <2>2 DEF Keeps
  <1> QED BY <1>2, <1>3, <1>4 DEF WorkerInv

LEMMA HandleType ==
  ASSUME Inv, NEW w \in Workers
  PROVE  worker[w].handle \in Handles /\ None \in Handles /\ worker[w] \in Worker
  BY DEF Inv, Typed, TypeOK, Worker, Handles

LEMMA ReturnOnly ==
  ASSUME Inv, NEW w \in Workers, Active(w), NEW h \in {None, worker[w].handle}, Return(w, h),
         UNCHANGED <<row, attempts, lease, tasks>>
  PROVE  Good
  <1>1. h \in Handles /\ RowStep(w)
    BY HandleType, RowSame DEF Inv
  <1>2. h # None /\ Live(w)' => Mine(w, h)'
    BY DEF Inv, WorkerInv, Keeps, Mine, Live
  <1> QED BY <1>1, <1>2, ReturnKeeps, RowStepBy

\* On with what w read, or with nothing.
LEMMA MoveOnly ==
  ASSUME Inv, NEW w \in Workers, NEW pc \in PCs \ Claiming, Active(w),
         Goto(w, pc) \/ Remember(w, pc),
         pc \in ReadRunning => Remember(w, pc) /\ row.state = "RUNNING",
         pc \in {"reply", "apply", "finalize"} => worker[w].handle = None,
         pc = "stuck" /\ Live(w) => worker[w].handle = None,
         pc = "wait" => worker[w].handle # None,
         pc \in {"lost", "terminalize"} => ~worker[w].connected,
         UNCHANGED <<row, attempts, lease, tasks>>
  PROVE  Good
  <1>1. worker \in [Workers -> Worker] /\ row \in Row /\ RowStep(w)
    BY RowSame DEF Inv, Typed, TypeOK
  <1>2. /\ WorkerStep(w)
        /\ worker'[w].pc = pc /\ worker'[w].handle = worker[w].handle
        /\ worker'[w].phase = worker[w].phase /\ worker'[w].connected = worker[w].connected
        /\ pc \in ReadRunning => worker'[w].snapshot = row
    BY <1>1, GotoMoves, RememberMoves
  <1>3. HandleAt(w)'
    BY <1>2 DEF HandleAt, Active, Claiming, Live
  <1>4. Snapshots(w)'
    BY <1>1, <1>2 DEF Snapshots, Claiming
  <1>5. Keeps(w)'
    BY <1>2 DEF Inv, WorkerInv, Keeps, Mine, Live
  <1> QED BY <1>1, <1>2, <1>3, <1>4, <1>5, RowStepBy DEF WorkerInv

-----------------------------------------------------------------------------
(***************************************************************************)
(* Process life and the connection to Ray.                                 *)
(***************************************************************************)

\* A worker at the head of its loop, or down, without a handle.
LEMMA NoHandle ==
  ASSUME NEW w \in Workers, worker'[w].pc = "idle", worker'[w].handle = None
  PROVE  WorkerInv(w)'
  <1>1. HandleAt(w)' /\ Snapshots(w)'
    BY DEF HandleAt, Snapshots, ReadRunning, Claiming
  <1>2. Keeps(w)'
    BY DEF Keeps, Claiming
  <1> QED BY <1>1, <1>2 DEF WorkerInv

\* Only the lease of w changes.
LEMMA LeaseStep ==
  ASSUME Inv, NEW w \in Workers, NEW s \in {"none", "live", "dead"},
         lease' = [lease EXCEPT ![w] = s], UNCHANGED tasks
  PROVE  /\ lease' \in [Workers -> {"none", "live", "dead"}]
         /\ \A v \in Workers \ {w} : Live(v)' => Live(v)
         /\ lease'[w] = s
         /\ tasks' \in [Identities -> TaskStatus]
  BY DEF Inv, Typed, TypeOK, Live

LEMMA BootStep ==
  ASSUME Inv, NEW w \in Workers, Boot(w)
  PROVE  Good
  <1>1. PICK c \in BOOLEAN : worker' = [worker EXCEPT ![w].phase = "up", ![w].connected = c]
    BY DEF Boot
  <1> DEFINE k == [worker[w] EXCEPT !.phase = "up", !.connected = c]
  <1>2. worker \in [Workers -> Worker] /\ worker[w].pc = "idle" /\ worker[w].handle = None
    BY DEF Boot, Inv, WorkerInv, HandleAt, Typed, TypeOK
  <1>3. k \in Worker /\ k.pc = worker[w].pc /\ k.handle = worker[w].handle
    <2>1. c \in BOOLEAN /\ worker[w] \in Worker
      BY <1>2
    <2> QED BY <2>1 DEF Worker
  <1>4. worker' = [worker EXCEPT ![w] = k]
    BY <1>1, <1>2
  <1> HIDE DEF k
  <1>5. WorkerStep(w) /\ WorkerInv(w)'
    BY <1>2, <1>3, <1>4, OneMoves, NoHandle
  <1>6. RowStep(w)
    BY RowSame DEF Boot, Inv
  <1> QED BY <1>5, <1>6, LeaseStep, StepBy DEF Boot

\* A process that is gone has no handle.
LEMMA Goes ==
  ASSUME Inv, NEW w \in Workers,
         worker' = [worker EXCEPT ![w] = [Unstarted EXCEPT !.phase = "down"]]
  PROVE  WorkerStep(w) /\ WorkerInv(w)'
  <1> DEFINE k == [Unstarted EXCEPT !.phase = "down"]
  <1>1. worker \in [Workers -> Worker]
    BY DEF Inv, Typed, TypeOK
  <1>2. k \in Worker /\ k.pc = "idle" /\ k.handle = None
    BY DEF Unstarted, Worker
  <1> HIDE DEF k
  <1>3. WorkerStep(w) /\ worker'[w] = k
    BY <1>1, <1>2, OneMoves DEF k
  <1> QED BY <1>2, <1>3, NoHandle

LEMMA CrashStep ==
  ASSUME Inv, NEW w \in Workers, Crash(w)
  PROVE  Good
  BY Goes, RowSame, RowStepBy DEF Crash, Inv

LEMMA LoseLeaseStep ==
  ASSUME Inv, NEW w \in Workers, LoseLease(w)
  PROVE  Good
  <1>1. WorkerStep(w) /\ WorkerInv(w)' /\ RowStep(w)
    BY Goes, RowSame DEF LoseLease, Inv
  <1> QED BY <1>1, LeaseStep, StepBy DEF LoseLease

LEMMA LeaseAgesStep ==
  ASSUME Inv, NEW w \in Workers, LeaseAges(w)
  PROVE  Good
  <1>1. RowStep(w)
    BY RowSame DEF LeaseAges, Inv
  <1>2. WorkerStep(w) /\ worker' = worker
    BY DEF LeaseAges, WorkerStep, SameWorker, Inv, Typed, TypeOK
  <1>3. ~Live(w)'
    BY LeaseStep DEF LeaseAges, Live
  <1>4. WorkerInv(w)'
    BY <1>2, <1>3 DEF Inv, WorkerInv, HandleAt, Snapshots, Keeps
  <1> QED BY <1>1, <1>2, <1>4, LeaseStep, StepBy DEF LeaseAges

\* Steps that keep program counter, handle and snapshot.
LEMMA OwnKeeps ==
  ASSUME Inv, NEW w \in Workers, NEW p \in {"up", "stopping"}, NEW c \in BOOLEAN,
         worker' = [worker EXCEPT ![w] = [worker[w] EXCEPT !.phase = p, !.connected = c]],
         worker[w].pc \in {"lost", "terminalize"} => ~c,
         UNCHANGED <<row, attempts, lease, tasks>>
  PROVE  Good
  <1> DEFINE k == [worker[w] EXCEPT !.phase = p, !.connected = c]
  <1>1. worker \in [Workers -> Worker]
    BY DEF Inv, Typed, TypeOK
  <1>2. /\ k \in Worker /\ k.phase = p /\ k.connected = c
        /\ k.pc = worker[w].pc /\ k.handle = worker[w].handle /\ k.snapshot = worker[w].snapshot
    BY <1>1 DEF Worker
  <1> HIDE DEF k
  <1>3. WorkerStep(w) /\ worker'[w] = k
    BY <1>1, <1>2, OneMoves DEF k
  <1>4. HandleAt(w)' /\ Snapshots(w)'
    BY <1>2, <1>3 DEF Inv, WorkerInv, HandleAt, Snapshots, Live
  <1>5. Keeps(w)'
    BY <1>2, <1>3 DEF Inv, WorkerInv, Keeps, Mine, Live
  <1> QED BY <1>3, <1>4, <1>5, RowSame, RowStepBy DEF WorkerInv, Inv

LEMMA SignalStep ==
  ASSUME Inv, NEW w \in Workers, Signal(w)
  PROVE  Good
  <1>1. worker \in [Workers -> Worker] /\ worker[w] \in Worker /\ worker[w].connected \in BOOLEAN
    BY DEF Inv, Typed, TypeOK, Worker
  <1>2. [worker[w] EXCEPT !.phase = "stopping"] =
          [worker[w] EXCEPT !.phase = "stopping", !.connected = worker[w].connected]
    BY <1>1 DEF Worker
  <1>3. worker' = [worker EXCEPT ![w] = [worker[w] EXCEPT !.phase = "stopping"]]
    BY <1>1 DEF Signal
  <1>4. worker[w].pc \in {"lost", "terminalize"} => ~worker[w].connected
    BY DEF Inv, WorkerInv, HandleAt
  <1> QED BY <1>1, <1>2, <1>3, <1>4, OwnKeeps DEF Signal

LEMMA StoppedStep ==
  ASSUME Inv, NEW w \in Workers, Stopped(w)
  PROVE  Good
  <1> DEFINE k == [worker[w] EXCEPT !.phase = "down", !.connected = FALSE]
  <1>1. worker \in [Workers -> Worker]
    BY DEF Inv, Typed, TypeOK
  <1>2. k \in Worker /\ k.pc = worker[w].pc /\ k.handle = worker[w].handle
    BY <1>1 DEF Worker
  <1>3. worker' = [worker EXCEPT ![w] = k]
    BY <1>1 DEF Stopped
  <1> HIDE DEF k
  <1>4. WorkerStep(w) /\ WorkerInv(w)'
    BY <1>1, <1>2, <1>3, OneMoves, NoHandle DEF Stopped
  <1>5. RowStep(w)
    BY RowSame DEF Stopped, Inv
  <1> QED BY <1>4, <1>5, LeaseStep, StepBy DEF Stopped

LEMMA DisconnectStep ==
  ASSUME Inv, NEW w \in Workers, Disconnect(w)
  PROVE  Good
  <1>1. worker \in [Workers -> Worker] /\ worker[w] \in Worker
    BY DEF Inv, Typed, TypeOK
  <1>2. [worker[w] EXCEPT !.connected = FALSE] = [worker[w] EXCEPT !.phase = "up", !.connected = FALSE]
    BY <1>1 DEF Worker, Disconnect
  <1>3. worker' = [worker EXCEPT ![w] = [worker[w] EXCEPT !.connected = FALSE]]
    BY <1>1 DEF Disconnect
  <1> QED BY <1>1, <1>2, <1>3, OwnKeeps DEF Disconnect

LEMMA ReconnectStep ==
  ASSUME Inv, NEW w \in Workers, Reconnect(w)
  PROVE  Good
  <1>1. worker \in [Workers -> Worker] /\ worker[w] \in Worker
    BY DEF Inv, Typed, TypeOK
  <1>2. [worker[w] EXCEPT !.connected = TRUE] = [worker[w] EXCEPT !.phase = "up", !.connected = TRUE]
    BY <1>1 DEF Worker, Reconnect, Looping
  <1>3. worker' = [worker EXCEPT ![w] = [worker[w] EXCEPT !.connected = TRUE]]
    BY <1>1 DEF Reconnect
  <1> QED BY <1>1, <1>2, <1>3, OwnKeeps DEF Reconnect, Looping

LEMMA BeginReconnectStep ==
  ASSUME Inv, NEW w \in Workers, BeginReconnect(w)
  PROVE  Good
  <1> DEFINE pc == IF worker[w].handle = None THEN "idle" ELSE "lost"
             k == [worker[w] EXCEPT !.connected = FALSE, !.pc = pc]
  <1>1. worker \in [Workers -> Worker]
    BY DEF Inv, Typed, TypeOK
  <1>2. pc \in {"idle", "lost"}
    OBVIOUS
  <1>3. worker' = [worker EXCEPT ![w] = k]
    BY <1>1 DEF BeginReconnect
  <1> HIDE DEF pc
  <1>4. /\ k \in Worker /\ k.phase = worker[w].phase /\ k.connected = FALSE
        /\ k.pc = pc /\ k.handle = worker[w].handle
    BY <1>1, <1>2 DEF Worker
  <1> HIDE DEF k
  <1>5. WorkerStep(w) /\ worker'[w] = k
    BY <1>1, <1>3, <1>4, OneMoves
  <1>6. HandleAt(w)' /\ Snapshots(w)'
    BY <1>2, <1>4, <1>5 DEF BeginReconnect, Looping, HandleAt, Snapshots, ReadRunning, Claiming
  <1>7. Keeps(w)'
    BY <1>2, <1>4, <1>5 DEF BeginReconnect, Inv, WorkerInv, Keeps, Mine, Live, Claiming
  <1> QED BY <1>5, <1>6, <1>7, RowSame, RowStepBy DEF WorkerInv, Inv, BeginReconnect

-----------------------------------------------------------------------------
(***************************************************************************)
(* Steps that only read the row.                                           *)
(***************************************************************************)
LEMMA ReadHandoffStep ==
  ASSUME Inv, NEW w \in Workers, ReadHandoff(w)
  PROVE  Good
  <1>1. Active(w) /\ UNCHANGED <<row, attempts, lease, tasks>>
    BY DEF ReadHandoff, Active
  <1>2. CASE row.state = "RUNNING" /\ Remember(w, "handoff")
    BY <1>1, <1>2, MoveOnly DEF PCs, Claiming
  <1>3. CASE Return(w, None)
    BY <1>1, <1>3, ReturnOnly
  <1> QED BY <1>2, <1>3 DEF ReadHandoff

LEMMA WaitStep ==
  ASSUME Inv, NEW w \in Workers, Wait(w)
  PROVE  Good
  <1>1. Active(w) /\ worker[w].pc = "wait" /\ UNCHANGED <<row, attempts, lease, tasks>>
    BY DEF Wait, At, Active
  <1>2. CASE ~worker[w].connected /\ Goto(w, "lost")
    BY <1>1, <1>2, MoveOnly DEF PCs, Claiming, ReadRunning
  <1>3. CASE Return(w, worker[w].handle)
    BY <1>1, <1>3, ReturnOnly
  <1>4. CASE /\ tasks[worker[w].handle] \in Answer
             /\ worker' = [worker EXCEPT ![w].pc = "reply", ![w].handle = None,
                              ![w].reply = <<worker[w].handle, tasks[worker[w].handle]>>]
    <2> DEFINE a == <<worker[w].handle, tasks[worker[w].handle]>>
               k == [worker[w] EXCEPT !.pc = "reply", !.handle = None, !.reply = a]
    <2>1. worker \in [Workers -> Worker] /\ RowStep(w)
      BY <1>1, RowSame DEF Inv, Typed, TypeOK
    <2>2. worker[w].handle \in Identities
      BY <1>1, HandleType DEF Inv, WorkerInv, HandleAt, Handles
    <2>3. worker' = [worker EXCEPT ![w] = k]
      BY <1>4, <2>1
    <2>4. a \in Identities \X Answer
      BY <1>4, <2>2
    <2> HIDE DEF a
    <2>5. /\ k \in Worker /\ k.pc = "reply" /\ k.handle = None
          /\ k.phase = worker[w].phase
      BY <2>1, <2>4 DEF Worker
    <2> HIDE DEF k
    <2>6. WorkerStep(w) /\ worker'[w] = k
      BY <2>1, <2>3, <2>5, OneMoves
    <2>7. HandleAt(w)' /\ Snapshots(w)' /\ Keeps(w)'
      BY <1>1, <2>5, <2>6 DEF HandleAt, Snapshots, Keeps, ReadRunning, Claiming, Active
    <2> QED BY <1>1, <2>1, <2>6, <2>7, RowStepBy DEF WorkerInv
  <1> QED BY <1>1, <1>2, <1>3, <1>4 DEF Wait

LEMMA ReadRepliedStep ==
  ASSUME Inv, NEW w \in Workers, ReadReplied(w)
  PROVE  Good
  <1>1. /\ Active(w) /\ worker[w].handle = None
        /\ UNCHANGED <<row, attempts, lease, tasks>>
    BY DEF ReadReplied, At, Active, Inv, WorkerInv, HandleAt
  <1>2. CASE row.state = "RUNNING" /\ Remember(w, "apply")
    BY <1>1, <1>2, MoveOnly DEF PCs, Claiming
  <1>3. CASE Remember(w, "finalize")
    BY <1>1, <1>3, MoveOnly DEF PCs, Claiming, ReadRunning
  <1>4. CASE Return(w, worker[w].handle)
    BY <1>1, <1>4, ReturnOnly
  <1> QED BY <1>2, <1>3, <1>4 DEF ReadReplied

LEMMA DropAnswerStep ==
  ASSUME Inv, NEW w \in Workers, DropAnswer(w)
  PROVE  Good
  BY ReturnOnly DEF DropAnswer, At, Active

LEMMA ReadLostStep ==
  ASSUME Inv, NEW w \in Workers, ReadLost(w)
  PROVE  Good
  <1>1. Active(w) /\ ~worker[w].connected /\ UNCHANGED <<row, attempts, lease, tasks>>
    BY DEF ReadLost, At, Active, Inv, WorkerInv, HandleAt
  <1>2. CASE row.state = "RUNNING" /\ Remember(w, "terminalize")
    BY <1>1, <1>2, MoveOnly DEF PCs, Claiming
  <1>3. CASE Return(w, None)
    BY <1>1, <1>3, ReturnOnly
  <1> QED BY <1>2, <1>3 DEF ReadLost

\* detect_stuck_tasks takes no row of which its worker has a handle.
LEMMA ReadStuckStep ==
  ASSUME Inv, NEW w \in Workers, ReadStuck(w)
  PROVE  Good
  <1>1. Active(w) /\ row.state = "RUNNING" /\ UNCHANGED <<row, attempts, lease, tasks>>
    BY DEF ReadStuck, Looping, Active
  <1>2. CASE Remember(w, "overtime")
    BY <1>1, <1>2, MoveOnly DEF PCs, Claiming
  <1>3. CASE /\ ~(row.claimed_by_worker = w /\ worker[w].handle = Identity(row))
             /\ Remember(w, "stuck")
    <2>1. worker[w].handle = None
      BY <1>3 DEF ReadStuck, Inv, WorkerInv, Keeps, Mine
    <2> QED BY <1>1, <1>3, <2>1, MoveOnly DEF PCs, Claiming
  <1> QED BY <1>2, <1>3 DEF ReadStuck

LEMMA ReadCancellingStep ==
  ASSUME Inv, NEW w \in Workers, ReadCancelling(w)
  PROVE  Good
  <1>1. Active(w) /\ UNCHANGED <<row, attempts, lease, tasks>> /\ Remember(w, "cancel")
    BY DEF ReadCancelling, Looping, Active
  <1> QED BY <1>1, MoveOnly DEF PCs, Claiming, ReadRunning

LEMMA ProcessTaskStep ==
  ASSUME Inv, NEW w \in Workers, ProcessTask(w)
  PROVE  Good
  <1>1. /\ worker \in [Workers -> Worker] /\ RowStep(w)
        /\ worker[w].pc = "claimed" /\ Active(w) /\ Goto(w, "submit")
    BY RowSame DEF Inv, Typed, TypeOK, ProcessTask, At, Active
  <1>2. /\ WorkerStep(w)
        /\ worker'[w].pc = "submit" /\ worker'[w].handle = worker[w].handle
        /\ worker'[w].phase = worker[w].phase /\ worker'[w].connected = worker[w].connected
        /\ worker'[w].snapshot = worker[w].snapshot
    BY <1>1, GotoMoves DEF PCs
  <1>3. HandleAt(w)' /\ Snapshots(w)'
    BY <1>1, <1>2 DEF Inv, WorkerInv, HandleAt, Snapshots, Claiming, ReadRunning, Active
  <1>4. Keeps(w)'
    BY <1>1, <1>2 DEF ProcessTask, Inv, WorkerInv, Keeps, Mine, Live, Claiming
  <1> QED BY <1>1, <1>2, <1>3, <1>4, RowStepBy DEF WorkerInv, ProcessTask

LEMMA SubmitStep ==
  ASSUME Inv, NEW w \in Workers, Submit(w)
  PROVE  Good
  <1> DEFINE i == Identity(worker[w].snapshot)
             k == [worker[w] EXCEPT !.pc = "track", !.connected = TRUE, !.handle = i]
  <1>1. /\ worker \in [Workers -> Worker] /\ RowStep(w)
        /\ worker[w].pc = "submit" /\ Active(w)
    BY RowSame DEF Inv, Typed, TypeOK, Submit, At, Active
  <1>2. /\ worker[w].snapshot \in Row /\ worker[w].snapshot.state = "RUNNING"
        /\ worker[w].snapshot.claimed_by_worker = w
        /\ Live(w) => Mine(w, i)
    BY <1>1 DEF Inv, WorkerInv, Snapshots, Keeps, ReadRunning, Claiming
  <1>3. i \in Identities
    BY <1>2, IdentityType
  <1>4. worker' = [worker EXCEPT ![w] = k] /\ tasks' = [tasks EXCEPT ![i] = "alive"]
    BY <1>1 DEF Submit
  <1>5. tasks' \in [Identities -> TaskStatus]
    BY <1>4 DEF Inv, Typed, TypeOK, TaskStatus
  <1> HIDE DEF i
  <1>6. /\ k \in Worker /\ k.pc = "track" /\ k.handle = i
        /\ k.phase = worker[w].phase /\ k.snapshot = worker[w].snapshot
    BY <1>1, <1>3 DEF Worker
  <1> HIDE DEF k
  <1>7. WorkerStep(w) /\ worker'[w] = k
    BY <1>1, <1>4, <1>6, OneMoves
  <1>8. HandleAt(w)' /\ Snapshots(w)'
    BY <1>1, <1>2, <1>6, <1>7 DEF HandleAt, Snapshots, Claiming, ReadRunning, Active, i
  <1>9. Keeps(w)'
    BY <1>2, <1>6, <1>7 DEF Keeps, Mine, Live, Submit, i
  <1> QED BY <1>1, <1>5, <1>7, <1>8, <1>9, StepBy DEF WorkerInv, Submit, Live, Inv, Typed, TypeOK

-----------------------------------------------------------------------------
(***************************************************************************)
(* Steps that write the row.                                               *)
(***************************************************************************)

\* A step from a row that is not in flight takes nothing from anybody.
LEMMA RowOutside ==
  ASSUME NEW w, row.state \notin InFlight, row' \in Row,
         attempts' \in [Attempts -> Terminal \cup {None}], AttemptsWithin'
  PROVE  RowStep(w)
  BY DEF RowStep, Mine, InFlight

\* The two ways in which a requeueing worker is known not to poll the row.
LEMMA NotPolled ==
  ASSUME Inv, NEW w \in Workers, MayTakeFrom(w, row.claimed_by_worker),
         worker[w].handle = None \/ ~worker[w].connected
  PROVE  Unpolled
  <1>1. Identity(row) \in Identities
    BY IdentityType DEF Inv, Typed, TypeOK
  <1>2. Identity(row) # None
    BY <1>1, NoneIsNull
  <1> QED BY <1>2, Fence DEF Unpolled

\* A fence that names w as the owner.
LEMMA OwnFence ==
  ASSUME NEW w \in Workers, row.claimed_by_worker = w
  PROVE  MayTakeFrom(w, row.claimed_by_worker)
  BY DEF MayTakeFrom

\* What a fence on a row read as RUNNING shows.
LEMMA ExactFence ==
  ASSUME Inv, NEW w \in Workers, Exact(w), worker[w].pc \in ReadRunning
  PROVE  /\ row.state = "RUNNING" /\ row \in Row
         /\ row.claimed_by_worker = worker[w].snapshot.claimed_by_worker
         /\ worker[w].pc \in Claiming => row.claimed_by_worker = w
  BY DEF Exact, Inv, WorkerInv, Snapshots, Typed, TypeOK

\* Writing the row and going back to the loop without a handle.
LEMMA WriteAndReturn ==
  ASSUME Inv, NEW w \in Workers, Active(w), NEW h \in Handles, Return(w, h),
         RowStep(w), h # None /\ Live(w) => Mine(w, h)', UNCHANGED <<lease, tasks>>
  PROVE  Good
  <1>1. h # None /\ Live(w)' => Mine(w, h)'
    BY DEF Live
  <1> QED BY <1>1, ReturnKeeps, RowStepBy

\* The two outcomes of a step at a place where w has no handle.
LEMMA EndWithoutHandle ==
  ASSUME Inv, NEW w \in Workers, Active(w), worker[w].handle = None,
         Return(w, worker[w].handle) \/ Return(w, None), RowStep(w), UNCHANGED <<lease, tasks>>
  PROVE  Good
  BY WriteAndReturn, HandleType

LEMMA ExpireQueuedStep ==
  ASSUME Inv, NEW w \in Workers, ExpireQueued(w)
  PROVE  Good
  <1>1. RowStep(w)
    BY RowEnds, States DEF ExpireQueued, Inv
  <1>2. WorkerStep(w) /\ worker' = worker
    BY DEF ExpireQueued, WorkerStep, SameWorker, Inv, Typed, TypeOK
  <1>3. worker[w].pc = "idle" /\ worker[w].handle = None
    BY States DEF ExpireQueued, Looping, Inv, WorkerInv, Keeps, Mine
  <1> QED BY <1>1, <1>2, <1>3, NoHandle, RowStepBy DEF ExpireQueued

\* A worker that claims has no handle: it would be of an execution in flight.
LEMMA ClaimStep ==
  ASSUME Inv, NEW w \in Workers, Claim(w)
  PROVE  Good
  <1> DEFINE r == Claimed(row, w)
             k == [worker[w] EXCEPT !.pc = "claimed", !.snapshot = r, !.moved = FALSE]
  <1>1. row \in Row /\ worker \in [Workers -> Worker] /\ attempts' = attempts
    BY DEF Inv, Typed, TypeOK, Claim
  <1>2. /\ r \in Row /\ r.state = "RUNNING" /\ r.claimed_by_worker = w
        /\ r.attempt_number = row.attempt_number
        /\ r.execution_generation = row.execution_generation + 1
    BY <1>1, StateTransitions DEF Claim
  <1>3. worker' = [worker EXCEPT ![w] = k] /\ row' = r
    BY <1>1 DEF Claim
  <1> HIDE DEF r
  <1>4. /\ k \in Worker /\ k.pc = "claimed" /\ k.snapshot = r
        /\ k.phase = worker[w].phase /\ k.handle = worker[w].handle
    <2>1. r \in Row /\ worker[w] \in Worker
      BY <1>1, <1>2
    <2> QED BY <2>1 DEF Worker
  <1> HIDE DEF k
  <1>5. WorkerStep(w) /\ worker'[w] = k
    BY <1>1, <1>3, <1>4, OneMoves
  <1>6. AttemptsWithin'
    BY <1>1, <1>2, <1>3, IdentityType DEF Inv, Typed, AttemptsWithin
  <1>7. RowStep(w)
    BY <1>1, <1>2, <1>3, <1>6, RowOutside, States DEF Claim, Inv, Typed, TypeOK
  <1>8. Live(w) /\ worker[w].handle = None /\ worker[w].phase = "up"
    BY States DEF Claim, Looping, Inv, WorkerInv, Keeps, Mine
  <1>9. HandleAt(w)' /\ Snapshots(w)'
    BY <1>2, <1>4, <1>5, <1>8 DEF HandleAt, Snapshots, Claiming, ReadRunning
  <1>10. Keeps(w)'
    BY <1>2, <1>3, <1>4, <1>5, <1>8, States DEF Keeps, Mine
  <1> QED BY <1>5, <1>7, <1>9, <1>10, RowStepBy DEF WorkerInv, Claim

LEMMA HandBackStep ==
  ASSUME Inv, NEW w \in Workers, HandBack(w)
  PROVE  Good
  <1>1. /\ Active(w) /\ worker[w].pc = "claimed" /\ worker[w].handle = None
        /\ Return(w, worker[w].handle) /\ attempts' = attempts
    BY DEF HandBack, At, Active, Inv, WorkerInv, HandleAt
  <1>2. CASE ~Exact(w)
    BY <1>1, <1>2, RowSame, EndWithoutHandle DEF HandBack, Inv
  <1>3. CASE Exact(w)
    <2>1. row.state = "RUNNING" /\ row \in Row /\ row.claimed_by_worker = w /\ row' = HandedBack(row)
      BY <1>1, <1>3, ExactFence DEF HandBack, Claiming, ReadRunning
    <2>2. MayTakeFrom(w, row.claimed_by_worker) /\ Unpolled
      BY <1>1, <2>1, OwnFence, NotPolled
    <2>3. /\ row' \in Row /\ row'.state = "QUEUED"
          /\ row'.attempt_number = row.attempt_number
          /\ row'.execution_generation = row.execution_generation
      BY <2>1, StateTransitions
    <2>4. RowStep(w)
      BY <1>1, <2>1, <2>2, <2>3, RowRequeues DEF Inv, Typed, TypeOK, AttemptsWithin
    <2> QED BY <1>1, <2>4, EndWithoutHandle DEF HandBack
  <1> QED BY <1>2, <1>3

LEMMA HandoffStep ==
  ASSUME Inv, NEW w \in Workers, Handoff(w)
  PROVE  Good
  <1>1. Active(w) /\ worker[w].pc = "handoff" /\ Return(w, None) /\ attempts' = attempts
    BY DEF Handoff, At, Active
  <1>2. RowStep(w)
    <2>1. CASE ~OwnsExactly(w)
      BY <2>1, RowSame DEF Handoff, Inv
    <2>2. CASE OwnsExactly(w)
      <3>1. row.state = "RUNNING" /\ row \in Row
        BY <1>1, <2>2, ExactFence DEF OwnsExactly, ReadRunning
      <3>2. row' = Finished(row, "CANCELLING") /\ "CANCELLING" \in TaskState
        BY <2>2, States DEF Handoff, Finished
      <3>3. /\ row' \in Row /\ row'.state = "CANCELLING" /\ Identity(row') = Identity(row)
            /\ row'.claimed_by_worker = row.claimed_by_worker
        BY <3>1, <3>2, StateTransitions DEF Identity
      <3> QED BY <1>1, <3>1, <3>3, RowKeeps DEF Inv
    <2> QED BY <2>1, <2>2
  <1> QED BY <1>1, <1>2, WriteAndReturn, HandleType DEF Handoff

\* record_failure under a fence that names w, where w has no handle.
LEMMA FailOwn ==
  ASSUME Inv, NEW w \in Workers, Active(w), worker[w].handle = None,
         row.state = "RUNNING", row.claimed_by_worker = w,
         NEW b, HandleTaskFailure(b), Return(w, worker[w].handle), UNCHANGED <<lease, tasks>>
  PROVE  Good
  <1>1. MayTakeFrom(w, row.claimed_by_worker) /\ Unpolled
    BY OwnFence, NotPolled
  <1> QED BY <1>1, RowFails, EndWithoutHandle DEF Inv

LEMMA SubmissionFailsStep ==
  ASSUME Inv, NEW w \in Workers, SubmissionFails(w) \/ TrackingFails(w)
  PROVE  Good
  <1>1. /\ Active(w) /\ worker[w].handle = None
        /\ Return(w, worker[w].handle) /\ UNCHANGED <<lease, tasks>>
    BY DEF SubmissionFails, TrackingFails, At, Active, Inv, WorkerInv, HandleAt
  <1>2. CASE StillClaimedBy(w)
    <2>1. PICK b \in BOOLEAN : HandleTaskFailure(b)
      BY <1>2 DEF SubmissionFails, TrackingFails
    <2> QED BY <1>1, <1>2, <2>1, FailOwn DEF StillClaimedBy
  <1>3. CASE ~StillClaimedBy(w)
    BY <1>1, <1>3, RowSame, EndWithoutHandle DEF SubmissionFails, TrackingFails, Inv
  <1> QED BY <1>2, <1>3

LEMMA TrackStep ==
  ASSUME Inv, NEW w \in Workers, Track(w)
  PROVE  Good
  <1>1. /\ Active(w) /\ worker[w].pc = "track" /\ row \in Row
        /\ worker \in [Workers -> Worker] /\ attempts' = attempts
    BY DEF Track, At, Active, Inv, Typed, TypeOK
  <1>2. /\ worker[w].handle = Identity(worker[w].snapshot)
        /\ worker[w].snapshot \in Row /\ worker[w].snapshot.state = "RUNNING"
        /\ worker[w].snapshot.claimed_by_worker = w
        /\ Live(w) => Mine(w, Identity(worker[w].snapshot))
    BY <1>1 DEF Inv, WorkerInv, Snapshots, Keeps, Claiming, ReadRunning
  <1>3. ForgottenBy(w, Identity(worker[w].snapshot)) = None
    BY <1>2 DEF ForgottenBy
  <1>4. CASE row' = Tracked(row) /\ Return(w, worker[w].handle)
    <2>1. /\ row' \in Row /\ SameExecution(row', row)
          /\ row'.claimed_by_worker = row.claimed_by_worker
      BY <1>1, <1>4, ColumnTransitions
    <2>2. RowStep(w)
      BY <1>1, <2>1, RowKeeps DEF SameExecution, Identity, Inv
    <2>3. PICK h \in Handles : h = worker[w].handle
      BY HandleType
    <2>4. Live(w) => Mine(w, h)'
      BY <1>2, <2>1, <2>3 DEF Mine, SameExecution, Identity
    <2> QED BY <1>1, <1>4, <2>2, <2>3, <2>4, WriteAndReturn DEF Track
  <1>5. CASE Return(w, None) /\ UNCHANGED row
    BY <1>1, <1>5, ReturnOnly DEF Track
  <1>6. CASE /\ worker' = [worker EXCEPT ![w].pc = "fail",
                      ![w].handle = ForgottenBy(w, Identity(worker[w].snapshot))]
             /\ UNCHANGED row
    <2> DEFINE k == [worker[w] EXCEPT !.pc = "fail", !.handle = None]
    <2>1. worker' = [worker EXCEPT ![w] = k] /\ RowStep(w)
      BY <1>1, <1>3, <1>6, RowSame DEF Inv
    <2>2. /\ k \in Worker /\ k.pc = "fail" /\ k.handle = None
          /\ k.phase = worker[w].phase /\ k.snapshot = worker[w].snapshot
      BY <1>1 DEF Worker
    <2> HIDE DEF k
    <2>3. WorkerStep(w) /\ worker'[w] = k
      BY <1>1, <2>1, <2>2, OneMoves
    <2>4. HandleAt(w)' /\ Snapshots(w)'
      BY <1>1, <1>2, <2>2, <2>3 DEF HandleAt, Snapshots, Claiming, ReadRunning, Active
    <2>5. Keeps(w)'
      BY <1>2, <1>6, <2>2, <2>3 DEF Keeps, Mine, Live, Track
    <2> QED BY <2>1, <2>3, <2>4, <2>5, RowStepBy DEF WorkerInv, Track
  <1> QED BY <1>3, <1>4, <1>5, <1>6 DEF Track

LEMMA PartitionStep ==
  ASSUME Inv, NEW w \in Workers, Partition(w)
  PROVE  Good
  <1>1. /\ Active(w) /\ Live(w) /\ worker[w].handle # None /\ row \in Row
        /\ worker \in [Workers -> Worker] /\ UNCHANGED <<attempts, lease, tasks>>
    BY DEF Partition, Looping, Active, Inv, Typed, TypeOK
  <1>2. CASE Goto(w, "wait") /\ UNCHANGED row
    BY <1>1, <1>2, MoveOnly DEF PCs, Claiming, ReadRunning
  <1>3. CASE Return(w, None) /\ UNCHANGED row
    BY <1>1, <1>3, ReturnOnly
  <1>4. CASE row' = Monitored(row) /\ worker' = Moved([worker EXCEPT ![w].pc = "wait"])
    <2> DEFINE k == [worker[w] EXCEPT !.pc = "wait"]
               ws == [worker EXCEPT ![w] = k]
    <2>1. /\ k \in Worker /\ k.pc = "wait" /\ k.handle = worker[w].handle
          /\ k.phase = worker[w].phase /\ k.connected = worker[w].connected
      BY <1>1 DEF Worker
    <2>2. worker' = Moved(ws)
      BY <1>1, <1>4
    <2> HIDE DEF k
    <2>3. ws \in [Workers -> Worker] /\ ws[w] = k /\ \A v \in Workers \ {w} : ws[v] = worker[v]
      BY <1>1, <2>1
    <2> HIDE DEF ws
    <2>4. /\ WorkerStep(w)
          /\ worker'[w].pc = "wait" /\ worker'[w].handle = worker[w].handle
          /\ worker'[w].phase = worker[w].phase /\ worker'[w].connected = worker[w].connected
      BY <2>1, <2>2, <2>3, MovedMoves DEF WorkerStep, SameWorker
    <2>5. /\ row' \in Row /\ SameExecution(row', row)
          /\ row'.claimed_by_worker = row.claimed_by_worker
      BY <1>1, <1>4, ColumnTransitions
    <2>6. RowStep(w)
      BY <1>1, <2>5, RowKeeps DEF SameExecution, Identity, Inv
    <2>7. HandleAt(w)' /\ Snapshots(w)'
      BY <1>1, <2>4 DEF HandleAt, Snapshots, Claiming, ReadRunning, Active
    <2>8. Keeps(w)'
      BY <1>1, <2>4, <2>5 DEF Inv, WorkerInv, Keeps, Mine, Live, Claiming, SameExecution, Identity
    <2> QED BY <1>1, <2>4, <2>6, <2>7, <2>8, RowStepBy DEF WorkerInv
  <1> QED BY <1>2, <1>3, <1>4 DEF Partition

LEMMA ApplyStep ==
  ASSUME Inv, NEW w \in Workers, Apply(w)
  PROVE  Good
  <1>1. /\ Active(w) /\ worker[w].pc = "apply" /\ worker[w].handle = None
        /\ UNCHANGED <<lease, tasks>>
    BY DEF Apply, At, Active, Inv, WorkerInv, HandleAt
  <1>2. CASE ~OwnsExactly(w)
    BY <1>1, <1>2, MoveOnly DEF Apply, PCs, Claiming, ReadRunning
  <1>3. CASE OwnsExactly(w)
    <2>1. row.state = "RUNNING" /\ row \in Row /\ row.claimed_by_worker = w
      BY <1>1, <1>3, ExactFence DEF OwnsExactly, ReadRunning
    <2>2. CASE EndAs(row, "SUCCEEDED") /\ Return(w, worker[w].handle)
      BY <1>1, <2>1, <2>2, OwnFence, RowEnds, States, EndWithoutHandle DEF Inv
    <2>3. CASE HandleTaskFailure(worker[w].reply[2] = "failure") /\ Return(w, worker[w].handle)
      BY <1>1, <2>1, <2>3, FailOwn
    <2> QED BY <1>3, <2>2, <2>3 DEF Apply
  <1> QED BY <1>2, <1>3

LEMMA FinalizeStep ==
  ASSUME Inv, NEW w \in Workers, Finalize(w)
  PROVE  Good
  <1>1. /\ Active(w) /\ worker[w].handle = None /\ Return(w, worker[w].handle)
        /\ UNCHANGED <<lease, tasks>>
    BY DEF Finalize, At, Active, Inv, WorkerInv, HandleAt
  <1>2. CASE UNCHANGED <<row, attempts>>
    BY <1>1, <1>2, RowSame, EndWithoutHandle DEF Inv
  <1>3. CASE row.state = "CANCELLING" /\ row.claimed_by_worker = w /\ EndAs(row, "CANCELLED")
    BY <1>1, <1>3, OwnFence, RowEnds, States, EndWithoutHandle DEF Inv
  <1> QED BY <1>2, <1>3 DEF Finalize

LEMMA TerminalizeStep ==
  ASSUME Inv, NEW w \in Workers, Terminalize(w)
  PROVE  Good
  <1>1. /\ Active(w) /\ worker[w].pc = "terminalize" /\ ~worker[w].connected
        /\ Return(w, None) /\ UNCHANGED <<lease, tasks>>
    BY DEF Terminalize, At, Active, Inv, WorkerInv, HandleAt
  <1>2. RowStep(w)
    <2>1. CASE OwnsExactly(w)
      <3>1. row.state = "RUNNING" /\ row.claimed_by_worker = w
        BY <1>1, <2>1, ExactFence DEF OwnsExactly, ReadRunning
      <3>2. MayTakeFrom(w, row.claimed_by_worker) /\ Unpolled
        BY <1>1, <3>1, OwnFence, NotPolled
      <3> QED BY <2>1, <3>1, <3>2, RowFails DEF Terminalize, Inv
    <2>2. CASE ~OwnsExactly(w)
      BY <2>2, RowSame DEF Terminalize, Inv
    <2> QED BY <2>1, <2>2
  <1> QED BY <1>1, <1>2, WriteAndReturn, HandleType

\* Who holds a live lease and a handle holds that of the row it finishes.
LEMMA ForgetsOwn ==
  ASSUME Inv, NEW w \in Workers, Live(w)
  PROVE  ForgottenBy(w, Identity(row)) = None
  BY DEF Inv, WorkerInv, Keeps, Mine, ForgottenBy

\* An adoption that ends the row, by whoever may take it.
LEMMA EndByTakeover ==
  ASSUME Inv, NEW w \in Workers, Active(w), Live(w), TakesOver(w), NEW s \in Terminal,
         row.state = "CANCELLING" => s = "CANCELLED",
         EndAs(Adopted(row, w), s), Return(w, ForgottenBy(w, Identity(row))),
         UNCHANGED <<lease, tasks>>
  PROVE  Good
  <1>1. MayTakeFrom(w, row.claimed_by_worker)
    BY DEF TakesOver, Exact
  <1>2. RowStep(w)
    BY <1>1, RowEnds DEF Inv
  <1> QED BY <1>2, ForgetsOwn, WriteAndReturn, HandleType

LEMMA TimeOutStep ==
  ASSUME Inv, NEW w \in Workers, TimeOut(w)
  PROVE  Good
  <1>1. /\ Active(w) /\ Live(w) /\ worker[w].pc = "overtime" /\ UNCHANGED <<lease, tasks>>
    BY DEF TimeOut, At, Active
  <1>2. CASE TakesOver(w)
    <2>1. row.state = "RUNNING"
      BY <1>1, <1>2, ExactFence DEF TakesOver, ReadRunning
    <2> QED BY <1>1, <1>2, <2>1, EndByTakeover, States DEF TimeOut
  <1>3. CASE ~TakesOver(w)
    BY <1>1, <1>3, ReturnOnly DEF TimeOut
  <1> QED BY <1>2, <1>3

LEMMA FinishCancellationStep ==
  ASSUME Inv, NEW w \in Workers, FinishCancellation(w)
  PROVE  Good
  <1>1. Active(w) /\ Live(w) /\ UNCHANGED <<lease, tasks>>
    BY DEF FinishCancellation, At, Active
  <1>2. CASE TakesOver(w)
    BY <1>1, <1>2, EndByTakeover, States DEF FinishCancellation
  <1>3. CASE ~TakesOver(w)
    BY <1>1, <1>3, ReturnOnly DEF FinishCancellation
  <1> QED BY <1>2, <1>3

LEMMA RecoverLostStep ==
  ASSUME Inv, NEW w \in Workers, RecoverLost(w)
  PROVE  Good
  <1>1. /\ Active(w) /\ worker[w].pc = "stuck" /\ worker[w].handle = None
        /\ Return(w, worker[w].handle) /\ UNCHANGED <<lease, tasks>>
    BY DEF RecoverLost, At, Active, Inv, WorkerInv, HandleAt
  <1>2. CASE UNCHANGED <<row, attempts>>
    BY <1>1, <1>2, RowSame, EndWithoutHandle DEF Inv
  <1>3. ASSUME TakesOver(w)
        PROVE  row.state = "RUNNING" /\ MayTakeFrom(w, row.claimed_by_worker) /\ Unpolled
    <2>1. row.state = "RUNNING" /\ MayTakeFrom(w, row.claimed_by_worker)
      BY <1>1, <1>3, ExactFence DEF TakesOver, ReadRunning
    <2> QED BY <1>1, <2>1, NotPolled
  <1>4. CASE TakesOver(w) /\ EndAs(Adopted(row, w), "LOST")
    <2>1. RowStep(w)
      BY <1>3, <1>4, RowEnds, States DEF Inv
    <2> QED BY <1>1, <2>1, EndWithoutHandle
  <1>5. CASE /\ TakesOver(w) /\ row.execution_generation < MaxGeneration
             /\ row' = RequeuedByRetry(row)
             /\ attempts' = Archived(attempts, row, "LOST")
    <2>1. Typed /\ row.state = "RUNNING" /\ MayTakeFrom(w, row.claimed_by_worker) /\ Unpolled
      BY <1>3, <1>5 DEF Inv
    <2>2. /\ row' \in Row /\ row'.state = "QUEUED"
          /\ row'.attempt_number = row.attempt_number + 1
          /\ row'.execution_generation = row.execution_generation + 1
      BY <1>5, <2>1, RoomForRetry, RequeueTransitions
    <2>3. attempts' \in [Attempts -> Terminal \cup {None}]
      BY <1>5, <2>1, RoomForRetry, ArchivedType, States DEF Typed, TypeOK
    <2>4. row'.attempt_number <= row'.execution_generation + 1
      BY <2>1, <2>2, RoomForRetry
    <2>5. RowStep(w)
      BY <2>1, <2>2, <2>3, <2>4, RowRequeues
    <2> QED BY <1>1, <2>5, EndWithoutHandle
  <1> QED BY <1>2, <1>4, <1>5 DEF RecoverLost

LEMMA LoopFailsStep ==
  ASSUME Inv, NEW w \in Workers, LoopFails(w)
  PROVE  Good
  <1>1. worker \in [Workers -> Worker] /\ RowStep(w) /\ UNCHANGED <<row, lease, tasks>>
    BY RowSame DEF Inv, Typed, TypeOK, LoopFails
  <1>2. PICK h \in {None, worker[w].handle} :
           worker' = [worker EXCEPT ![w].phase = "stopping", ![w].pc = "idle",
                         ![w].handle = h, ![w].snapshot = None, ![w].moved = FALSE]
    BY DEF LoopFails, ForgottenBy
  <1> DEFINE k == [worker[w] EXCEPT !.phase = "stopping", !.pc = "idle",
                         !.handle = h, !.snapshot = None, !.moved = FALSE]
  <1>3. worker' = [worker EXCEPT ![w] = k]
    BY <1>1, <1>2
  <1>4. k \in Worker /\ k.phase = "stopping" /\ k.pc = "idle" /\ k.handle = h
    <2>1. h \in Identities \cup {None} /\ worker[w] \in Worker
      BY HandleType DEF Handles
    <2> QED BY <2>1 DEF Worker
  <1> HIDE DEF k
  <1>5. WorkerStep(w) /\ worker'[w] = k
    BY <1>1, <1>3, <1>4, OneMoves
  <1>6. HandleAt(w)' /\ Snapshots(w)'
    BY <1>4, <1>5 DEF HandleAt, Snapshots, Claiming, ReadRunning
  <1>7. Keeps(w)'
    BY <1>1, <1>4, <1>5 DEF Inv, WorkerInv, Keeps, Mine, Live, Claiming
  <1> QED BY <1>1, <1>5, <1>6, <1>7, RowStepBy DEF WorkerInv

-----------------------------------------------------------------------------
(***************************************************************************)
(* Remote tasks, administrators and time: no worker moves.                 *)
(***************************************************************************)
LEMMA StepByNobody ==
  ASSUME Inv, RowStep(None), UNCHANGED lease,
         worker' \in [Workers -> Worker], \A v \in Workers : SameWorker(v),
         tasks' \in [Identities -> TaskStatus]
  PROVE  Good
  <1>1. Workers \ {None} = Workers
    BY NoneIsNull
  <1>2. WorkerStep(None)
    BY DEF WorkerStep
  <1>3. ASSUME NEW v \in Workers PROVE WorkerInv(v)'
    BY <1>1, <1>2, OthersKeep DEF Live
  <1>4. Typed'
    BY DEF Typed, TypeOK, RowStep, Inv
  <1> QED BY <1>3, <1>4 DEF Good, Inv, RowStep

LEMMA RowStepByNobody ==
  ASSUME Inv, RowStep(None), UNCHANGED <<lease, worker, tasks>>
  PROVE  Good
  <1>1. worker' \in [Workers -> Worker] /\ \A v \in Workers : SameWorker(v)
    BY DEF SameWorker, Inv, Typed, TypeOK
  <1> QED BY <1>1, StepByNobody DEF Inv, Typed, TypeOK

LEMMA TaskReturnsStep ==
  ASSUME Inv, NEW i \in Identities, TaskReturns(i)
  PROVE  Good
  <1>1. RowStep(None)
    BY RowSame DEF TaskReturns, Inv
  <1>2. tasks' \in [Identities -> TaskStatus]
    BY DEF TaskReturns, TaskStatus, Inv, Typed, TypeOK
  <1>3. worker' \in [Workers -> Worker] /\ \A v \in Workers : SameWorker(v)
    BY DEF TaskReturns, SameWorker, Inv, Typed, TypeOK
  <1> QED BY <1>1, <1>2, <1>3, StepByNobody DEF TaskReturns

LEMMA PublishActivityStep ==
  ASSUME Inv, NEW i \in Identities, PublishActivity(i)
  PROVE  Good
  <1>1. row \in Row /\ worker \in [Workers -> Worker] /\ tasks' \in [Identities -> TaskStatus]
    BY DEF PublishActivity, Inv, Typed, TypeOK
  <1>2. /\ row' \in Row /\ SameExecution(row', row)
        /\ row'.claimed_by_worker = row.claimed_by_worker
    BY <1>1, ColumnTransitions DEF PublishActivity
  <1>3. RowStep(None)
    BY <1>2, RowKeeps DEF PublishActivity, SameExecution, Identity, Inv
  <1>4. worker' \in [Workers -> Worker] /\ \A v \in Workers : SameWorker(v)
    BY <1>1, MovedMoves DEF PublishActivity, SameWorker
  <1> QED BY <1>1, <1>3, <1>4, StepByNobody DEF PublishActivity

\* The row a clock leaves behind is typed.
LEMMA AgedRow ==
  ASSUME NEW r \in Row, NEW q,
         q = [r EXCEPT !.last_heartbeat_at = "stale"] \/ q = [r EXCEPT !.started_at = "overtime"]
           \/ q = [r EXCEPT !.queue_deadline_at = "passed"]
  PROVE  q \in Row /\ SameExecution(q, r) /\ q.claimed_by_worker = r.claimed_by_worker
  <1>1. CASE q = [r EXCEPT !.last_heartbeat_at = "stale"]
    BY <1>1 DEF Row, SameExecution
  <1>2. CASE q = [r EXCEPT !.started_at = "overtime"]
    BY <1>2 DEF Row, SameExecution
  <1>3. CASE q = [r EXCEPT !.queue_deadline_at = "passed"]
    BY <1>3 DEF Row, SameExecution
  <1> QED BY <1>1, <1>2, <1>3

LEMMA ClockStep ==
  ASSUME Inv, HeartbeatAges \/ DeadlinePasses \/ RunsOvertime
  PROVE  Good
  <1>1. row \in Row /\ UNCHANGED <<attempts, lease, worker, tasks>>
    BY DEF HeartbeatAges, DeadlinePasses, RunsOvertime, Inv, Typed, TypeOK,
           Lifecycle!HeartbeatAges, Lifecycle!DeadlinePasses, Lifecycle!RunsOvertime
  <1>2. \/ row' = [row EXCEPT !.last_heartbeat_at = "stale"]
        \/ row' = [row EXCEPT !.started_at = "overtime"]
        \/ row' = [row EXCEPT !.queue_deadline_at = "passed"]
    BY DEF HeartbeatAges, DeadlinePasses, RunsOvertime,
           Lifecycle!HeartbeatAges, Lifecycle!DeadlinePasses, Lifecycle!RunsOvertime
  <1>3. /\ row' \in Row /\ SameExecution(row', row)
        /\ row'.claimed_by_worker = row.claimed_by_worker
    BY <1>1, <1>2, AgedRow
  <1>4. RowStep(None)
    BY <1>1, <1>3, RowKeeps DEF SameExecution, Identity, Inv
  <1> QED BY <1>1, <1>4, RowStepByNobody

LEMMA RequestCancellationStep ==
  ASSUME Inv, RequestCancellation
  PROVE  Good
  <1>0. "CANCELLED" \in TaskState /\ "CANCELLING" \in TaskState
    BY States
  <1>1. row \in Row /\ UNCHANGED <<lease, worker, tasks>>
    BY DEF RequestCancellation, Inv, Typed, TypeOK
  <1>2. CASE /\ row.state = "QUEUED" /\ row' = Finished(row, "CANCELLED")
             /\ attempts' = Archived(attempts, row, "CANCELLED")
    <2>1. /\ row' \in Row /\ row'.state = "CANCELLED"
          /\ row'.attempt_number = row.attempt_number
          /\ row'.execution_generation = row.execution_generation
      BY <1>0, <1>1, <1>2, StateTransitions
    <2>2. attempts' \in [Attempts -> Terminal \cup {None}]
      BY <1>1, <1>2, ArchivedType, States DEF Inv, Typed, TypeOK
    <2>3. AttemptsWithin'
      BY <2>1, States DEF Inv, Typed, AttemptsWithin
    <2> QED BY <1>1, <1>2, <2>1, <2>2, <2>3, RowOutside, RowStepByNobody, States
  <1>3. CASE /\ row.state = "RUNNING" /\ row' = Finished(row, "CANCELLING")
             /\ attempts' = attempts
    <2>1. /\ row' \in Row /\ row'.state = "CANCELLING" /\ Identity(row') = Identity(row)
          /\ row'.claimed_by_worker = row.claimed_by_worker
      BY <1>0, <1>1, <1>3, StateTransitions DEF Identity
    <2> QED BY <1>1, <1>3, <2>1, RowKeeps, RowStepByNobody DEF Inv
  <1> QED BY <1>2, <1>3
      DEF RequestCancellation, Lifecycle!RequestCancellation, Lifecycle!Finished,
          Lifecycle!Archived, Finished, Archived

LEMMA RetryStep ==
  ASSUME Inv, Retry
  PROVE  Good
  <1>1. /\ row \in Row /\ row.state \in Retryable /\ row.execution_generation < MaxGeneration
        /\ row' = RequeuedByRetry(row) /\ attempts' = Archived(attempts, row, row.state)
        /\ UNCHANGED <<lease, worker, tasks>>
    BY DEF Retry, Lifecycle!Retry, Lifecycle!Retryable, Lifecycle!RequeuedByRetry,
           Lifecycle!Archived, Retryable, RequeuedByRetry, Archived, Inv, Typed, TypeOK
  <1>2. /\ row.attempt_number \in Nat /\ row.execution_generation \in Nat
        /\ row.attempt_number < MaxGeneration + 1
        /\ row.attempt_number <= row.execution_generation + 1
    BY <1>1, IdentityType, MaxGenerationType DEF Inv, Typed, AttemptsWithin
  <1>3. /\ row' \in Row /\ row'.state = "QUEUED"
        /\ row'.attempt_number = row.attempt_number + 1
        /\ row'.execution_generation = row.execution_generation + 1
    BY <1>1, <1>2, RequeueTransitions
  <1>4. attempts' \in [Attempts -> Terminal \cup {None}]
    BY <1>1, ArchivedType, States DEF Inv, Typed, TypeOK
  <1>5. AttemptsWithin'
    BY <1>2, <1>3, States DEF AttemptsWithin
  <1>6. row.state \notin InFlight
    BY <1>1, States
  <1> QED BY <1>1, <1>3, <1>4, <1>5, <1>6, RowOutside, RowStepByNobody

-----------------------------------------------------------------------------
(***************************************************************************)
(* The theorems.                                                           *)
(***************************************************************************)
LEMMA Initial == Init => Inv
  <1> SUFFICES ASSUME Init PROVE Inv
    OBVIOUS
  <1>1. row \in Row /\ row.state = "QUEUED" /\ row.attempt_number = 1 /\ row.execution_generation = 0
    BY MaxGenerationType DEF Init, Enqueued, Row, TaskState, Attempts, Generations
  <1>2. Unstarted \in Worker /\ Unstarted.pc = "idle" /\ Unstarted.handle = None
    BY DEF Unstarted, Worker
  <1>3. TypeOK
    BY <1>1, <1>2 DEF Init, TypeOK, TaskStatus
  <1>4. AttemptsWithin
    BY <1>1, States DEF AttemptsWithin
  <1>5. ASSUME NEW w \in Workers PROVE WorkerInv(w)
    <2>1. worker[w].pc = "idle" /\ worker[w].handle = None
      BY <1>2 DEF Init
    <2> QED BY <2>1 DEF WorkerInv, HandleAt, Snapshots, Keeps, ReadRunning, Claiming
  <1> QED BY <1>3, <1>4, <1>5 DEF Inv, Typed

LEMMA WorkerActions ==
  ASSUME Inv, NEW w \in Workers, Boot(w) \/ Proceed(w) \/ Loop(w) \/ Fault(w)
  PROVE  Good
  <1>1. CASE Boot(w) \/ Fault(w)
    BY <1>1, BootStep, CrashStep, LeaseAgesStep, SignalStep, DisconnectStep DEF Fault
  <1>2. CASE Loop(w)
    BY <1>2, ExpireQueuedStep, ClaimStep, BeginReconnectStep, ReconnectStep, PartitionStep,
       ReadStuckStep, ReadCancellingStep DEF Loop
  <1>3. CASE Proceed(w)
    BY <1>3, LoseLeaseStep, ReadHandoffStep, HandoffStep, StoppedStep, HandBackStep,
       ProcessTaskStep, SubmitStep, SubmissionFailsStep, TrackStep, WaitStep, ReadRepliedStep,
       ApplyStep, FinalizeStep, DropAnswerStep, ReadLostStep, TerminalizeStep, TimeOutStep,
       RecoverLostStep, FinishCancellationStep, LoopFailsStep DEF Proceed
  <1> QED BY <1>1, <1>2, <1>3

LEMMA Steps == Inv /\ [Next]_vars => Good
  <1> SUFFICES ASSUME Inv, [Next]_vars PROVE Good
    OBVIOUS
  <1>1. CASE UNCHANGED vars
    BY <1>1, RowSame, RowStepByNobody DEF vars, Inv
  <1>2. CASE Next
    BY <1>2, WorkerActions, TaskReturnsStep, PublishActivityStep, RequestCancellationStep,
       RetryStep, ClockStep DEF Next
  <1> QED BY <1>1, <1>2

LEMMA Invariance == Spec => []Inv
  BY Initial, Steps, PTL DEF Spec, Good

\* Rows, histories, leases, workers and tasks are always what the model says
\* they are, for any number of workers and generations.
THEOREM TypeCorrect == Spec => []TypeOK
  BY Invariance, PTL DEF Inv, Typed

\* However workers, cancellations and completed tasks interleave, a requested
\* cancellation ends as a cancellation (poll_ray_core_tasks and
\* process_cancellations).
THEOREM CancellationAlwaysWins == Spec => CancellationWins
  <1>1. Inv /\ [Next]_vars => [row.state = "CANCELLING" => row'.state \in {"CANCELLING", "CANCELLED"}]_vars
    BY Steps DEF Good
  <1> QED BY <1>1, Invariance, PTL DEF Spec, CancellationWins

\* No handle of an earlier execution is left when a worker submits a row it
\* still owns (_submit_serialized_request would refuse it).
THEOREM NoHandleLeftOver == Spec => []NoStaleHandle
  <1>1. Inv => NoStaleHandle
    BY DEF Inv, WorkerInv, HandleAt, NoStaleHandle, At
  <1> QED BY <1>1, Invariance, PTL

\* Nothing, LOST recovery by another worker included, requeues a row whose
\* owner has lease, connection and the handle of the running execution.
THEOREM HandleAlwaysKeeps == Spec => HandleKeepsExecution
  <1>1. ASSUME Inv, [Next]_vars, NEW w \in Workers,
               row.state = "RUNNING", row.claimed_by_worker = w, Live(w),
               worker[w].connected, worker[w].handle = Identity(row)
        PROVE  row'.state # "QUEUED"
    BY <1>1, Steps DEF Good, Unpolled
  <1>2. Inv /\ [Next]_vars =>
          [\A w \in Workers :
              /\ row.state = "RUNNING" /\ row.claimed_by_worker = w
              /\ Live(w) /\ At(w, worker[w].pc) /\ worker[w].connected
              /\ worker[w].handle = Identity(row)
              => row'.state # "QUEUED"]_vars
    BY <1>1
  <1> QED BY <1>2, Invariance, PTL DEF Spec, HandleKeepsExecution
=============================================================================
