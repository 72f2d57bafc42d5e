-------------------------- MODULE TaskLifecycleProofs --------------------------
(***************************************************************************)
(* Proofs about TaskLifecycle, for every set of workers, every retry       *)
(* budget and every number of generations.                                 *)
(***************************************************************************)
EXTENDS TaskLifecycle, TLAPS

-----------------------------------------------------------------------------
(***************************************************************************)
(* What the row transitions of TaskExecutionRow return.                    *)
(***************************************************************************)
LEMMA States ==
  /\ InFlight \cap Terminal = {} /\ "QUEUED" \notin Terminal /\ "QUEUED" \notin InFlight
  /\ InFlight = {"RUNNING", "CANCELLING"}
  /\ Terminal \subseteq TaskState /\ InFlight \subseteq TaskState /\ "QUEUED" \in TaskState
  /\ Retryable \subseteq Terminal /\ "SUCCEEDED" \in Terminal
  /\ {"FAILED", "CANCELLED", "LOST", "EXPIRED"} = Retryable
  BY DEF InFlight, Terminal, Retryable, TaskState

LEMMA IdentityType ==
  ASSUME NEW r \in Row
  PROVE  /\ Identity(r) \in Identities
         /\ r.attempt_number \in Attempts /\ r.attempt_number \in Nat
         /\ r.execution_generation \in Generations /\ r.execution_generation \in Nat
         /\ r.execution_generation <= MaxGeneration
  <1>1. r.attempt_number \in Attempts /\ r.execution_generation \in Generations
    BY DEF Row
  <1>2. Identity(r) \in Identities
    BY <1>1 DEF Identity, Identities
  <1> QED BY <1>1, <1>2, MaxGenerationType DEF Attempts, Generations

\* The same attempt and generation under the same state.
SameExecution(q, r) ==
    /\ q.state = r.state
    /\ q.attempt_number = r.attempt_number
    /\ q.execution_generation = r.execution_generation

\* Transitions that touch neither state nor identity.
LEMMA ColumnTransitions ==
  ASSUME NEW r \in Row
  PROVE  /\ \A w \in Workers \cup {None} :
               /\ Adopted(r, w) \in Row /\ SameExecution(Adopted(r, w), r)
               /\ Adopted(r, w).claimed_by_worker = w
         /\ \A e \in Envelope :
               /\ Published(r, e) \in Row /\ SameExecution(Published(r, e), r)
               /\ Published(r, e).claimed_by_worker = r.claimed_by_worker
         /\ \A q \in {Tracked(r), Attached(r), Unreserved(r), Monitored(r)} :
               q \in Row /\ SameExecution(q, r) /\ q.claimed_by_worker = r.claimed_by_worker
         /\ Disowned(r) \in Row /\ SameExecution(Disowned(r), r) /\ Disowned(r).claimed_by_worker = None
  <1>1. Identity(r) \in Identities
    BY IdentityType
  <1> USE <1>1 DEF Row, SameExecution
  <1>2. ASSUME NEW w \in Workers \cup {None}
        PROVE  /\ Adopted(r, w) \in Row /\ SameExecution(Adopted(r, w), r)
               /\ Adopted(r, w).claimed_by_worker = w
    BY DEF Adopted
  <1>3. ASSUME NEW e \in Envelope
        PROVE  /\ Published(r, e) \in Row /\ SameExecution(Published(r, e), r)
               /\ Published(r, e).claimed_by_worker = r.claimed_by_worker
    BY DEF Published
  <1>4. /\ Tracked(r) \in Row /\ SameExecution(Tracked(r), r)
        /\ Tracked(r).claimed_by_worker = r.claimed_by_worker
    BY DEF Tracked
  <1>5. /\ Attached(r) \in Row /\ SameExecution(Attached(r), r)
        /\ Attached(r).claimed_by_worker = r.claimed_by_worker
    BY DEF Attached
  <1>6. /\ Unreserved(r) \in Row /\ SameExecution(Unreserved(r), r)
        /\ Unreserved(r).claimed_by_worker = r.claimed_by_worker
    BY DEF Unreserved
  <1>7. /\ Monitored(r) \in Row /\ SameExecution(Monitored(r), r)
        /\ Monitored(r).claimed_by_worker = r.claimed_by_worker
    BY DEF Monitored
  <1>8. Disowned(r) \in Row /\ SameExecution(Disowned(r), r) /\ Disowned(r).claimed_by_worker = None
    BY DEF Disowned
  <1> HIDE DEF Row, SameExecution
  <1> QED BY <1>2, <1>3, <1>4, <1>5, <1>6, <1>7, <1>8

\* Transitions to another state of the same attempt.
LEMMA StateTransitions ==
  ASSUME NEW r \in Row
  PROVE  /\ \A s \in TaskState :
               /\ Finished(r, s) \in Row /\ Finished(r, s).state = s
               /\ Finished(r, s).attempt_number = r.attempt_number
               /\ Finished(r, s).execution_generation = r.execution_generation
               /\ Finished(r, s).claimed_by_worker = r.claimed_by_worker
         /\ HandedBack(r) \in Row /\ HandedBack(r).state = "QUEUED"
         /\ HandedBack(r).attempt_number = r.attempt_number
         /\ HandedBack(r).execution_generation = r.execution_generation
         /\ \A w \in Workers : r.execution_generation < MaxGeneration =>
               /\ Claimed(r, w) \in Row /\ Claimed(r, w).state = "RUNNING"
               /\ Claimed(r, w).attempt_number = r.attempt_number
               /\ Claimed(r, w).execution_generation = r.execution_generation + 1
               /\ Claimed(r, w).claimed_by_worker = w
  <1>1. r.execution_generation < MaxGeneration => r.execution_generation + 1 \in Generations
    BY IdentityType, MaxGenerationType DEF Generations
  <1>2. "QUEUED" \in TaskState /\ "RUNNING" \in TaskState
    BY DEF TaskState, InFlight
  <1> USE <1>1, <1>2 DEF Row
  <1>3. ASSUME NEW s \in TaskState
        PROVE  /\ Finished(r, s) \in Row /\ Finished(r, s).state = s
               /\ Finished(r, s).attempt_number = r.attempt_number
               /\ Finished(r, s).execution_generation = r.execution_generation
               /\ Finished(r, s).claimed_by_worker = r.claimed_by_worker
    BY DEF Finished
  <1>4. /\ HandedBack(r) \in Row /\ HandedBack(r).state = "QUEUED"
        /\ HandedBack(r).attempt_number = r.attempt_number
        /\ HandedBack(r).execution_generation = r.execution_generation
    BY DEF HandedBack
  <1>5. ASSUME NEW w \in Workers, r.execution_generation < MaxGeneration
        PROVE  /\ Claimed(r, w) \in Row /\ Claimed(r, w).state = "RUNNING"
               /\ Claimed(r, w).attempt_number = r.attempt_number
               /\ Claimed(r, w).execution_generation = r.execution_generation + 1
               /\ Claimed(r, w).claimed_by_worker = w
    BY <1>5 DEF Claimed
  <1> HIDE DEF Row
  <1> QED BY <1>3, <1>4, <1>5

\* Transitions to the next attempt.
LEMMA RequeueTransitions ==
  ASSUME NEW r \in Row, r.attempt_number < MaxGeneration + 1
  PROVE  /\ RequeuedByPolicy(r) \in Row /\ RequeuedByPolicy(r).state = "QUEUED"
         /\ RequeuedByPolicy(r).attempt_number = r.attempt_number + 1
         /\ RequeuedByPolicy(r).execution_generation = r.execution_generation
         /\ r.execution_generation < MaxGeneration =>
               /\ RequeuedByRetry(r) \in Row /\ RequeuedByRetry(r).state = "QUEUED"
               /\ RequeuedByRetry(r).attempt_number = r.attempt_number + 1
               /\ RequeuedByRetry(r).execution_generation = r.execution_generation + 1
  <1>1. r.attempt_number + 1 \in Attempts
    BY IdentityType, MaxGenerationType DEF Attempts
  <1>2. r.execution_generation < MaxGeneration => r.execution_generation + 1 \in Generations
    BY IdentityType, MaxGenerationType DEF Generations
  <1>3. "QUEUED" \in TaskState
    BY DEF TaskState
  <1>4. /\ RequeuedByPolicy(r) \in Row /\ RequeuedByPolicy(r).state = "QUEUED"
        /\ RequeuedByPolicy(r).attempt_number = r.attempt_number + 1
        /\ RequeuedByPolicy(r).execution_generation = r.execution_generation
    BY <1>1, <1>3 DEF RequeuedByPolicy, Row
  <1>5. r.execution_generation < MaxGeneration =>
               /\ RequeuedByRetry(r) \in Row /\ RequeuedByRetry(r).state = "QUEUED"
               /\ RequeuedByRetry(r).attempt_number = r.attempt_number + 1
               /\ RequeuedByRetry(r).execution_generation = r.execution_generation + 1
    BY <1>1, <1>2, <1>3 DEF RequeuedByRetry, Row
  <1> QED BY <1>4, <1>5

LEMMA ArchivedType ==
  ASSUME NEW h \in [Attempts -> Terminal \cup {None}], NEW r \in Row, NEW s \in Terminal
  PROVE  /\ Archived(h, r, s) \in [Attempts -> Terminal \cup {None}]
         /\ \A n \in Attempts :
               Archived(h, r, s)[n] = IF n = r.attempt_number THEN s ELSE h[n]
  BY DEF Archived, Row

-----------------------------------------------------------------------------
\* Types, history and the order of attempts and generations support each
\* other: the order keeps attempt numbers in range, and the range is what the
\* history is indexed by.
IInv == TypeOK /\ HistoryComplete /\ AttemptsWithin

-----------------------------------------------------------------------------
(***************************************************************************)
(* What a step does to the history: it leaves the attempt open, ends it, or*)
(* ends it and opens the next.                                             *)
(***************************************************************************)
SameAttempt ==
    /\ row'.attempt_number = row.attempt_number
    /\ row.state \notin Terminal /\ row'.state \notin Terminal
    /\ attempts' = attempts

EndsAttempt ==
    /\ row'.attempt_number = row.attempt_number
    /\ row.state \notin Terminal /\ row'.state \in Terminal
    /\ attempts' = Archived(attempts, row, row'.state)

NextAttempt ==
    /\ row'.attempt_number = row.attempt_number + 1
    /\ row'.state = "QUEUED"
    /\ \E s \in Retryable :
          /\ row.state \notin Terminal \/ row.state = s
          /\ attempts' = Archived(attempts, row, s)

HistoryStep == SameAttempt \/ EndsAttempt \/ NextAttempt

LEMMA HistoryPreserved ==
  ASSUME TypeOK, HistoryComplete, HistoryStep, row' \in Row
  PROVE  /\ attempts' \in [Attempts -> Terminal \cup {None}]
         /\ HistoryComplete'
         /\ \A n \in Attempts : attempts[n] # None => attempts'[n] = attempts[n]
  <1>1. /\ row.attempt_number \in Attempts /\ row'.attempt_number \in Attempts
        /\ row.attempt_number \in Nat
        /\ \A n \in Attempts : n \in Nat
    BY MaxGenerationType DEF TypeOK, Row, Attempts
  <1>2. None \notin Terminal /\ Retryable \subseteq Terminal /\ "QUEUED" \notin Terminal
    BY NoneIsNull DEF Terminal, TaskState, Retryable
  <1>3. CASE SameAttempt
    BY <1>1, <1>3 DEF SameAttempt, TypeOK, HistoryComplete
  <1>4. CASE EndsAttempt
    <2>1. \A n \in Attempts :
             attempts'[n] = IF n = row.attempt_number THEN row'.state ELSE attempts[n]
      BY <1>4, ArchivedType DEF EndsAttempt, TypeOK
    <2>2. attempts' \in [Attempts -> Terminal \cup {None}]
      BY <1>4, ArchivedType DEF EndsAttempt, TypeOK
    <2>3. attempts[row.attempt_number] = None
      BY <1>1, <1>4 DEF EndsAttempt, HistoryComplete
    <2>4. HistoryComplete'
      BY <1>1, <1>2, <1>4, <2>1 DEF EndsAttempt, HistoryComplete
    <2> QED BY <2>1, <2>2, <2>3, <2>4
  <1>5. CASE NextAttempt
    <2>1. PICK s \in Retryable :
             /\ row.state \notin Terminal \/ row.state = s
             /\ attempts' = Archived(attempts, row, s)
      BY <1>5 DEF NextAttempt
    <2>2. \A n \in Attempts :
             attempts'[n] = IF n = row.attempt_number THEN s ELSE attempts[n]
      BY <1>2, <2>1, ArchivedType DEF TypeOK
    <2>3. attempts' \in [Attempts -> Terminal \cup {None}]
      BY <1>2, <2>1, ArchivedType DEF TypeOK
    <2>4. attempts[row.attempt_number] \in {None, s}
      BY <1>1, <2>1 DEF HistoryComplete
    <2>5. \A n \in Attempts :
             n < row'.attempt_number <=> n < row.attempt_number \/ n = row.attempt_number
      BY <1>1, <1>5 DEF NextAttempt
    <2>6. \A n \in Attempts : attempts'[n] # None <=> n < row'.attempt_number
      BY <1>1, <1>2, <2>1, <2>2, <2>5 DEF HistoryComplete
    <2>7. \A n \in Attempts : n < row'.attempt_number => attempts'[n] \in Retryable
      BY <2>2, <2>5 DEF HistoryComplete
    <2>8. HistoryComplete'
      BY <1>2, <1>5, <2>6, <2>7 DEF NextAttempt, HistoryComplete
    <2> QED BY <2>2, <2>3, <2>4, <2>8
  <1> QED BY <1>3, <1>4, <1>5 DEF HistoryStep

-----------------------------------------------------------------------------
(***************************************************************************)
(* Each action is a history step between rows and keeps attempts behind    *)
(* generations.                                                            *)
(***************************************************************************)
Good == row' \in Row /\ HistoryStep /\ AttemptsWithin'

LEMMA Numbers ==
  ASSUME IInv
  PROVE  /\ row \in Row
         /\ row.attempt_number \in Nat /\ row.execution_generation \in Nat
         /\ row.execution_generation <= MaxGeneration
         /\ row.attempt_number <= row.execution_generation + 1
         /\ row.state \in InFlight => row.attempt_number <= row.execution_generation
  BY MaxGenerationType DEF IInv, TypeOK, AttemptsWithin, Row, Attempts, Generations

\* Steps on an open attempt that only touch the other columns.
LEMMA OpenStep ==
  ASSUME IInv, row' \in Row, attempts' = attempts,
         row.state \notin Terminal, row'.state \notin Terminal,
         row'.attempt_number = row.attempt_number,
         row'.execution_generation = row.execution_generation,
         row'.state \in InFlight => row.state \in InFlight
  PROVE  Good
  BY DEF Good, HistoryStep, SameAttempt, IInv, AttemptsWithin

\* A terminal transition, possibly after an adoption.
LEMMA FinishStep ==
  ASSUME IInv, NEW s \in Terminal, row.state \notin Terminal,
         row' = Finished(row, s) \/ \E w \in Workers : row' = Finished(Adopted(row, w), s),
         attempts' = Archived(attempts, row, s)
  PROVE  Good
  <1>1. row \in Row /\ s \in TaskState
    BY States DEF IInv, TypeOK
  <1>2. /\ row' \in Row
        /\ row'.state = s
        /\ row'.attempt_number = row.attempt_number
        /\ row'.execution_generation = row.execution_generation
    <2>1. CASE row' = Finished(row, s)
      BY <1>1, <2>1, StateTransitions
    <2>2. ASSUME NEW w \in Workers, row' = Finished(Adopted(row, w), s)
          PROVE  /\ row' \in Row
                 /\ row'.state = s
                 /\ row'.attempt_number = row.attempt_number
                 /\ row'.execution_generation = row.execution_generation
      <3>1. Adopted(row, w) \in Row /\ SameExecution(Adopted(row, w), row)
        BY <1>1, ColumnTransitions
      <3> QED BY <1>1, <2>2, <3>1, StateTransitions DEF SameExecution
    <2> QED BY <2>1, <2>2
  <1>3. EndsAttempt
    BY <1>2 DEF EndsAttempt
  <1>4. row'.state \notin InFlight
    BY <1>2, States
  <1> QED BY <1>2, <1>3, <1>4 DEF Good, HistoryStep, IInv, AttemptsWithin

\* Claims open a generation; a policy retry opens an attempt in the same one,
\* which the order leaves room for; a manual or LOST retry opens both.
LEMMA ClaimStep ==
  ASSUME IInv, NEW w \in Workers, Claim(w)
  PROVE  Good
  <1>1. row \in Row /\ row.execution_generation < MaxGeneration
    BY DEF IInv, TypeOK, Claim
  <1>3. /\ row' \in Row /\ row'.state = "RUNNING"
        /\ row'.attempt_number = row.attempt_number
        /\ row'.execution_generation = row.execution_generation + 1
    BY <1>1, StateTransitions DEF Claim
  <1>4. SameAttempt
    BY <1>3, States DEF Claim, SameAttempt
  <1>5. AttemptsWithin'
    BY <1>3, Numbers DEF AttemptsWithin
  <1> QED BY <1>3, <1>4, <1>5 DEF Good, HistoryStep

LEMMA RequeueStep ==
  ASSUME IInv, FailAndRequeue \/ LoseAndRequeue \/ Retry
  PROVE  Good
  <1>1. row \in Row /\ row.attempt_number < MaxGeneration + 1
    BY Numbers, States, MaxGenerationType DEF FailAndRequeue, LoseAndRequeue, Retry
  <1>2. /\ row' \in Row
        /\ row'.state = "QUEUED"
        /\ row'.attempt_number = row.attempt_number + 1
        /\ \/ row'.execution_generation = row.execution_generation /\ row.state = "RUNNING"
           \/ row'.execution_generation = row.execution_generation + 1
    BY <1>1, RequeueTransitions DEF FailAndRequeue, LoseAndRequeue, Retry
  <1>3. NextAttempt
    <2>1. CASE FailAndRequeue
      BY <1>2, <2>1, States DEF FailAndRequeue, NextAttempt
    <2>2. CASE LoseAndRequeue
      BY <1>2, <2>2, States DEF LoseAndRequeue, NextAttempt
    <2>3. CASE Retry
      BY <1>2, <2>3 DEF Retry, NextAttempt
    <2> QED BY <2>1, <2>2, <2>3
  <1>4. AttemptsWithin'
    BY <1>2, Numbers, States DEF AttemptsWithin
  <1> QED BY <1>2, <1>3, <1>4 DEF Good, HistoryStep

LEMMA TerminalStep ==
  ASSUME IInv,
         \/ Expire \/ Succeed
         \/ \E w \in Workers : Fail(w) \/ Lose(w) \/ FinishCancellation(w)
  PROVE  Good
  <1>1. CASE Expire
    BY <1>1, FinishStep, States DEF Expire
  <1>2. CASE Succeed
    BY <1>2, FinishStep, States DEF Succeed
  <1>3. ASSUME NEW w \in Workers, Fail(w) PROVE Good
    BY <1>3, FinishStep, States DEF Fail
  <1>4. ASSUME NEW w \in Workers, Lose(w) PROVE Good
    BY <1>4, FinishStep, States DEF Lose
  <1>5. ASSUME NEW w \in Workers, FinishCancellation(w) PROVE Good
    BY <1>5, FinishStep, States DEF FinishCancellation
  <1> QED BY <1>1, <1>2, <1>3, <1>4, <1>5

LEMMA CancellationStep ==
  ASSUME IInv, RequestCancellation
  PROVE  Good
  <1>1. CASE row.state = "QUEUED"
    BY <1>1, FinishStep, States DEF RequestCancellation
  <1>2. CASE row.state = "RUNNING"
    <2>1. row \in Row /\ "CANCELLING" \in TaskState
      BY States DEF IInv, TypeOK
    <2>2. row' = [row EXCEPT !.state = "CANCELLING"] /\ attempts' = attempts
      BY <1>2 DEF RequestCancellation
    <2>3. /\ row' \in Row
          /\ row'.state = "CANCELLING"
          /\ row'.attempt_number = row.attempt_number
          /\ row'.execution_generation = row.execution_generation
      BY <2>1, <2>2 DEF Row
    <2> QED BY <1>2, <2>2, <2>3, OpenStep, States
  <1> QED BY <1>1, <1>2 DEF RequestCancellation

\* Everything else changes columns of an open attempt.
LEMMA ColumnStep ==
  ASSUME IInv,
         \/ \E w \in Workers : Adopt(w)
         \/ \E e \in Envelope : Publish(e)
         \/ ReturnToQueue \/ Track \/ Attach \/ Unreserve \/ Disown \/ Monitor
         \/ HeartbeatAges \/ RunsOvertime \/ DeadlinePasses
  PROVE  Good
  <1> DEFINE Kept == /\ row'.attempt_number = row.attempt_number
                     /\ row'.execution_generation = row.execution_generation
  <1>1. row \in Row
    BY DEF IInv, TypeOK
  <1>2. Identity(row) \in Identities
    BY <1>1 DEF Identity, Identities, Row
  <1>3. ASSUME NEW w \in Workers, Adopt(w) PROVE Good
    <2>1. row' \in Row /\ Kept /\ row'.state = row.state
      BY <1>1, <1>3 DEF Adopt, Adopted, Row
    <2> QED BY <1>3, <2>1, OpenStep, States DEF Adopt
  <1>4. ASSUME NEW e \in Envelope, Publish(e) PROVE Good
    <2>1. row' \in Row /\ Kept /\ row'.state = row.state
      BY <1>1, <1>4 DEF Publish, Published, Row
    <2> QED BY <1>4, <2>1, OpenStep, States DEF Publish
  <1>5. CASE ReturnToQueue
    <2>1. row' \in Row /\ Kept /\ row'.state = "QUEUED"
      BY <1>1, <1>5 DEF ReturnToQueue, HandedBack, Row, TaskState
    <2> QED BY <1>5, <2>1, OpenStep, States DEF ReturnToQueue
  <1>6. CASE Track
    <2>1. row' \in Row /\ Kept /\ row'.state = row.state
      BY <1>1, <1>2, <1>6 DEF Track, Tracked, Row
    <2> QED BY <1>6, <2>1, OpenStep, States DEF Track
  <1>7. CASE Attach
    <2>1. row' \in Row /\ Kept /\ row'.state = row.state
      BY <1>1, <1>2, <1>7 DEF Attach, Attached, Row
    <2> QED BY <1>7, <2>1, OpenStep, States DEF Attach
  <1>8. CASE Unreserve
    <2>1. row' \in Row /\ Kept /\ row'.state = row.state
      BY <1>1, <1>8 DEF Unreserve, Unreserved, Row
    <2> QED BY <1>8, <2>1, OpenStep, States DEF Unreserve
  <1>9. CASE Disown
    <2>1. row' \in Row /\ Kept /\ row'.state = row.state
      BY <1>1, <1>9 DEF Disown, Disowned, Row
    <2> QED BY <1>9, <2>1, OpenStep, States DEF Disown
  <1>10. CASE Monitor
    <2>1. row' \in Row /\ Kept /\ row'.state = row.state
      BY <1>1, <1>10 DEF Monitor, Monitored, Row
    <2> QED BY <1>10, <2>1, OpenStep, States DEF Monitor
  <1>11. CASE HeartbeatAges \/ RunsOvertime \/ DeadlinePasses
    <2>1. row' \in Row /\ Kept /\ row'.state = row.state
      BY <1>1, <1>11 DEF HeartbeatAges, RunsOvertime, DeadlinePasses, Row
    <2> QED BY <1>11, <2>1, OpenStep, States DEF HeartbeatAges, RunsOvertime, DeadlinePasses
  <1> QED BY <1>3, <1>4, <1>5, <1>6, <1>7, <1>8, <1>9, <1>10, <1>11

LEMMA NextIsGood == IInv /\ Next => Good
  BY ClaimStep, RequeueStep, TerminalStep, CancellationStep, ColumnStep DEF Next

-----------------------------------------------------------------------------
(***************************************************************************)
(* Results.                                                                *)
(***************************************************************************)
LEMMA InitEstablishes == Init => IInv
  <1> SUFFICES ASSUME Init PROVE IInv
    OBVIOUS
  <1>1. 1 \in Attempts /\ 0 \in Generations /\ \A n \in Attempts : n \in Nat /\ n >= 1
    BY MaxGenerationType DEF Attempts, Generations
  <1>2. /\ row \in Row
        /\ row.state = "QUEUED" /\ row.attempt_number = 1 /\ row.execution_generation = 0
    BY <1>1 DEF Init, Enqueued, Row, TaskState
  <1>3. attempts \in [Attempts -> Terminal \cup {None}] /\ \A n \in Attempts : attempts[n] = None
    BY DEF Init
  <1>4. HistoryComplete
    BY <1>1, <1>2, <1>3, States DEF HistoryComplete
  <1>5. AttemptsWithin
    BY <1>2, States DEF AttemptsWithin
  <1> QED BY <1>2, <1>3, <1>4, <1>5 DEF IInv, TypeOK

LEMMA NextPreserves == IInv /\ [Next]_vars => IInv'
  <1> SUFFICES ASSUME IInv, [Next]_vars PROVE IInv'
    OBVIOUS
  <1>1. CASE Next
    <2>1. row' \in Row /\ HistoryStep /\ AttemptsWithin'
      BY <1>1, NextIsGood DEF Good
    <2> QED BY <2>1, HistoryPreserved DEF IInv, TypeOK
  <1>2. CASE UNCHANGED vars
    BY <1>2 DEF vars, IInv, TypeOK, HistoryComplete, AttemptsWithin
  <1> QED BY <1>1, <1>2

\* The invariant holds in every behaviour.
THEOREM Inductive == Spec => []IInv
  BY InitEstablishes, NextPreserves, PTL DEF Spec

\* Every transaction of lifecycle.py and of the worker saves a well-formed row.
THEOREM TypeCorrect == Spec => []TypeOK
  <1>1. IInv => TypeOK
    BY DEF IInv
  <1> QED BY <1>1, Inductive, PTL

\* The attempt history has neither gap nor excess (_record_attempt).
THEOREM HistoryCompleteTheorem == Spec => []HistoryComplete
  <1>1. IInv => HistoryComplete
    BY DEF IInv
  <1> QED BY <1>1, Inductive, PTL

\* Attempt numbers stay behind generations (claim and the two retries).
THEOREM AttemptsWithinTheorem == Spec => []AttemptsWithin
  <1>1. IInv => AttemptsWithin
    BY DEF IInv
  <1> QED BY <1>1, Inductive, PTL

\* No transaction rewrites how an archived attempt ended (_record_attempt).
THEOREM HistoryStableTheorem == Spec => HistoryStable
  <1> DEFINE Kept == \A n \in Attempts : attempts[n] # None => attempts'[n] = attempts[n]
  <1>1. IInv /\ [Next]_vars => [Kept]_vars
    <2> SUFFICES ASSUME IInv, Next PROVE Kept
      BY DEF vars
    <2>1. row' \in Row /\ HistoryStep
      BY NextIsGood DEF Good
    <2> QED BY <2>1, HistoryPreserved DEF IInv
  <1> QED BY <1>1, Inductive, PTL DEF Spec, HistoryStable

\* Where a step may leave a running row, by the envelope on it.
LEMMA Outcomes ==
  ASSUME IInv, Next, row.state = "RUNNING", row'.state # "RUNNING"
  PROVE  /\ row.completion_data = "success" => row'.state = "SUCCEEDED"
         /\ row.completion_data = "failure" => row'.state \in {"FAILED", "QUEUED"}
         /\ row.completion_data = "permanent" => row'.state = "FAILED"
  <1>1. row \in Row
    BY DEF IInv, TypeOK
  <1>2. None \notin {"success", "failure", "permanent"}
    BY NoneIsNull DEF Envelope
  <1>3. \/ row.completion_data = None
        \/ Succeed
        \/ \E w \in Workers : Fail(w) \/ (Lose(w) /\ row.completion_data = "rejected")
        \/ FailAndRequeue
    <2>1. CASE \/ \E w \in Workers : Claim(w) \/ FinishCancellation(w)
               \/ Expire \/ Retry \/ DeadlinePasses
      BY <2>1 DEF Claim, FinishCancellation, Expire, Retry, DeadlinePasses, Retryable
    <2>2. CASE \/ \E w \in Workers : Adopt(w)
               \/ \E e \in Envelope : Publish(e)
               \/ Track \/ Attach \/ Unreserve \/ Disown \/ Monitor
               \/ HeartbeatAges \/ RunsOvertime
      BY <1>1, <2>2
         DEF Adopt, Publish, Track, Attach, Unreserve, Disown, Monitor, HeartbeatAges,
             RunsOvertime, Adopted, Published, Tracked, Attached, Unreserved, Disowned,
             Monitored, Row
    <2>3. CASE ReturnToQueue \/ LoseAndRequeue \/ RequestCancellation
      BY <2>3 DEF ReturnToQueue, LoseAndRequeue, RequestCancellation
    <2>4. CASE \E w \in Workers : Lose(w)
      BY <2>4 DEF Lose
    <2> QED BY <2>1, <2>2, <2>3, <2>4 DEF Next
  <1>4. CASE Succeed
    BY <1>1, <1>4 DEF Succeed, Finished, Row
  <1>5. ASSUME NEW w \in Workers, Fail(w)
        PROVE  row.completion_data # "success" /\ row'.state = "FAILED"
    <2>1. Adopted(row, w) \in Row
      BY <1>1 DEF Adopted, Row
    <2> QED BY <1>5, <2>1 DEF Fail, Finished, Row
  <1>6. CASE FailAndRequeue
    <2>1. row'.state = "QUEUED"
      BY <1>1, <1>6 DEF FailAndRequeue, RequeuedByPolicy, Row
    <2> QED BY <1>2, <1>6, <2>1 DEF FailAndRequeue
  <1> QED BY <1>2, <1>3, <1>4, <1>5, <1>6

\* An acceptable envelope decides the attempt: no timeout, LOST recovery,
\* cancellation or handoff overrides it.
THEOREM CompletionDecidesTheorem == Spec => CompletionDecides
  <1> DEFINE Decides ==
        row.state = "RUNNING" /\ row'.state # "RUNNING" =>
          /\ row.completion_data = "success" => row'.state = "SUCCEEDED"
          /\ row.completion_data = "failure" => row'.state \in {"FAILED", "QUEUED"}
          /\ row.completion_data = "permanent" => row'.state = "FAILED"
  <1>1. IInv /\ [Next]_vars => [Decides]_vars
    BY Outcomes DEF vars
  <1> QED BY <1>1, Inductive, PTL DEF Spec, CompletionDecides

\* What a step does to the numbers, and when it starts an execution.
LEMMA NumbersGrow ==
  ASSUME IInv, Next
  PROVE  /\ row'.execution_generation >= row.execution_generation
         /\ row'.attempt_number >= row.attempt_number
         /\ row.state # "RUNNING" /\ row'.state = "RUNNING" =>
               row'.execution_generation > row.execution_generation
  <1> DEFINE Grows ==
        /\ row'.execution_generation >= row.execution_generation
        /\ row'.attempt_number >= row.attempt_number
        /\ row.state # "RUNNING" /\ row'.state = "RUNNING" =>
              row'.execution_generation > row.execution_generation
  <1>1. row \in Row
    BY DEF IInv, TypeOK
  <1>2. row.execution_generation \in Nat /\ row.attempt_number \in Nat
    BY <1>1, MaxGenerationType DEF Row, Attempts, Generations
  <1>3. ASSUME NEW w \in Workers, Claim(w) PROVE Grows
    BY <1>1, <1>2, <1>3 DEF Claim, Claimed, Row
  <1>4. CASE FailAndRequeue \/ LoseAndRequeue \/ Retry
    <2>1. /\ row'.state = "QUEUED"
          /\ row'.attempt_number = row.attempt_number + 1
          /\ row'.execution_generation \in
                {row.execution_generation, row.execution_generation + 1}
      BY <1>1, <1>4 DEF FailAndRequeue, LoseAndRequeue, Retry, RequeuedByPolicy,
                        RequeuedByRetry, Row
    <2> QED BY <1>2, <2>1
  <1>5. CASE \/ \E w \in Workers : Adopt(w) \/ Fail(w) \/ Lose(w) \/ FinishCancellation(w)
             \/ \E e \in Envelope : Publish(e)
             \/ Expire \/ ReturnToQueue \/ Track \/ Attach \/ Unreserve \/ Disown \/ Monitor
             \/ Succeed \/ RequestCancellation
             \/ HeartbeatAges \/ RunsOvertime \/ DeadlinePasses
    <2>1. \A w \in Workers : Adopted(row, w) \in Row
      BY <1>1 DEF Adopted, Row
    <2>2. /\ row'.attempt_number = row.attempt_number
          /\ row'.execution_generation = row.execution_generation
          /\ row'.state = row.state \/ row'.state # "RUNNING"
      <3>1. CASE \E w \in Workers : Fail(w) \/ Lose(w) \/ FinishCancellation(w)
        BY <1>1, <2>1, <3>1 DEF Fail, Lose, FinishCancellation, Finished, Adopted, Row
      <3>2. CASE Expire \/ Succeed \/ RequestCancellation \/ ReturnToQueue
        BY <1>1, <3>2 DEF Expire, Succeed, RequestCancellation, ReturnToQueue, Finished,
                          HandedBack, Row
      <3>3. CASE \/ \E w \in Workers : Adopt(w)
                 \/ \E e \in Envelope : Publish(e)
                 \/ Track \/ Attach \/ Unreserve \/ Disown \/ Monitor
                 \/ HeartbeatAges \/ RunsOvertime \/ DeadlinePasses
        BY <1>1, <3>3
           DEF Adopt, Publish, Track, Attach, Unreserve, Disown, Monitor, HeartbeatAges,
               RunsOvertime, DeadlinePasses, Adopted, Published, Tracked, Attached,
               Unreserved, Disowned, Monitored, Row
      <3> QED BY <1>5, <3>1, <3>2, <3>3
    <2> QED BY <1>2, <2>2
  <1> QED BY <1>3, <1>4, <1>5 DEF Next

\* Every execution starts in a generation of its own (claim_and_process_tasks).
THEOREM ClaimOpensGenerationTheorem == Spec => ClaimOpensGeneration
  <1> DEFINE Grows ==
        /\ row'.execution_generation >= row.execution_generation
        /\ row'.attempt_number >= row.attempt_number
        /\ row.state # "RUNNING" /\ row'.state = "RUNNING" =>
              row'.execution_generation > row.execution_generation
  <1>1. IInv /\ [Next]_vars => [Grows]_vars
    BY NumbersGrow DEF vars
  <1> QED BY <1>1, Inductive, PTL DEF Spec, ClaimOpensGeneration
=============================================================================
