---------------------------- MODULE RayJobPolling ----------------------------
(***************************************************************************)
(* Many executions and one Ray Job worker: the order in which its loop     *)
(* claims rows into free slots, and the cursor with which it looks for     *)
(* durable completions, a bounded page at a time (claim_and_process_tasks  *)
(* and poll_ray_job_completions of the worker command).                    *)
(*                                                                         *)
(* Rows arrive without end, so only the order of their primary keys is     *)
(* kept: rows is the sequence of the unfinished rows in that order, a new  *)
(* row is appended, and a key is the number of rows up to it.  The row     *)
(* "watched" marks the one the liveness properties follow.  What happens   *)
(* inside one execution is the subject of RayJobExecution.                 *)
(***************************************************************************)
EXTENDS Integers, FiniteSets, Sequences

CONSTANTS
    MaxRows,      \* bound: unfinished rows at any time
    MaxFaults,    \* bound: retries, adoptions and errors while consuming a receipt
    Priorities,   \* task priorities
    Concurrency,  \* --concurrency
    PageSize,     \* receipts looked at per poll (32)
    ExpiryBatch   \* rows expired per claim transaction (100)

ASSUME RayJobPollingAssumption ==
    /\ MaxRows \in Nat \ {0} /\ MaxFaults \in Nat
    /\ Priorities \subseteq Int /\ Priorities # {}
    /\ Concurrency \in Nat \ {0} /\ PageSize \in Nat \ {0} /\ ExpiryBatch \in Nat \ {0}

VARIABLES
    rows,      \* the unfinished rows, by primary key
    cursor,    \* _ray_job_completion_cursor
    cycleEnd,  \* _ray_job_completion_cycle_end
    pc,        \* where the worker loop is
    faults

vars == <<rows, cursor, cycleEnd, pc, faults>>

\* queued until run_after, claimable, past the queue deadline; running at another worker;
\* tracked in active_tasks without and with completion_data.
RowState == {"delayed", "ready", "late", "elsewhere", "running", "completed"}
Row == [state : RowState, priority : Priorities, adopted : BOOLEAN, watched : BOOLEAN]

Init ==
    /\ rows = <<>>
    /\ cursor = 0 /\ cycleEnd = 0
    /\ pc = "poll"
    /\ faults = 0

In(states) == {i \in DOMAIN rows : rows[i].state \in states}

\* active_tasks: what occupies a slot of this worker.
Active == In({"running", "completed"})

-----------------------------------------------------------------------------
(* Leaving the sequence, and what it does to keys. *)

\* s without the positions in gone.
Without(s, gone) ==
    LET rank(i) == Cardinality({j \in DOMAIN s \ gone : j <= i})
    IN [k \in 1..Cardinality(DOMAIN s \ gone) |->
          s[CHOOSE i \in DOMAIN s \ gone : rank(i) = k]]

\* A key when the rows in gone are no longer counted.
Shifted(key, gone) == key - Cardinality({i \in gone : i <= key})

\* Of table, the rows in ended end: those in again failed and are queued again under their key
\* (record_failure with a retry), the others leave.  Retries are bounded by the policy.
End(table, ended, again, key, end) ==
    LET next == [i \in DOMAIN table |->
                   IF i \in again THEN [table[i] EXCEPT !.state = "delayed", !.adopted = FALSE]
                   ELSE table[i]]
        gone == ended \ again
    IN /\ rows' = Without(next, gone)
       /\ cursor' = Shifted(key, gone)
       /\ cycleEnd' = Shifted(end, gone)

\* n things went wrong.
Fault(n) == faults + n <= MaxFaults /\ faults' = faults + n

-----------------------------------------------------------------------------
(* The worker loop: poll, claim, reconcile. *)

\* The n smallest of a set of keys (heapq.nsmallest).
Smallest(n, S) == {i \in S : Cardinality({j \in S : j < i}) < n}

Largest(S) == CHOOSE i \in S : \A j \in S : j <= i

\* poll_ray_job_completions: the next page behind the cursor within the cycle, or the
\* first page of a cycle whose end is frozen now.  Each receipt of the page ends its
\* row, unless consuming it raises.
PollWith(page, end) ==
    LET receipts == page \cap In({"completed"})
    IN \E refused \in SUBSET receipts : \E again \in SUBSET (receipts \ refused) :
          /\ End(rows, receipts \ refused, again, Largest(page), end)
          /\ Fault(Cardinality(refused \cup again))

\* Faulty variant: the cycle has no frozen end.
PollUnbounded ==
    /\ pc = "poll" /\ pc' = "claim"
    /\ IF Active = {} THEN UNCHANGED <<rows, cursor, cycleEnd, faults>>
       ELSE LET ahead == {i \in Active : cursor < i}
            IN PollWith(Smallest(PageSize, IF ahead # {} THEN ahead ELSE Active), Largest(Active))

Poll ==
    /\ pc = "poll" /\ pc' = "claim"
    /\ IF Active = {} THEN UNCHANGED <<rows, cursor, cycleEnd, faults>>
       ELSE LET ahead == {i \in Active : cursor < i /\ i <= cycleEnd}
            IN IF ahead # {} THEN PollWith(Smallest(PageSize, ahead), cycleEnd)
               ELSE PollWith(Smallest(PageSize, Active), Largest(Active))

\* Faulty variant: the newest row of a priority is claimed first.
NewestFirst(i, j) ==
    \/ rows[i].priority > rows[j].priority
    \/ rows[i].priority = rows[j].priority /\ i > j

\* order_by("-priority", "created_at", "pk").
ClaimedBefore(i, j) ==
    \/ rows[i].priority > rows[j].priority
    \/ rows[i].priority = rows[j].priority /\ i < j

\* The first n claimable rows.
Selected(n) ==
    {i \in In({"ready"}) : Cardinality({j \in In({"ready"}) : ClaimedBefore(j, i)}) < n}

\* Faulty variant: an execution that has published its completion no longer takes a slot.
SlotsOfRunning == Concurrency - Cardinality(In({"running"}))

AvailableSlots == Concurrency - Cardinality(Active)

\* claim_and_process_tasks: expire a bounded batch, then claim into the free slots and
\* submit what was claimed.
Claim ==
    LET expired == Smallest(ExpiryBatch, In({"late"}))
        claimed == IF AvailableSlots > 0 THEN Selected(AvailableSlots) ELSE {}
        next == [i \in DOMAIN rows |->
                   IF i \in claimed THEN [rows[i] EXCEPT !.state = "running"] ELSE rows[i]]
    IN /\ pc = "claim" /\ pc' = "reconcile"
       /\ rows' = Without(next, expired)
       /\ cursor' = Shifted(cursor, expired) /\ cycleEnd' = Shifted(cycleEnd, expired)
       /\ UNCHANGED faults

Adopt(adopted) ==
    [i \in DOMAIN rows |->
        IF i \in adopted THEN [rows[i] EXCEPT !.state = "running", !.adopted = TRUE]
        ELSE rows[i]]

\* reconcile_tasks and detect_stuck_tasks, when they are due: tracked executions may end
\* without a poll, and Ray Jobs of dead workers are adopted whether or not a slot is free.
Reconcile ==
    /\ pc = "reconcile" /\ pc' = "poll"
    /\ \E ended \in SUBSET Active, adopted \in SUBSET In({"elsewhere"}) :
          \E again \in SUBSET ended :
             /\ End(Adopt(adopted), ended, again, cursor, cycleEnd)
             /\ Fault(Cardinality(again \cup adopted))

-----------------------------------------------------------------------------
(* Everybody else. *)

\* A producer enqueues a row; its key is the largest so far.
Enqueue ==
    /\ Len(rows) < MaxRows
    /\ \E p \in Priorities, s \in {"delayed", "ready"}, w \in BOOLEAN :
          /\ w => \A i \in DOMAIN rows : ~rows[i].watched
          /\ rows' = Append(rows, [state |-> s, priority |-> p, adopted |-> FALSE,
                                   watched |-> w])
    /\ UNCHANGED <<cursor, cycleEnd, pc, faults>>

Becomes(i, state) ==
    /\ rows' = [rows EXCEPT ![i].state = state]
    /\ UNCHANGED <<cursor, cycleEnd, pc, faults>>

\* run_after passes.
BecomesDue(i) == rows[i].state = "delayed" /\ Becomes(i, "ready")

\* queue_deadline_at passes.
DeadlinePasses(i) == rows[i].state \in {"delayed", "ready"} /\ Becomes(i, "late")

\* Another worker claims the row.
ClaimedElsewhere(i) == rows[i].state = "ready" /\ Becomes(i, "elsewhere")

\* Another worker ends its execution.
EndsElsewhere(i) ==
    /\ rows[i].state = "elsewhere"
    /\ \E again \in SUBSET {i} :
          End(rows, {i}, again, cursor, cycleEnd) /\ Fault(Cardinality(again))
    /\ UNCHANGED pc

\* The job of a tracked execution persists its completion.
JobCompletes(i) == rows[i].state = "running" /\ Becomes(i, "completed")

Next ==
    \/ Poll \/ Claim \/ Reconcile \/ Enqueue
    \/ \E i \in DOMAIN rows :
          \/ BecomesDue(i) \/ DeadlinePasses(i) \/ ClaimedElsewhere(i)
          \/ EndsElsewhere(i) \/ JobCompletes(i)

\* The loop keeps running and Ray Jobs end; nothing is assumed of reconciliation, of
\* producers or of other workers.
Spec ==
    /\ Init /\ [][Next]_vars
    /\ WF_vars(Poll) /\ WF_vars(Claim) /\ WF_vars(Reconcile)
    /\ \A i \in 1..MaxRows : WF_vars(i \in DOMAIN rows /\ JobCompletes(i))
-----------------------------------------------------------------------------
(* Correctness. *)

\* The executions this worker claimed itself never exceed its concurrency, although
\* adopted jobs occupy slots of theirs and receipts free them between two claims.
ClaimsWithinConcurrency ==
    Cardinality({i \in Active : ~rows[i].adopted}) <= Concurrency

Watched(states) == \E i \in In(states) : rows[i].watched

\* A completion that was persisted is consumed by the polls of its worker, a page at a
\* time, although rows with larger keys are claimed and complete without end.
ReceiptConsumed == Watched({"completed"}) ~> ~Watched({"completed"})

\* A claimable row of the highest priority is eventually claimed (or expires, or another
\* worker takes it), although newer rows of its priority keep arriving.
HighestPriorityClaimed ==
    LET waiting == \E i \in In({"ready"}) :
                      rows[i].watched /\ \A p \in Priorities : p <= rows[i].priority
    IN waiting ~> ~waiting
=============================================================================
