--------------------------- MODULE ProtocolAdmission ---------------------------
(***************************************************************************)
(* The rollout of a new execution protocol: legacy task managers, which    *)
(* know nothing of protocols, are admitted as long as a policy row says so *)
(* and an admission token exists.  Operators close and reopen admission    *)
(* while old and new workers claim, take over and finish executions and    *)
(* producers enqueue and retry them.  Triggers of migrations 0019 and 0020 *)
(* run inside the writers' transactions.                                   *)
(*                                                                         *)
(* PostgreSQL: a transaction takes its locks one statement at a time, may  *)
(* wait for each, holds them to its end, and its writes are visible from   *)
(* its commit on.  A transaction that takes a single lock is one step.     *)
(***************************************************************************)
EXTENDS Naturals, Sequences, FiniteSets, Functions

CONSTANTS
    Coordinators,  \* operators that close and reopen admission
    Producers,     \* web processes, of the old, this and a newer release
    LegacyWorkers, \* worker ids of capability-unaware task managers
    Workers,       \* worker ids with an explicit protocol range
    Supports,      \* the protocols of each of these
    Executions,    \* ids of RayTaskExecution rows
    MaxRevision,   \* bound on policy revisions
    None           \* NULL

AllWorkers == LegacyWorkers \cup Workers

ASSUME WorkerIds == LegacyWorkers \subseteq Nat /\ Workers \subseteq Nat
ASSUME WorkersAreFinite == IsFiniteSet(LegacyWorkers) /\ IsFiniteSet(Workers)
ASSUME NoneIsNobody == None \notin AllWorkers
ASSUME WorkersDiffer == LegacyWorkers \cap Workers = {}
ASSUME SupportsType == Supports \in [Workers -> SUBSET {1, 2}]

VARIABLES
    policy,     \* TaskExecutionProtocolPolicy
    token,      \* does the LegacyWorkerAdmissionToken exist?
    leases,     \* TaskWorkerLease rows
    executions, \* RayTaskExecution rows
    shared,     \* who holds each resource in a shared mode
    exclusive,  \* who holds it in an exclusive mode
    tx          \* the open transaction of each process

data == <<policy, token, leases, executions>>
locks == <<shared, exclusive>>
vars == <<data, locks, tx>>

Processes == Coordinators \cup Producers \cup AllWorkers
Protocols == {1, 2}
LiveStates == {"QUEUED", "RUNNING"}  \* RUNNING stands for CANCELLING as well

\* What can be locked.  Shared modes: FOR SHARE of the policy, KEY SHARE of
\* the token, ROW EXCLUSIVE of the execution table.
Advisory == <<"advisory", 0>>
Policy == <<"policy", 0>>
Token == <<"token", 0>>
Table == <<"table", 0>>
Lease(w) == <<"lease", w>>
Row(e) == <<"execution", e>>
Resources ==
    {Advisory, Policy, Token, Table}
        \cup {Lease(w) : w \in AllWorkers} \cup {Row(e) : e \in Executions}

Share(r) == [on |-> r, mode |-> "share"]
Exclude(r) == [on |-> r, mode |-> "exclusive"]

\* SELECT ... FOR UPDATE ... ORDER BY worker_id: the one such order of S.
LockLeases(S) ==
    {[i \in 1..Cardinality(S) |-> Exclude(Lease(sorted[i]))] :
        sorted \in {s \in [1..Cardinality(S) -> S] : \A i, j \in DOMAIN s : i < j => s[i] < s[j]}}

\* stage: what follows once the locks in todo are granted.
Idle == [stage |-> "idle", todo |-> <<>>, row |-> None, revision |-> 0]

Init ==
    /\ policy = [enabled |-> TRUE, revision |-> 1]
    /\ token = TRUE
    /\ leases = [w \in AllWorkers |-> [state |-> "none", token |-> FALSE]]
    /\ executions = [e \in Executions |-> [state |-> "none", protocol |-> 1, owner |-> None]]
    /\ shared = [r \in Resources |-> {}]
    /\ exclusive = [r \in Resources |-> {}]
    /\ tx = [t \in Processes |-> Idle]

-----------------------------------------------------------------------------
(***************************************************************************)
(* Transactions and locks.                                                 *)
(***************************************************************************)

Proceed(t, stage, todo, row) ==
    tx' = [tx EXCEPT ![t] = [stage |-> stage, todo |-> todo, row |-> row, revision |-> @.revision]]

\* t needs a lock that u holds in a conflicting mode.
WaitsFor(t, u) ==
    /\ u # t /\ tx[t].todo # <<>>
    /\ LET next == Head(tx[t].todo)
       IN  \/ u \in exclusive[next.on]
           \/ next.mode = "exclusive" /\ u \in shared[next.on]

\* The next lock of a transaction is granted.
Acquire(t) ==
    /\ tx[t].todo # <<>>
    /\ \A u \in Processes : ~WaitsFor(t, u)
    /\ LET next == Head(tx[t].todo)
       IN  IF next.mode = "share"
           THEN shared' = [shared EXCEPT ![next.on] = @ \cup {t}] /\ UNCHANGED exclusive
           ELSE exclusive' = [exclusive EXCEPT ![next.on] = @ \cup {t}] /\ UNCHANGED shared
    /\ Proceed(t, tx[t].stage, Tail(tx[t].todo), tx[t].row)
    /\ UNCHANGED data

Begin(t, stage, todo, row) ==
    /\ tx[t] = Idle
    /\ Proceed(t, stage, todo, row)
    /\ UNCHANGED <<data, locks>>

\* Every lock asked for so far is granted.
Reached(t, stage) == tx[t].stage = stage /\ tx[t].todo = <<>>

Continue(t, stage, todo) ==
    /\ Proceed(t, stage, todo, tx[t].row)
    /\ UNCHANGED <<data, locks>>

\* COMMIT or ROLLBACK: the locks are gone.
EndTransaction(t) ==
    /\ shared' = [r \in Resources |-> shared[r] \ {t}]
    /\ exclusive' = [r \in Resources |-> exclusive[r] \ {t}]
    /\ tx' = [tx EXCEPT ![t] = Idle]

Rollback(t) == EndTransaction(t) /\ UNCHANGED data

\* An execution row with new column values.
Written(e, state, protocol, owner) ==
    [executions EXCEPT ![e] = [state |-> state, protocol |-> protocol, owner |-> owner]]

\* Nobody holds the resource: a statement that needs only this lock runs.
Free(r) == shared[r] \cup exclusive[r] = {}

-----------------------------------------------------------------------------
(***************************************************************************)
(* close_legacy_worker_admission                                           *)
(***************************************************************************)

\* Transitions are serialized; the operator has reviewed a revision.
BeginTransition(c, stage, revision) ==
    /\ tx[c] = Idle
    /\ tx' = [tx EXCEPT ![c] = [stage |-> stage, todo |-> <<Exclude(Advisory)>>,
                                row |-> None, revision |-> revision]]
    /\ UNCHANGED <<data, locks>>

\* Legacy leases linked to the token, active or not.
Linked == {w \in LegacyWorkers : leases[w].token}

Active(w) == leases[w].state = "active"

\* Faulty variant: the policy is locked first, then the leases.
ScanPolicyFirst(c) ==
    /\ Reached(c, "close")
    /\ \E order \in LockLeases(Linked) : Continue(c, "scanned", <<Exclude(Policy)>> \o order)

\* The legacy leases of this moment are locked, then the policy.
ScanLegacyLeases(c) ==
    /\ Reached(c, "close")
    /\ \E order \in LockLeases(Linked) : Continue(c, "scanned", order \o <<Exclude(Policy)>>)

\* A stale revision is refused, a closed admission left as it is.
ValidateClose(c) ==
    /\ Reached(c, "scanned")
    /\ IF tx[c].revision = policy.revision /\ policy.enabled
       THEN Continue(c, "closing", <<Exclude(Token)>>)
       ELSE Rollback(c)

\* The recount finds the leases of the scan: each is locked, none has appeared.
AllScanned(c) == \A l \in Linked : c \in exclusive[Lease(l)]

\* Faulty variant: only leases that appeared meanwhile block the closure.
CommitCloseCounted(c) ==
    /\ Reached(c, "closing")
    /\ IF AllScanned(c) /\ policy.revision < MaxRevision
       THEN /\ policy' = [enabled |-> FALSE, revision |-> policy.revision + 1]
            /\ token' = FALSE
            /\ EndTransaction(c)
            /\ UNCHANGED <<leases, executions>>
       ELSE Rollback(c)

\* A lease that appeared meanwhile, or an active one, blocks the closure;
\* otherwise inactive legacy leases are detached and the token is deleted.
CommitClose(c) ==
    /\ Reached(c, "closing")
    /\ IF /\ AllScanned(c)
          /\ \A w \in LegacyWorkers : ~Active(w)
          /\ policy.revision < MaxRevision
       THEN /\ leases' = [w \in AllWorkers |-> [state |-> leases[w].state, token |-> FALSE]]
            /\ policy' = [enabled |-> FALSE, revision |-> policy.revision + 1]
            /\ token' = FALSE
            /\ EndTransaction(c)
            /\ UNCHANGED executions
       ELSE Rollback(c)

-----------------------------------------------------------------------------
(***************************************************************************)
(* reopen_legacy_worker_admission                                          *)
(***************************************************************************)
\* Only a reopening that changes something fences the writers of executions.
FenceWriters(c) ==
    /\ Reached(c, "reopen")
    /\ Continue(c, "reopening",
                IF policy.enabled THEN <<Exclude(Policy)>> ELSE <<Exclude(Table), Exclude(Policy)>>)

\* Executions that legacy workers could not run.
Incompatible == {e \in Executions : executions[e].state \in LiveStates /\ executions[e].protocol # 1}

CommitReopen(c) ==
    /\ Reached(c, "reopening")
    /\ IF /\ tx[c].revision = policy.revision /\ policy.revision < MaxRevision
          /\ Incompatible = {} /\ ~policy.enabled
       THEN /\ policy' = [enabled |-> TRUE, revision |-> policy.revision + 1]
            /\ token' = TRUE
            /\ EndTransaction(c)
            /\ UNCHANGED <<leases, executions>>
       ELSE Rollback(c)

-----------------------------------------------------------------------------
(***************************************************************************)
(* Legacy task managers: what the triggers let them do.                    *)
(***************************************************************************)

\* Worker ids are unique: one that nothing names stands for a new one.
NewId(w) ==
    /\ leases[w].state = "none"
    /\ \A e \in Executions : executions[e].owner # w
    /\ Free(Lease(w)) /\ \A t \in Processes : Exclude(Lease(w)) \notin Range(tx[t].todo)

\* ray_lease_admission_insert_0019
InsertLegacyLease(l) ==
    /\ NewId(l)
    /\ Begin(l, "insert_lease", <<Share(Policy)>>, None)

\* A heartbeat locks its lease row before ray_lease_admission_update_0019.
BeatLegacyLease(l) ==
    /\ Active(l)
    /\ Begin(l, "beat", <<Exclude(Lease(l))>>, None)

\* guard_legacy_lease_0019: the policy is open and the token there, or the
\* statement fails.  The heartbeat of a lease that was retired meanwhile updates
\* nothing.
GuardLegacyLease(l) ==
    \/ /\ Reached(l, "beat")
       /\ IF Active(l) THEN Continue(l, "admit", <<Share(Policy)>>) ELSE Rollback(l)
    \/ /\ Reached(l, "admit")
       /\ IF policy.enabled /\ leases[l].token
          THEN Continue(l, "beating", <<Share(Token)>>) ELSE Rollback(l)
    \/ /\ Reached(l, "insert_lease")
       /\ IF policy.enabled THEN Continue(l, "inserting", <<Share(Token)>>) ELSE Rollback(l)
    \/ /\ Reached(l, "inserting")
       /\ IF token THEN Continue(l, "inserted", <<>>) ELSE Rollback(l)

CommitLegacyLease(l) ==
    /\ Reached(l, "inserted")
    /\ leases' = [leases EXCEPT ![l] = [state |-> "active", token |-> TRUE]]
    /\ EndTransaction(l)
    /\ UNCHANGED <<policy, token, executions>>

\* FOR UPDATE SKIP LOCKED of a queued execution, then its UPDATE.
Select(w, e) ==
    /\ executions[e].state = "QUEUED" /\ Free(Row(e))
    /\ exclusive' = [exclusive EXCEPT ![Row(e)] = {w}]
    /\ Proceed(w, "claim", <<Share(Table), Share(Policy)>>, e)
    /\ UNCHANGED <<data, shared>>

\* A heartbeat commits alone, or its transaction goes on to claim or to finish
\* an execution.
WorkOrCommitLegacy(l) ==
    /\ Reached(l, "beating")
    /\ \/ Rollback(l)
       \/ token /\ \E e \in Executions :
             \/ Select(l, e)
             \/ /\ executions[e].owner = l
                /\ Proceed(l, "finish", <<Exclude(Row(e)), Share(Table)>>, e)
                /\ UNCHANGED <<data, locks>>

-----------------------------------------------------------------------------
(***************************************************************************)
(* Task managers with an explicit range, and the trigger on task owners.   *)
(***************************************************************************)

\* Explicit leases do not concern the admission triggers.
InsertLease(w) ==
    /\ NewId(w) /\ tx[w] = Idle
    /\ leases' = [leases EXCEPT ![w] = [state |-> "active", token |-> @.token]]
    /\ UNCHANGED <<policy, token, executions, locks, tx>>

\* _lock_authoritative_leases: its own lease, and that of the owner it would
\* take over from.
LockAuthoritativeLeases(w, source, e) ==
    \E order \in LockLeases({w} \cup source) : Begin(w, "leases", order, e)

BeginClaim(w) == Active(w) /\ LockAuthoritativeLeases(w, {}, None)

BeginOwned(w, e) ==
    /\ Active(w)
    /\ executions[e].state = "RUNNING"
    /\ LockAuthoritativeLeases(w, {executions[e].owner}, e)

\* Only executions in its range are selected.
SelectQueued(w) ==
    /\ Reached(w, "leases") /\ tx[w].row = None
    /\ \/ Rollback(w)
       \/ Active(w) /\ \E e \in Executions : executions[e].protocol \in Supports[w] /\ Select(w, e)

\* _authoritative_task_owner: its own task is locked to be finished; that of
\* an owner whose lease is not active, or stale and retired here, to be
\* adopted.  A protocol outside its range is left alone.
LockOwned(w) ==
    /\ Reached(w, "leases") /\ tx[w].row # None
    /\ \/ Rollback(w)
       \/ /\ Active(w) /\ executions[tx[w].row].protocol \in Supports[w]
          /\ IF \A v \in AllWorkers \ {w} : w \notin exclusive[Lease(v)]
             THEN Continue(w, "finish", <<Exclude(Row(tx[w].row)), Share(Table)>>)
             ELSE Continue(w, "adopt", <<Exclude(Row(tx[w].row)), Share(Table), Share(Policy)>>)

\* guard_task_owner_0019
OwnerAllowed(w, e) ==
    \/ executions[e].protocol = 1 /\ policy.enabled
    \/ /\ Active(w)
       /\ IF w \in LegacyWorkers
          THEN leases[w].token /\ policy.enabled /\ executions[e].protocol = 1
          ELSE executions[e].protocol \in Supports[w]

\* The lease of a previous owner that the takeover holds is retired.
RetireSource(w) ==
    [v \in AllWorkers |->
        IF v # w /\ w \in exclusive[Lease(v)] /\ Active(v)
        THEN [state |-> "inactive", token |-> leases[v].token] ELSE leases[v]]

\* An adopted row is re-read under its lock: still the owner's whose lease is
\* held.
StillSource(w, e) ==
    /\ executions[e].state = "RUNNING"
    /\ executions[e].owner # w /\ w \in exclusive[Lease(executions[e].owner)]

\* The source is retired in any case, its row adopted only if it is still the
\* source's; the trigger allows the new owner or fails the whole transaction.
CommitOwner(w) ==
    LET e == tx[w].row
        moved == tx[w].stage = "adopt" /\ ~StillSource(w, e)
    IN  /\ Reached(w, "claim") \/ Reached(w, "adopt")
        /\ IF moved \/ OwnerAllowed(w, e)
           THEN /\ leases' = RetireSource(w)
                /\ executions' =
                      IF moved THEN executions
                      ELSE Written(e, "RUNNING", executions[e].protocol, w)
                /\ EndTransaction(w)
                /\ UNCHANGED <<policy, token>>
           ELSE Rollback(w)

CommitFinish(w) ==
    LET e == tx[w].row
    IN  /\ Reached(w, "finish")
        /\ IF executions[e].state = "RUNNING" /\ executions[e].owner = w
           THEN /\ executions' = Written(e, "ended", executions[e].protocol, None)
                /\ EndTransaction(w)
                /\ UNCHANGED <<policy, token, leases>>
           ELSE Rollback(w)

\* A worker stops, its lease expires or an administrator retires it.
Deactivate(w) ==
    /\ Active(w) /\ Free(Lease(w))
    /\ leases' = [leases EXCEPT ![w] = [state |-> "inactive", token |-> @.token]]
    /\ UNCHANGED <<policy, token, executions, locks, tx>>

\* delete_inactive, also of a lease whose worker owned executions.
DeleteInactive(w) ==
    /\ leases[w].state = "inactive" /\ Free(Lease(w)) /\ tx[w] = Idle
    /\ leases' = [leases EXCEPT ![w] = [state |-> "none", token |-> FALSE]]
    /\ UNCHANGED <<policy, token, executions, locks, tx>>

-----------------------------------------------------------------------------
(***************************************************************************)
(* Producers: insertions and retries of executions.                        *)
(***************************************************************************)

\* The statement locks the table; for work that legacy workers could not run
\* the trigger of migration 0020 locks the policy.
FencedWrite == <<Share(Table), Share(Policy)>>

\* An insertion by a current (protocol 1) or a newer writer.
Insert(p, e, protocol) ==
    /\ executions[e].state = "none"
    /\ IF protocol = 1 THEN Begin(p, "insert", <<Share(Table)>>, e)
                       ELSE Begin(p, "guard_insert", FencedWrite, e)

\* An insertion by an old writer, without metadata.
InsertOld(p, e) ==
    /\ executions[e].state = "none"
    /\ Begin(p, "insert_old", <<Share(Table), Share(Policy)>>, e)

\* guard_legacy_execution_0019: the policy is open and the token there.
GuardLegacyExecution(p) ==
    \/ /\ Reached(p, "insert_old")
       /\ IF policy.enabled THEN Continue(p, "insert_linked", <<Share(Token)>>) ELSE Rollback(p)
    \/ /\ Reached(p, "insert_linked")
       /\ IF token THEN Continue(p, "insert", <<>>) ELSE Rollback(p)

\* request_task_retry: the row is locked and re-read, then updated.
Retry(p, e) ==
    /\ executions[e].state = "ended"
    /\ Begin(p, "retry", <<Exclude(Row(e))>>, e)

RetryLocked(p) ==
    /\ Reached(p, "retry")
    /\ IF executions[tx[p].row].state # "ended" THEN Rollback(p)
       ELSE IF executions[tx[p].row].protocol = 1 THEN Continue(p, "requeue", <<Share(Table)>>)
       ELSE Continue(p, "guard_requeue", FencedWrite)

\* Faulty variant: the trigger sees insertions only.
InsertionAllowed(p) ==
    tx[p].stage = "guard_insert" => ~policy.enabled /\ ~token

\* guard_legacy_open_execution_0020
NewWorkAllowed(p) == ~policy.enabled /\ ~token

\* The trigger runs with the statement, the commit follows later.
GuardNewWork(p) ==
    \/ /\ Reached(p, "guard_insert")
       /\ IF NewWorkAllowed(p) THEN Continue(p, "insert_new", <<>>) ELSE Rollback(p)
    \/ /\ Reached(p, "guard_requeue")
       /\ IF NewWorkAllowed(p) THEN Continue(p, "requeue", <<>>) ELSE Rollback(p)

\* The task id is unique; the protocol of a row never changes.
CommitWrite(p) ==
    LET e == tx[p].row
        inserts == tx[p].stage # "requeue"
    IN  /\ \E stage \in {"insert", "insert_new", "requeue"} : Reached(p, stage)
        /\ IF executions[e].state = (IF inserts THEN "none" ELSE "ended")
           THEN /\ executions' = Written(e, "QUEUED",
                      IF ~inserts THEN executions[e].protocol ELSE IF tx[p].stage = "insert" THEN 1 ELSE 2,
                      None)
                /\ EndTransaction(p)
                /\ UNCHANGED <<policy, token, leases>>
           ELSE Rollback(p)

Next ==
    \/ \E t \in Processes : Acquire(t)
    \/ \E c \in Coordinators :
          \/ \E n \in 1..policy.revision, stage \in {"close", "reopen"} : BeginTransition(c, stage, n)
          \/ ScanLegacyLeases(c) \/ ValidateClose(c) \/ CommitClose(c)
          \/ FenceWriters(c) \/ CommitReopen(c)
    \/ \E l \in LegacyWorkers :
          \/ InsertLegacyLease(l) \/ BeatLegacyLease(l) \/ GuardLegacyLease(l)
          \/ CommitLegacyLease(l) \/ WorkOrCommitLegacy(l)
    \/ \E w \in Workers :
          \/ InsertLease(w) \/ BeginClaim(w) \/ SelectQueued(w) \/ LockOwned(w)
          \/ \E e \in Executions : BeginOwned(w, e)
    \/ \E w \in AllWorkers :
          CommitOwner(w) \/ CommitFinish(w) \/ Deactivate(w) \/ DeleteInactive(w)
    \/ \E p \in Producers :
          \/ \E e \in Executions :
                InsertOld(p, e) \/ Retry(p, e) \/ \E v \in Protocols : Insert(p, e, v)
          \/ GuardLegacyExecution(p) \/ RetryLocked(p) \/ GuardNewWork(p) \/ CommitWrite(p)

Spec == Init /\ [][Next]_vars

-----------------------------------------------------------------------------
(***************************************************************************)
(* Properties.                                                             *)
(***************************************************************************)

\* Once admission is closed no legacy task manager is active and nothing holds
\* the deleted token, whatever insertions, heartbeats and takeovers raced with
\* the closure; policy and token agree at every commit.
NoLegacyWhileClosed ==
    /\ token = policy.enabled
    /\ ~policy.enabled => \A l \in LegacyWorkers : ~Active(l) /\ ~leases[l].token

\* While admission is open no execution waits or runs that a legacy task
\* manager could not handle: insertions and retries by newer writers cannot
\* slip past a reopening.
OnlyV1WhileOpen == policy.enabled => Incompatible = {}

\* No set of transactions waits for itself: advisory lock, lease rows by worker
\* id, execution row, table, policy and token are taken in an order that no
\* combination of coordinators, workers and producers closes to a circle.
NoCircularWait ==
    \A waiting \in SUBSET Processes :
        waiting # {} => \E t \in waiting : \A u \in waiting : ~WaitsFor(t, u)
=============================================================================
