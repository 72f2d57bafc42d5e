------------------------------ MODULE WorkerLease ------------------------------
(***************************************************************************)
(* Worker leases against a clock: how a task-manager process acquires a    *)
(* worker ID, proves that it still owns it, and loses it, and how the      *)
(* database policy that fixes the lease duration changes.                  *)
(*                                                                         *)
(* Tasks name their owner by worker ID only, while a lease row carries the *)
(* exact process identity (host, pid, start time).  IDs can collide and be *)
(* reused once an administrator deletes an inactive row, so the two have   *)
(* to be kept in step.  Each action is one transaction under the policy    *)
(* lock; processes read one clock.                                         *)
(***************************************************************************)
EXTENDS Naturals

CONSTANTS
    Procs,          \* process identities (hostname, pid, started_at)
    Ids,            \* worker IDs
    Tasks,          \* execution rows
    None,           \* a NULL column, or no row
    Durations,      \* lease durations, in seconds
    Configured,     \* WORKER_LEASE_SECONDS of each process
    MaxTime,        \* bound: the clock of a behaviour
    MaxRevision     \* MAX_REVISION of the policy row

ASSUME DurationsType == Durations \subseteq Nat \ {0}
ASSUME ConfiguredType == Configured \in [Procs -> Durations]
ASSUME BoundsType == MaxTime \in Nat /\ MaxRevision \in Nat

VARIABLES
    now,         \* the clock
    policy,      \* TaskWorkerLeasePolicy: lease_seconds and revision
    leases,      \* TaskWorkerLease rows by worker ID
    phase,       \* life of each process
    worker_id,   \* the ID each process acquired
    inflight,    \* rows that are RUNNING or CANCELLING
    owner,       \* claimed_by_worker of each row
    holder,      \* history: the process that claimed or adopted the row
    deposed      \* history: processes an execution was taken from

vars == <<now, policy, leases, phase, worker_id, inflight, owner, holder, deposed>>

Lease == [proc : Procs, last_heartbeat_at : Nat, is_active : BOOLEAN]

\* NULL is neither a process, an ID nor a lease row.
ASSUME NoneIsNew == None \notin Procs \cup Ids /\ None \notin Lease

Policy == [lease_seconds : Durations, revision : Nat]

TypeOK ==
    /\ now \in Nat
    /\ policy \in Policy
    /\ leases \in [Ids -> Lease \cup {None}]
    /\ phase \in [Procs -> {"new", "up", "down"}]
    /\ worker_id \in [Procs -> Ids \cup {None}]
    /\ inflight \subseteq Tasks
    /\ owner \in [Tasks -> Ids \cup {None}]
    /\ holder \in [Tasks -> Procs \cup {None}]
    /\ deposed \subseteq Procs

Init ==
    /\ now = 0
    /\ policy \in [lease_seconds : Durations, revision : {1}]
    /\ leases = [x \in Ids |-> None]
    /\ phase = [p \in Procs |-> "new"]
    /\ worker_id = [p \in Procs |-> None]
    /\ inflight = {}
    /\ owner = [t \in Tasks |-> None]
    /\ holder = [t \in Tasks |-> None]
    /\ deposed = {}

-----------------------------------------------------------------------------
\* lock_lease_policy: the process and the database agree on the duration.
PolicyMatches(p) == Configured[p] = policy.lease_seconds

Within(l) == l.last_heartbeat_at + policy.lease_seconds >= now

\* last_heartbeat_at__gte cutoff, and its complement last_heartbeat_at__lt.
LiveLease(x) == leases[x] # None /\ leases[x].is_active /\ Within(leases[x])
StaleLease(x) == leases[x] # None /\ leases[x].is_active /\ ~Within(leases[x])

\* The row under x is the one this process created.
ExactRow(p, x) == x \in Ids /\ leases[x] # None /\ leases[x].proc = p

\* Faulty variant: only the heartbeat is looked at, not is_active.
OwnsUnexpired(p) ==
    /\ phase[p] = "up"
    /\ PolicyMatches(p)
    /\ ExactRow(p, worker_id[p]) /\ Within(leases[worker_id[p]])

\* _lock_authoritative_leases: the exact, active, unexpired lease.
Owns(p) ==
    /\ phase[p] = "up"
    /\ PolicyMatches(p)
    /\ ExactRow(p, worker_id[p]) /\ LiveLease(worker_id[p])

Renewed(p) == [leases EXCEPT ![worker_id[p]].last_heartbeat_at = now]

Retire(S) ==
    [x \in Ids |-> IF x \in S THEN [leases[x] EXCEPT !.is_active = FALSE] ELSE leases[x]]

\* The exact row of a process that withdraws its lease.
Withdrawn(p) == {x \in {worker_id[p]} : ExactRow(p, x) /\ PolicyMatches(p)}

\* Faulty variants: only one of the two uses of an ID counts.
ReservedByRow(x) == leases[x] # None
ReservedByTask(x) == \E t \in inflight : owner[t] = x

\* A row of the lease table, or an in-flight task, already uses the ID.
Reserved(x) == leases[x] # None \/ \E t \in inflight : owner[t] = x

-----------------------------------------------------------------------------
Tick ==
    /\ now < MaxTime
    /\ now' = now + 1
    /\ UNCHANGED <<policy, leases, phase, worker_id, inflight, owner, holder, deposed>>

\* Faulty variant: a lease is created without a heartbeat.
CreateSilentLease(p, x) ==
    /\ phase[p] = "new"
    /\ PolicyMatches(p)
    /\ ~Reserved(x)
    /\ leases' = [leases EXCEPT ![x] =
                    [proc |-> p, last_heartbeat_at |-> None, is_active |-> TRUE]]
    /\ phase' = [phase EXCEPT ![p] = "up"]
    /\ worker_id' = [worker_id EXCEPT ![p] = x]
    /\ UNCHANGED <<now, policy, inflight, owner, holder, deposed>>

\* _create_lease never adopts an existing row nor an ID that a task names.
CreateLease(p, x) ==
    /\ phase[p] = "new"
    /\ PolicyMatches(p)
    /\ ~Reserved(x)
    /\ leases' = [leases EXCEPT ![x] =
                    [proc |-> p, last_heartbeat_at |-> now, is_active |-> TRUE]]
    /\ phase' = [phase EXCEPT ![p] = "up"]
    /\ worker_id' = [worker_id EXCEPT ![p] = x]
    /\ UNCHANGED <<now, policy, inflight, owner, holder, deposed>>

\* A mismatching policy, or collisions in every allocation attempt.
RefuseStart(p) ==
    /\ phase[p] = "new"
    /\ ~PolicyMatches(p) \/ \E x \in Ids : Reserved(x)
    /\ phase' = [phase EXCEPT ![p] = "down"]
    /\ UNCHANGED <<now, policy, leases, worker_id, inflight, owner, holder, deposed>>

\* send_heartbeat, or any mutation that found nothing to do.
Heartbeat(p) ==
    /\ Owns(p)
    /\ leases' = Renewed(p)
    /\ UNCHANGED <<now, policy, phase, worker_id, inflight, owner, holder, deposed>>

\* _request_shutdown_for_lease_loss, then shutdown and release_lease.
LoseLease(p) ==
    /\ phase[p] = "up" /\ ~Owns(p)
    /\ phase' = [phase EXCEPT ![p] = "down"]
    /\ leases' = Retire(Withdrawn(p))
    /\ UNCHANGED <<now, policy, worker_id, inflight, owner, holder, deposed>>

\* A graceful shutdown, after the handoffs.
Shutdown(p) ==
    /\ Owns(p)
    /\ phase' = [phase EXCEPT ![p] = "down"]
    /\ leases' = Retire(Withdrawn(p))
    /\ UNCHANGED <<now, policy, worker_id, inflight, owner, holder, deposed>>

Crash(p) ==
    /\ phase[p] = "up"
    /\ phase' = [phase EXCEPT ![p] = "down"]
    /\ UNCHANGED <<now, policy, leases, worker_id, inflight, owner, holder, deposed>>

-----------------------------------------------------------------------------
\* claim_and_process_tasks validates the lease and does not renew it.
Claim(p, t) ==
    /\ Owns(p)
    /\ t \notin inflight
    /\ inflight' = inflight \cup {t}
    /\ owner' = [owner EXCEPT ![t] = worker_id[p]]
    /\ holder' = [holder EXCEPT ![t] = p]
    /\ UNCHANGED <<now, policy, leases, phase, worker_id, deposed>>

\* A terminal or requeuing transition of an owned row.
Finish(p, t) ==
    /\ Owns(p)
    /\ t \in inflight /\ owner[t] = worker_id[p]
    /\ leases' = Renewed(p)
    /\ inflight' = inflight \ {t}
    /\ UNCHANGED <<now, policy, phase, worker_id, owner, holder, deposed>>

\* _prepare_shutdown_handoff leaves the row in flight without an owner.
Handoff(p, t) ==
    /\ Owns(p)
    /\ t \in inflight /\ owner[t] = worker_id[p]
    /\ leases' = Renewed(p)
    /\ owner' = [owner EXCEPT ![t] = None]
    /\ holder' = [holder EXCEPT ![t] = None]
    /\ UNCHANGED <<now, policy, phase, worker_id, inflight, deposed>>

\* _authoritative_task_owner with allow_takeover: a stale source is retired in
\* the same transaction, and no active row of the source may remain.
TakeOver(p, t) ==
    /\ Owns(p)
    /\ t \in inflight /\ owner[t] # worker_id[p]
    /\ owner[t] # None => ~LiveLease(owner[t])
    /\ leases' = [x \in Ids |->
                     IF x = worker_id[p] THEN Renewed(p)[x]
                     ELSE Retire({y \in {owner[t]} \cap Ids : StaleLease(y)})[x]]
    /\ owner' = [owner EXCEPT ![t] = worker_id[p]]
    /\ holder' = [holder EXCEPT ![t] = p]
    /\ deposed' = deposed \cup ({holder[t]} \ {None})
    /\ UNCHANGED <<now, policy, phase, worker_id, inflight>>

-----------------------------------------------------------------------------
\* mark_expired_leases_inactive, by any process on the matching policy.
CleanupExpired(p) ==
    /\ phase[p] = "up" /\ PolicyMatches(p)
    /\ leases' = Retire({x \in Ids : StaleLease(x)})
    /\ UNCHANGED <<now, policy, phase, worker_id, inflight, owner, holder, deposed>>

\* The administrator's actions on a selected lease.
MarkInactive(x) ==
    /\ leases[x] # None /\ leases[x].is_active
    /\ leases' = Retire({x})
    /\ UNCHANGED <<now, policy, phase, worker_id, inflight, owner, holder, deposed>>

DeleteInactive(x) ==
    /\ leases[x] # None /\ ~leases[x].is_active
    /\ leases' = [leases EXCEPT ![x] = None]
    /\ UNCHANGED <<now, policy, phase, worker_id, inflight, owner, holder, deposed>>

\* Faulty variant: leases do not hinder a policy change.
QuiescentTasks == inflight = {}

\* No lease is active, not even a stale one, and no row is in flight.
Quiescent ==
    /\ \A x \in Ids : leases[x] # None => ~leases[x].is_active
    /\ inflight = {}

\* set_lease_policy: compare-and-swap under the exclusive policy lock.
SetPolicy(n) ==
    /\ Quiescent
    /\ n # policy.lease_seconds
    /\ policy.revision < MaxRevision
    /\ policy' = [lease_seconds |-> n, revision |-> policy.revision + 1]
    /\ UNCHANGED <<now, leases, phase, worker_id, inflight, owner, holder, deposed>>

Next ==
    \/ Tick
    \/ \E p \in Procs :
          \/ \E x \in Ids : CreateLease(p, x)
          \/ RefuseStart(p) \/ Heartbeat(p) \/ LoseLease(p) \/ Shutdown(p) \/ Crash(p)
          \/ \E t \in Tasks : Claim(p, t) \/ Finish(p, t) \/ Handoff(p, t) \/ TakeOver(p, t)
          \/ CleanupExpired(p)
    \/ \E x \in Ids : MarkInactive(x) \/ DeleteInactive(x)
    \/ \E n \in Durations : SetPolicy(n)

Spec == Init /\ [][Next]_vars

-----------------------------------------------------------------------------
(***************************************************************************)
(* Properties.                                                             *)
(***************************************************************************)

\* Whoever passes the lease check under the ID an in-flight row names is the
\* process that claimed or adopted that row, although the row carries the ID
\* only: reused and colliding IDs never inherit executions (_create_lease).
AuthorityIsEarned ==
    \A p \in Procs, t \in inflight :
        Owns(p) /\ owner[t] = worker_id[p] => holder[t] = p

\* A process that lost an execution to an adopter never passes the lease check
\* again: a resumed process cannot act on anything it once owned.
DeposedNeverActs == \A p \in deposed : ~Owns(p)

\* Every active lease, even of a dead process, belongs to a process configured
\* with the policy's duration: all sides judge its expiry alike, whatever
\* transitions set_lease_policy allowed.
AgreedDuration ==
    \A x \in Ids :
        leases[x] # None /\ leases[x].is_active =>
            Configured[leases[x].proc] = policy.lease_seconds

\* A retired lease is never revived by its process: heartbeats, mutations and
\* cleanup leave it inactive until it is deleted.
RetiredStaysRetired ==
    [][\A x \in Ids :
          leases[x] # None /\ ~leases[x].is_active =>
             \/ leases'[x] = None
             \/ leases'[x].proc = leases[x].proc /\ ~leases'[x].is_active]_vars
=============================================================================
