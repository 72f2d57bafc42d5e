---------------------------- MODULE PayloadRegistry ----------------------------
(***************************************************************************)
(* One content-addressed external payload: the object in the configured    *)
(* backend, its registry rows (TaskInputPayload), the executions that name *)
(* it, and the processes that race for it: producers that store, register  *)
(* and attach it, purge commands that delete it once every execution is    *)
(* old and terminal, and reapers of objects that nobody registered.        *)
(*                                                                         *)
(* The database and the backend share no transaction.  A transaction locks *)
(* its registry row (or the unique key it inserts), reads and deletes the  *)
(* object, and commits; it may roll back after the object has changed, and *)
(* a backend may delete and lose its answer.  Writes of a transaction are  *)
(* visible from its commit on.                                             *)
(*                                                                         *)
(* Times are compared with fixed cutoffs only, hence "recent" and "old".   *)
(***************************************************************************)
CONSTANTS
    Producers,    \* web processes that enqueue, workers that submit
    Purgers,      \* django_ray_purge_inputs --delete
    Reapers,      \* the same with --discover-unregistered --delete-unregistered
    Executions,   \* RayTaskExecution rows
    None          \* NULL

ASSUME ActorsDiffer ==
    /\ Producers \cap (Purgers \cup Reapers) = {}
    /\ Purgers \cap Reapers = {}
ASSUME NoneIsNobody ==
    None \notin Producers \cup Purgers \cup Reapers \cup
                {"ACTIVE", "PURGED", "canonical", "legacy"}

Actors == Producers \cup Purgers \cup Reapers

VARIABLES
    object,       \* the stored bytes, by age against the grace period
    registry,     \* state of the row under each spelling of the reference
    last_used,    \* its last_used_at
    executions,   \* executions and the reference they hold
    lock,         \* who locks the registry row or its unique key
    pc,           \* where each process is
    target        \* the reference a producer or a purger has locked

vars == <<object, registry, last_used, executions, lock, pc, target>>

\* Two spellings can name one object: what current writers produce, and a raw
\* or unwrapped reference that an earlier release registered.
Spellings == {"canonical", "legacy"}

RowState == {"ACTIVE", "PURGED"}

\* payload_kind: content is a task's input or a Ray Job's request, never both.
Kinds == {"task_input", "ray_job_request"}

\* "none": not enqueued yet.  fresh: not retried since it was created.
Execution ==
    [ kind : Kinds,
      state : {"none", "live", "ended", "ended_old"},
      reference : Spellings \cup {None},
      fresh : BOOLEAN ]

TypeOK ==
    /\ object \in {"absent", "taken", "recent", "old"}
    /\ registry \in [Spellings -> RowState \cup {None}]
    /\ last_used \in [Spellings -> {"recent", "old"}]
    /\ executions \in [Executions -> Execution]
    /\ lock \in [Spellings -> Actors \cup {None}]
    /\ pc \in [Actors -> {"idle", "prepared", "restore", "attach", "delete",
                          "tombstone", "verify", "insert", "recheck"}]
    /\ target \in [Producers \cup Purgers -> Spellings]

\* The object is there.  "taken": it is not, for a reap deleted it and its
\* tombstone was rolled back, so that nothing in the database tells.
Stored == object \in {"recent", "old"}

(***************************************************************************)
(* An installation may start with rows and objects of earlier releases:    *)
(* rows of either spelling, or both, and orphan objects.  Requests are     *)
(* prepared for executions that are already running.                       *)
(***************************************************************************)
Unborn == [kind |-> "task_input", state |-> "none", reference |-> None, fresh |-> TRUE]
Holding(s) == [kind |-> "task_input", state |-> "live", reference |-> s, fresh |-> TRUE]
Submitting == [kind |-> "ray_job_request", state |-> "live", reference |-> None, fresh |-> TRUE]

Init ==
    /\ object \in {"absent", "recent", "old"}
    /\ registry \in [Spellings -> RowState \cup {None}]
    /\ (\E s \in Spellings : registry[s] = "ACTIVE") => Stored
    /\ last_used \in [Spellings -> {"recent", "old"}]
    /\ \A s \in Spellings : registry[s] = None => last_used[s] = "recent"
    /\ \/ executions = [e \in Executions |-> Unborn]
       \/ executions = [e \in Executions |-> Submitting]
       \/ \E e \in Executions, s \in Spellings :
             /\ registry[s] = "ACTIVE"
             /\ executions = [f \in Executions |-> IF f = e THEN Holding(s) ELSE Unborn]
    /\ lock = [s \in Spellings |-> None]
    /\ pc = [a \in Actors |-> "idle"]
    /\ target = [a \in Producers \cup Purgers |-> "canonical"]

Other(s) == IF s = "canonical" THEN "legacy" ELSE "canonical"

\* Executions that hold a reference, whatever its spelling.
Attached == {e \in Executions : executions[e].reference # None}

\* A transaction of this process ends, committed or not.
EndTransaction(a) ==
    /\ lock' = [s \in Spellings |-> IF lock[s] = a THEN None ELSE lock[s]]
    /\ pc' = [pc EXCEPT ![a] = "idle"]

Goto(a, step) == pc' = [pc EXCEPT ![a] = step]

-----------------------------------------------------------------------------
(***************************************************************************)
(* Producers: prepare_task_input and register_task_input in enqueue,       *)
(* prepare_ray_job_request and register_and_attach_ray_job_request.        *)
(***************************************************************************)

\* store_payload: written only if absent; a present object keeps its age.
StorePayload == object' = IF Stored THEN object ELSE "recent"

\* The payload is stored before any row is locked.
Prepare(p) ==
    /\ pc[p] = "idle"
    /\ StorePayload
    /\ Goto(p, "prepared")
    /\ UNCHANGED <<registry, last_used, executions, lock, target>>

\* The transaction, for a reference in spelling s: a row under the other
\* spelling refuses the registration, and a legacy spelling must have its row;
\* otherwise the row is locked, or its key by the insertion of a new row.
BeginRegistration(p, s) ==
    /\ pc[p] = "prepared"
    /\ lock[Other(s)] = None \/ registry[Other(s)] = None
    /\ \/ /\ registry[Other(s)] # None \/ (s = "legacy" /\ registry[s] = None)
          /\ Goto(p, "idle")
          /\ UNCHANGED <<lock, target>>
       \/ /\ registry[Other(s)] = None
          /\ s = "canonical" \/ registry[s] # None
          /\ lock[s] = None
          /\ lock' = [lock EXCEPT ![s] = p]
          /\ target' = [target EXCEPT ![p] = s]
          /\ Goto(p, IF registry[s] = None THEN "attach" ELSE "restore")
    /\ UNCHANGED <<object, registry, last_used, executions>>

\* Faulty variant: an existing row is trusted to have its object.
TrustRow(p) ==
    /\ pc[p] = "restore"
    /\ Goto(p, "attach")
    /\ UNCHANGED <<object, registry, last_used, executions, lock, target>>

\* An existing row does not prove its object: verified or restored under lock.
\* A backend that can do neither refuses the registration.
RestorePayload(p) ==
    /\ pc[p] = "restore"
    /\ \/ StorePayload /\ Goto(p, "attach") /\ UNCHANGED lock
       \/ EndTransaction(p) /\ UNCHANGED object
    /\ UNCHANGED <<registry, last_used, executions, target>>

\* The execution row that commits with the registration: a new one, or the
\* running one whose binding is still exact.
AttachTo(e, s) ==
    IF executions[e].kind = "task_input"
    THEN /\ executions[e].state = "none"
         /\ executions' = [executions EXCEPT ![e].state = "live", ![e].reference = s]
    ELSE /\ executions[e].state = "live" /\ executions[e].fresh
         /\ executions[e].reference \in {None, s}
         /\ executions' = [executions EXCEPT ![e].reference = s]

\* Faulty variant: the registration does not reactivate a tombstone.
AttachToTombstone(p) ==
    /\ pc[p] = "attach"
    /\ \E e \in Executions : AttachTo(e, target[p])
    /\ registry' = [registry EXCEPT ![target[p]] = IF @ = None THEN "ACTIVE" ELSE @]
    /\ last_used' = [last_used EXCEPT ![target[p]] = "recent"]
    /\ EndTransaction(p)
    /\ UNCHANGED <<object, target>>

\* The registration commits with the execution; a tombstone is reactivated.
Attach(p) ==
    /\ pc[p] = "attach"
    /\ \E e \in Executions : AttachTo(e, target[p])
    /\ registry' = [registry EXCEPT ![target[p]] = "ACTIVE"]
    /\ last_used' = [last_used EXCEPT ![target[p]] = "recent"]
    /\ EndTransaction(p)
    /\ UNCHANGED <<object, target>>

\* A refused binding, a failed statement or commit, or a crash: the database
\* forgets the transaction, the backend keeps what was stored.
AbandonRegistration(p) ==
    /\ pc[p] \in {"prepared", "restore", "attach"}
    /\ EndTransaction(p)
    /\ UNCHANGED <<object, registry, last_used, executions, target>>

-----------------------------------------------------------------------------
(***************************************************************************)
(* The purge command: _process_reference for one candidate.                *)
(***************************************************************************)

\* _all_references_are_old_and_terminal, for one execution.
OldAndTerminal(e) == executions[e].state = "ended_old"

\* Locks the row, then the executions that name it; anything recent, live or
\* ambiguous keeps the payload.
LockForPurge(a, s) ==
    /\ pc[a] = "idle"
    /\ lock[s] = None
    /\ registry[s] = "ACTIVE" /\ last_used[s] = "old"
    /\ registry[Other(s)] = None
    /\ \A e \in Executions : executions[e].reference = s => OldAndTerminal(e)
    /\ lock' = [lock EXCEPT ![s] = a]
    /\ target' = [target EXCEPT ![a] = s]
    /\ Goto(a, "delete")
    /\ UNCHANGED <<object, registry, last_used, executions>>

\* A refused delete commits only cleanup_error; the object may be gone.
DeletePurged(a) ==
    /\ pc[a] = "delete"
    /\ \/ object' = "absent" /\ Goto(a, "tombstone") /\ UNCHANGED lock
       \/ object' \in {object, "absent"} /\ EndTransaction(a)
    /\ UNCHANGED <<registry, last_used, executions, target>>

\* Faulty variant: a state the registry does not have.
CommitDeletion(a) ==
    /\ pc[a] = "tombstone"
    /\ registry' = [registry EXCEPT ![target[a]] = "DELETED"]
    /\ EndTransaction(a)
    /\ UNCHANGED <<object, last_used, executions, target>>

\* The row stays as a tombstone.
CommitPurge(a) ==
    /\ pc[a] = "tombstone"
    /\ registry' = [registry EXCEPT ![target[a]] = "PURGED"]
    /\ EndTransaction(a)
    /\ UNCHANGED <<object, last_used, executions, target>>

\* The command dies, or its commit fails.
AbandonPurge(a) ==
    /\ pc[a] \in {"delete", "tombstone"}
    /\ EndTransaction(a)
    /\ UNCHANGED <<object, registry, last_used, executions, target>>

-----------------------------------------------------------------------------
(***************************************************************************)
(* The reaper: discover_and_reap_unregistered_payloads.                    *)
(***************************************************************************)

\* Nobody registered the object and no execution names it.
Unregistered == registry = [s \in Spellings |-> None] /\ Attached = {}

\* The inventory classifies an object as eligible without any lock.
Discover(a) ==
    /\ pc[a] = "idle"
    /\ object = "old" /\ Unregistered
    /\ Goto(a, "verify")
    /\ UNCHANGED <<object, registry, last_used, executions, lock, target>>

\* _reap_unregistered_object re-reads age and bytes before its transaction.
Verify(a) ==
    /\ pc[a] = "verify"
    /\ Goto(a, IF object = "old" THEN "insert" ELSE "idle")
    /\ UNCHANGED <<object, registry, last_used, executions, lock, target>>

\* Faulty variant: the tombstone is written without looking for rows.
InsertUnchecked(a) ==
    /\ pc[a] = "insert"
    /\ lock["canonical"] = None
    /\ lock' = [lock EXCEPT !["canonical"] = a]
    /\ Goto(a, "recheck")
    /\ UNCHANGED <<object, registry, last_used, executions, target>>

\* Rows under any spelling end the reap; the insertion of the tombstone waits
\* for a concurrent insertion and fails on the row it committed.
InsertTombstone(a) ==
    /\ pc[a] = "insert"
    /\ lock = [s \in Spellings |-> None]
    /\ IF Unregistered
       THEN lock' = [lock EXCEPT !["canonical"] = a] /\ Goto(a, "recheck")
       ELSE Goto(a, "idle") /\ UNCHANGED lock
    /\ UNCHANGED <<object, registry, last_used, executions, target>>

\* The age is read a last time; any error rolls the tombstone back, also one
\* that hides a delete that happened.
DeleteReaped(a) ==
    /\ pc[a] = "recheck"
    /\ \/ object = "old" /\ object' = "absent" /\ Goto(a, "tombstone") /\ UNCHANGED lock
       \/ UNCHANGED object /\ EndTransaction(a)
       \/ object = "old" /\ object' = "taken" /\ EndTransaction(a)
    /\ UNCHANGED <<registry, last_used, executions, target>>

CommitReap(a) ==
    /\ pc[a] = "tombstone"
    /\ registry' = [registry EXCEPT !["canonical"] = "PURGED"]
    /\ last_used' = [last_used EXCEPT !["canonical"] = "old"]
    /\ EndTransaction(a)
    /\ UNCHANGED <<object, executions, target>>

\* The command dies, or its commit fails and the tombstone is gone.
AbandonReap(a) ==
    /\ pc[a] \in {"verify", "insert", "recheck", "tombstone"}
    /\ object' = IF pc[a] = "tombstone" /\ ~Stored THEN "taken" ELSE object
    /\ EndTransaction(a)
    /\ UNCHANGED <<registry, last_used, executions, target>>

-----------------------------------------------------------------------------
(***************************************************************************)
(* Executions and time.  A purger's row locks hold back whoever would      *)
(* change an execution it has looked at.                                   *)
(***************************************************************************)
LockedByPurge(e) ==
    \E a \in Purgers : pc[a] \in {"delete", "tombstone"} /\ target[a] = executions[e].reference

Finish(e) ==
    /\ executions[e].state = "live"
    /\ ~LockedByPurge(e)
    /\ executions' = [executions EXCEPT ![e].state = "ended"]
    /\ UNCHANGED <<object, registry, last_used, lock, pc, target>>

\* request_task_retry keeps the input reference and drops the request's.
Retried(x) ==
    [ kind |-> x.kind, state |-> "live", fresh |-> FALSE,
      reference |-> IF x.kind = "task_input" THEN x.reference ELSE None ]

Retry(e) ==
    /\ executions[e].state \in {"ended", "ended_old"}
    /\ ~LockedByPurge(e)
    /\ executions' = [executions EXCEPT ![e] = Retried(executions[e])]
    /\ UNCHANGED <<object, registry, last_used, lock, pc, target>>

\* release_ray_job_request_reservation, under the registry lock.
Release(e) ==
    /\ executions[e].kind = "ray_job_request"
    /\ executions[e].state = "live" /\ executions[e].reference # None
    /\ lock[executions[e].reference] = None
    /\ executions' = [executions EXCEPT ![e].reference = None]
    /\ UNCHANGED <<object, registry, last_used, lock, pc, target>>

ObjectAges ==
    /\ object = "recent"
    /\ object' = "old"
    /\ UNCHANGED <<registry, last_used, executions, lock, pc, target>>

RowAges(s) ==
    /\ last_used[s] = "recent"
    /\ last_used' = [last_used EXCEPT ![s] = "old"]
    /\ UNCHANGED <<object, registry, executions, lock, pc, target>>

ExecutionAges(e) ==
    /\ executions[e].state = "ended"
    /\ executions' = [executions EXCEPT ![e].state = "ended_old"]
    /\ UNCHANGED <<object, registry, last_used, lock, pc, target>>

Next ==
    \/ \E p \in Producers :
          \/ Prepare(p) \/ \E s \in Spellings : BeginRegistration(p, s)
          \/ RestorePayload(p) \/ Attach(p) \/ AbandonRegistration(p)
    \/ \E a \in Purgers :
          \/ \E s \in Spellings : LockForPurge(a, s)
          \/ DeletePurged(a) \/ CommitPurge(a) \/ AbandonPurge(a)
    \/ \E a \in Reapers :
          \/ Discover(a) \/ Verify(a) \/ InsertTombstone(a)
          \/ DeleteReaped(a) \/ CommitReap(a) \/ AbandonReap(a)
    \/ \E e \in Executions : Finish(e) \/ Retry(e) \/ Release(e) \/ ExecutionAges(e)
    \/ ObjectAges
    \/ \E s \in Spellings : RowAges(s)

Spec == Init /\ [][Next]_vars

-----------------------------------------------------------------------------
(***************************************************************************)
(* Properties.                                                             *)
(***************************************************************************)

\* An execution that was enqueued, and not retried since, with this payload.
Relying(e) ==
    executions[e].state = "live" /\ executions[e].fresh /\ executions[e].reference # None

\* What an execution was committed with is there when it runs: no purge of shared
\* content, with its rolled-back tombstones and lost answers, takes the bytes
\* between preparation and attachment, or later, and no reap that commits does.
\* One case is left out, and only that one: a reap that deleted the object and
\* rolled its tombstone back, see BytesOutliveExecution.  (A retry of an old
\* execution may find its bytes purged, by design.)
BytesLostOnlyToReap ==
    \A e \in Executions : Relying(e) => Stored \/ object = "taken"

\* Reaping "inserts a coordinated PURGED TaskInputPayload tombstone to fence
\* concurrent producers" (docs/architecture.md): whoever was enqueued with a payload
\* finds its bytes.  Not so when the tombstone is rolled back after the delete: the
\* producer that waited for it inserts a new row, and a new row is not verified.
BytesOutliveExecution == \A e \in Executions : Relying(e) => Stored

\* The registry vouches for every execution that was not retried: its row is
\* ACTIVE under the very spelling the execution holds.
LiveIsRegistered ==
    \A e \in Executions : Relying(e) => registry[executions[e].reference] = "ACTIVE"

\* Nobody deletes the object under a live execution, retried or not, whichever
\* spelling it holds.
DeletesOnlyUnused ==
    [][Stored /\ ~Stored' =>
          \A e \in Executions : executions[e].reference # None =>
             executions[e].state # "live"]_vars
=============================================================================
