------------------------ MODULE ProtocolAdmissionProofs ------------------------
(***************************************************************************)
(* Proofs about ProtocolAdmission, for every number of coordinators,       *)
(* producers, workers and executions and for every revision bound.         *)
(***************************************************************************)
EXTENDS ProtocolAdmission, FiniteSetTheorems, WellFoundedInduction, TLAPS

-----------------------------------------------------------------------------
(***************************************************************************)
(* The inductive invariant.                                                *)
(***************************************************************************)
Stages ==
    {"idle", "close", "scanned", "closing", "reopen", "reopening", "insert_lease", "beat", "admit",
     "beating", "inserting", "inserted", "claim", "finish", "leases", "adopt", "insert", "insert_old",
     "insert_linked", "guard_insert", "insert_new", "retry", "guard_requeue", "requeue"}

LockRequest == [on : Resources, mode : {"share", "exclusive"}]

Transaction ==
    [stage : Stages, todo : Seq(LockRequest), row : Executions \cup {None}, revision : Nat]
LeaseRow == [state : {"none", "active", "inactive"}, token : BOOLEAN]
ExecutionRow ==
    [state : {"none", "QUEUED", "RUNNING", "ended"}, protocol : Protocols, owner : AllWorkers \cup {None}]

PolicyType == policy \in [enabled : BOOLEAN, revision : Nat] /\ token \in BOOLEAN
RowTypes == leases \in [AllWorkers -> LeaseRow] /\ executions \in [Executions -> ExecutionRow]
LockTypes ==
    /\ shared \in [Resources -> SUBSET Processes]
    /\ exclusive \in [Resources -> SUBSET Processes]
TxType == tx \in [Processes -> Transaction]

TypeOK == PolicyType /\ RowTypes /\ LockTypes /\ TxType

\* A running execution has an owner.
RunningIsOwned ==
    \A e \in Executions : executions[e].state = "RUNNING" => executions[e].owner \in AllWorkers

Typed == TypeOK /\ RunningIsOwned

\* An exclusive lock excludes every other holder.
LocksExclude ==
    \A r \in Resources : \A t \in exclusive[r] : \A u \in shared[r] \cup exclusive[r] : u = t

\* A transaction holds a lock or is still going to ask for it.
Among(todo, lock) == \E i \in 1..Len(todo) : todo[i] = lock
Asks(t, lock) == Among(tx[t].todo, lock)
Holds(t, lock) == IF lock.mode = "share" THEN t \in shared[lock.on] ELSE t \in exclusive[lock.on]
Secures(t, lock) == Asks(t, lock) \/ Holds(t, lock)

RequeueStages == {"guard_requeue", "requeue"}
RowStages == {"claim", "finish", "adopt", "retry"} \cup RequeueStages

\* A worker of an earlier release that goes on from its heartbeat: it alone
\* asks for an execution and its table while it holds policy and token.
Light(t) == t \in LegacyWorkers /\ tx[t].stage \in {"claim", "finish"}

\* A requeue of work that legacy workers could not run.
RequeuesNew(t) == tx[t].stage = "requeue" /\ executions[tx[t].row].protocol # 1

\* Which locks a stage rests on.
StageLocks(t) ==
    /\ tx[t].stage \in {"close", "reopen"} => Secures(t, Exclude(Advisory))
    /\ tx[t].stage \in {"scanned", "closing", "reopening"} =>
          Holds(t, Exclude(Advisory)) /\ Secures(t, Exclude(Policy))
    /\ tx[t].stage = "closing" => Holds(t, Exclude(Policy))
    /\ tx[t].stage \in {"insert_lease", "admit", "guard_insert", "guard_requeue"} =>
          Secures(t, Share(Policy))
    /\ tx[t].stage \in {"inserting", "inserted", "beating", "insert_new"} \/ Light(t) \/ RequeuesNew(t)
          => Holds(t, Share(Policy))
    /\ tx[t].stage \in RowStages =>
          tx[t].row \in Executions /\ Secures(t, Exclude(Row(tx[t].row)))
    /\ tx[t].stage \in {"claim"} \cup RequeueStages => Holds(t, Exclude(Row(tx[t].row)))

\* What a stage has read still holds: the locks it rests on see to that.
StageFacts(t) ==
    /\ tx[t].stage \in {"inserting", "inserted", "beating"} \/ Light(t) => policy.enabled
    /\ tx[t].stage = "insert_new" \/ RequeuesNew(t) => ~policy.enabled
    /\ tx[t].stage \in RequeueStages => executions[tx[t].row].state = "ended"
    /\ tx[t].stage = "claim" => executions[tx[t].row].state = "QUEUED"

\* Only a reopening that found admission closed locks the table exclusively.
FenceIsClosed(t) ==
    Secures(t, Exclude(Table)) => tx[t].stage = "reopening" /\ ~policy.enabled

Sound(t) == StageLocks(t) /\ StageFacts(t) /\ FenceIsClosed(t)

DataInv ==
    /\ Typed
    /\ LocksExclude
    /\ \A t \in Processes : Sound(t)
    /\ NoLegacyWhileClosed
    /\ OnlyV1WhileOpen

-----------------------------------------------------------------------------
(***************************************************************************)
(* The order of the locks.                                                 *)
(***************************************************************************)
Phase(r) ==
    CASE r[1] = "advisory" -> 0
      [] r[1] = "lease" -> 1
      [] r[1] = "execution" -> 2
      [] r[1] = "table" -> 3
      [] r[1] = "policy" -> 4
      [] OTHER -> 5

Before(q, r) == Phase(q) < Phase(r) \/ (Phase(q) = 1 /\ Phase(r) = 1 /\ q[2] < r[2])

\* The last phase a stage has got to.
Top(stage) ==
    CASE stage \in {"idle", "close", "reopen"} -> 0
      [] stage \in {"leases", "beat"} -> 1
      [] stage = "retry" -> 2
      [] stage \in {"closing", "inserting", "inserted", "beating", "insert_linked", "insert"} -> 5
      [] OTHER -> 4

Held(t, r) == t \in shared[r] \/ t \in exclusive[r]
Sorted(todo) == \A i, j \in 1..Len(todo) : i < j => Before(todo[i].on, todo[j].on)

IdleIsFree(t) == tx[t].stage = "idle" => tx[t].todo = <<>> /\ \A r \in Resources : ~Held(t, r)

\* Requests are in order, and they and the held locks go up to the top of the
\* stage, except where a legacy worker claims or finishes after its heartbeat.
Ordered(t) ==
    /\ Sorted(tx[t].todo)
    /\ ~Light(t) =>
        /\ \A lock \in LockRequest : Asks(t, lock) =>
              /\ Phase(lock.on) <= Top(tx[t].stage)
              /\ \A r \in Resources : Held(t, r) => Before(r, lock.on)
        /\ \A r \in Resources : Held(t, r) => Phase(r) <= Top(tx[t].stage)

PolicyStages == {"scanned", "closing", "reopening"}
RowLocks == {Exclude(Row(e)) : e \in Executions}
AfterRow == {Share(Table), Share(Policy)}

\* Only transitions exclude others from the policy; rows are never shared, and
\* are locked in a few stages.
Kinds(t) ==
    /\ Secures(t, Exclude(Policy)) => tx[t].stage \in PolicyStages
    /\ \A e \in Executions :
          ~Secures(t, Share(Row(e))) /\ (Secures(t, Exclude(Row(e))) => tx[t].stage \in RowStages)

\* What a transaction asks for after an execution row.
RowComesFirst(t) ==
    /\ tx[t].stage \in RowStages => \A lock \in LockRequest : Asks(t, lock) => lock \in AfterRow \cup RowLocks
    /\ \A e \in Executions : Holds(t, Exclude(Row(e))) =>
          \A lock \in LockRequest : Asks(t, lock) => lock \in AfterRow

InOrder(t) == IdleIsFree(t) /\ Ordered(t) /\ Kinds(t) /\ RowComesFirst(t)

-----------------------------------------------------------------------------
(***************************************************************************)
(* Types.                                                                  *)
(***************************************************************************)
LEMMA RequestTypes ==
  /\ {Advisory, Policy, Token, Table} \subseteq Resources
  /\ \A w \in AllWorkers : Lease(w) \in Resources
  /\ \A e \in Executions : Row(e) \in Resources
  /\ \A r \in Resources : Share(r) \in LockRequest /\ Exclude(r) \in LockRequest
  BY DEF Resources, LockRequest, Share, Exclude, Lease, Row

LEMMA LeaseOrder ==
  ASSUME NEW S \in SUBSET AllWorkers, NEW order \in LockLeases(S)
  PROVE  /\ order \in Seq(LockRequest)
         /\ \A i \in 1..Len(order) : \E w \in S : order[i] = Exclude(Lease(w))
         /\ \A i, j \in 1..Len(order) : i < j => order[i].on[2] < order[j].on[2]
  <1>1. Cardinality(S) \in Nat
    BY WorkersAreFinite, FS_Union, FS_Subset, FS_CardinalityType DEF AllWorkers
  <1>2. PICK s \in [1..Cardinality(S) -> S] :
           /\ \A i, j \in DOMAIN s : i < j => s[i] < s[j]
           /\ order = [i \in 1..Cardinality(S) |-> Exclude(Lease(s[i]))]
    BY DEF LockLeases
  <1>3. \A i \in 1..Cardinality(S) : s[i] \in S /\ s[i] \in AllWorkers /\ order[i] = Exclude(Lease(s[i]))
    BY <1>2
  <1>4. order \in [1..Cardinality(S) -> LockRequest]
    BY <1>2, <1>3, RequestTypes
  <1>5. order \in Seq(LockRequest) /\ Len(order) = Cardinality(S)
    BY <1>1, <1>4
  <1>6. \A w : Exclude(Lease(w)).on[2] = w
    BY DEF Exclude, Lease
  <1> QED
    BY <1>1, <1>2, <1>3, <1>5, <1>6

LEMMA RequestSequences ==
  /\ \A r \in Resources : <<Share(r)>> \in Seq(LockRequest) /\ <<Exclude(r)>> \in Seq(LockRequest)
  /\ \A r, s \in Resources : /\ <<Share(r), Share(s)>> \in Seq(LockRequest)
                             /\ <<Exclude(r), Share(s)>> \in Seq(LockRequest)
                             /\ <<Exclude(r), Exclude(s)>> \in Seq(LockRequest)
  /\ \A r, s, q \in Resources : <<Exclude(r), Share(s), Share(q)>> \in Seq(LockRequest)
  /\ <<>> \in Seq(LockRequest)
  BY RequestTypes

LEMMA IdleFields == Idle.stage = "idle" /\ Idle.todo = <<>> /\ Idle.row = None
  BY DEF Idle

LEMMA IdleType == Idle \in Transaction
  BY RequestSequences DEF Idle, Transaction, Stages

LEMMA InitType == Init => TypeOK
  <1> SUFFICES ASSUME Init PROVE TypeOK
    OBVIOUS
  <1>1. PolicyType
    BY DEF Init, PolicyType
  <1>2. RowTypes
    BY DEF Init, RowTypes, LeaseRow, ExecutionRow, Protocols
  <1>3. LockTypes /\ TxType
    BY IdleType DEF Init, LockTypes, TxType
  <1> QED BY <1>1, <1>2, <1>3 DEF TypeOK

LEMMA DataUnchangedTyped ==
  ASSUME Typed, UNCHANGED data, LockTypes', TxType'
  PROVE  Typed'
  BY DEF Typed, TypeOK, RunningIsOwned, PolicyType, RowTypes, data

LEMMA ProceedTyped ==
  ASSUME TypeOK, NEW t \in Processes, NEW stage \in Stages, NEW todo \in Seq(LockRequest),
         NEW row \in Executions \cup {None}, Proceed(t, stage, todo, row)
  PROVE  TxType'
  BY DEF TypeOK, TxType, Transaction, Proceed

LEMMA ContinueTyped ==
  ASSUME Typed, NEW t \in Processes, NEW stage \in Stages, NEW todo \in Seq(LockRequest),
         \/ Continue(t, stage, todo)
         \/ \E row \in Executions \cup {None} : Begin(t, stage, todo, row)
  PROVE  Typed'
  <1>1. TypeOK /\ tx[t].row \in Executions \cup {None}
    BY DEF Typed, TypeOK, TxType, Transaction
  <1>2. TxType' /\ UNCHANGED <<data, locks>>
    BY <1>1, ProceedTyped DEF Continue, Begin
  <1>3. LockTypes'
    BY <1>1, <1>2 DEF TypeOK, LockTypes, locks
  <1> QED BY <1>2, <1>3, DataUnchangedTyped

LEMMA EndTyped ==
  ASSUME TypeOK, NEW t \in Processes, EndTransaction(t)
  PROVE  LockTypes' /\ TxType'
  <1>1. LockTypes'
    BY DEF TypeOK, LockTypes, EndTransaction
  <1>2. TxType'
    BY IdleType DEF TypeOK, TxType, EndTransaction
  <1> QED BY <1>1, <1>2

LEMMA RollbackTyped ==
  ASSUME Typed, NEW t \in Processes, Rollback(t)
  PROVE  Typed'
  BY EndTyped, DataUnchangedTyped DEF Typed, Rollback

LEMMA AcquireTyped ==
  ASSUME Typed, NEW t \in Processes, Acquire(t)
  PROVE  Typed'
  <1>1. TypeOK /\ tx[t] \in Transaction
    BY DEF Typed, TypeOK, TxType
  <1>2. tx[t].todo \in Seq(LockRequest) /\ tx[t].todo # <<>>
    BY <1>1 DEF Transaction, Acquire
  <1>3. Tail(tx[t].todo) \in Seq(LockRequest)
    BY <1>2
  <1>4. TxType'
    BY <1>1, <1>3, ProceedTyped DEF Transaction, Acquire
  <1>5. LockTypes'
    BY <1>1 DEF TypeOK, LockTypes, Acquire
  <1> QED
    BY <1>4, <1>5, DataUnchangedTyped DEF Acquire

LEMMA SelectTyped ==
  ASSUME Typed, NEW w \in Processes, NEW e \in Executions, Select(w, e)
  PROVE  Typed'
  <1>1. TxType'
    BY ProceedTyped, RequestSequences, RequestTypes DEF Select, Typed, Stages
  <1>2. LockTypes'
    BY DEF Select, Typed, TypeOK, LockTypes
  <1> QED BY <1>1, <1>2, DataUnchangedTyped DEF Select

\* A statement that changes one lease row only.
LEMMA LeaseStateTyped ==
  ASSUME Typed, NEW w \in AllWorkers, UNCHANGED <<policy, token, executions, locks, tx>>,
         \/ \E state \in {"active", "inactive"} :
               leases' = [leases EXCEPT ![w] = [state |-> state, token |-> @.token]]
         \/ leases' = [leases EXCEPT ![w] = [state |-> "none", token |-> FALSE]]
  PROVE  Typed'
  <1>1. /\ \A state \in {"active", "inactive"} : [state |-> state, token |-> leases[w].token] \in LeaseRow
        /\ [state |-> "none", token |-> FALSE] \in LeaseRow
    BY DEF Typed, TypeOK, RowTypes, LeaseRow
  <1>2. leases' \in [AllWorkers -> LeaseRow]
    BY <1>1 DEF Typed, TypeOK, RowTypes
  <1> QED BY <1>2 DEF Typed, TypeOK, RowTypes, PolicyType, LockTypes, TxType, locks, RunningIsOwned

LEMMA RowType == Typed => \A t \in Processes : tx[t].row \in Executions \cup {None}
  BY DEF Typed, TypeOK, TxType, Transaction

LEMMA WrittenTyped ==
  ASSUME RowTypes, RunningIsOwned, NEW e \in Executions \cup {None},
         NEW state \in {"QUEUED", "RUNNING", "ended"}, NEW owner \in AllWorkers \cup {None},
         NEW protocol \in {1, 2, executions[e].protocol}, state = "RUNNING" => owner \in AllWorkers
  PROVE  /\ Written(e, state, protocol, owner) \in [Executions -> ExecutionRow]
         /\ \A d \in Executions :
               Written(e, state, protocol, owner)[d].state = "RUNNING" =>
                   Written(e, state, protocol, owner)[d].owner \in AllWorkers
  BY DEF RowTypes, RunningIsOwned, Written, ExecutionRow, Protocols

LEMMA CoordinatorTyped ==
  ASSUME Typed, NEW c \in Coordinators,
         \/ \E n \in 1..policy.revision, stage \in {"close", "reopen"} : BeginTransition(c, stage, n)
         \/ ScanLegacyLeases(c) \/ ValidateClose(c) \/ CommitClose(c) \/ FenceWriters(c) \/ CommitReopen(c)
  PROVE  Typed'
  <1> c \in Processes
    BY DEF Processes
  <1>1. CASE \E n \in 1..policy.revision, stage \in {"close", "reopen"} : BeginTransition(c, stage, n)
    <2>1. PICK n \in 1..policy.revision, stage \in {"close", "reopen"} : BeginTransition(c, stage, n)
      BY <1>1
    <2>2. n \in Nat /\ <<Exclude(Advisory)>> \in Seq(LockRequest)
      BY RequestSequences, RequestTypes DEF Typed, TypeOK, PolicyType
    <2>3. [stage |-> stage, todo |-> <<Exclude(Advisory)>>, row |-> None, revision |-> n] \in Transaction
      BY <2>2 DEF Transaction, Stages
    <2>4. TxType' /\ LockTypes'
      BY <2>1, <2>3 DEF BeginTransition, Typed, TypeOK, TxType, LockTypes, locks
    <2> QED BY <2>1, <2>4, DataUnchangedTyped DEF BeginTransition
  <1>2. CASE ScanLegacyLeases(c)
    <2>1. PICK order \in LockLeases(Linked) : Continue(c, "scanned", order \o <<Exclude(Policy)>>)
      BY <1>2 DEF ScanLegacyLeases
    <2>2. order \in Seq(LockRequest)
      BY LeaseOrder DEF Linked, AllWorkers
    <2>3. order \o <<Exclude(Policy)>> \in Seq(LockRequest)
      BY <2>2, RequestSequences, RequestTypes
    <2> QED
      BY <2>1, <2>3, ContinueTyped DEF Stages
  <1>3. CASE ValidateClose(c)
    BY <1>3, RequestSequences, RequestTypes, ContinueTyped, RollbackTyped DEF ValidateClose, Stages
  <1>4. CASE CommitClose(c)
    <2>1. CASE Rollback(c)
      BY <2>1, RollbackTyped
    <2>2. CASE ~Rollback(c)
      <3>1. /\ leases' = [w \in AllWorkers |-> [state |-> leases[w].state, token |-> FALSE]]
            /\ policy' = [enabled |-> FALSE, revision |-> policy.revision + 1]
            /\ token' = FALSE /\ executions' = executions /\ EndTransaction(c)
        BY <1>4, <2>2 DEF CommitClose
      <3>2. policy.revision + 1 \in Nat
        BY DEF Typed, TypeOK, PolicyType
      <3>5. PolicyType'
        BY <3>1, <3>2 DEF PolicyType
      <3>3. \A w \in AllWorkers : [state |-> leases[w].state, token |-> FALSE] \in LeaseRow
        BY DEF Typed, TypeOK, RowTypes, LeaseRow
      <3>4. RowTypes'
        BY <3>1, <3>3 DEF Typed, TypeOK, RowTypes
      <3> QED BY <3>1, <3>5, <3>4, EndTyped DEF Typed, TypeOK, RunningIsOwned
    <2> QED BY <2>1, <2>2
  <1>5. CASE FenceWriters(c)
    BY <1>5, RequestSequences, RequestTypes, ContinueTyped DEF FenceWriters, Stages
  <1>6. CASE CommitReopen(c)
    <2>1. CASE Rollback(c)
      BY <2>1, RollbackTyped
    <2>2. CASE ~Rollback(c)
      <3>1. /\ policy' = [enabled |-> TRUE, revision |-> policy.revision + 1]
            /\ token' = TRUE /\ UNCHANGED <<leases, executions>> /\ EndTransaction(c)
        BY <1>6, <2>2 DEF CommitReopen
      <3>2. PolicyType' /\ RowTypes'
        BY <3>1 DEF Typed, TypeOK, PolicyType, RowTypes
      <3> QED BY <3>1, <3>2, EndTyped DEF Typed, TypeOK, RunningIsOwned
    <2> QED BY <2>1, <2>2
  <1> QED
    BY <1>1, <1>2, <1>3, <1>4, <1>5, <1>6

LEMMA LegacyTyped ==
  ASSUME Typed, NEW l \in LegacyWorkers,
         \/ InsertLegacyLease(l) \/ BeatLegacyLease(l) \/ GuardLegacyLease(l)
         \/ CommitLegacyLease(l) \/ WorkOrCommitLegacy(l)
  PROVE  Typed'
  <1> l \in Processes /\ l \in AllWorkers
    BY DEF Processes, AllWorkers
  <1>1. CASE InsertLegacyLease(l) \/ BeatLegacyLease(l)
    BY <1>1, ContinueTyped, RequestSequences, RequestTypes DEF InsertLegacyLease, BeatLegacyLease, Stages
  <1>2. CASE GuardLegacyLease(l)
    BY <1>2, ContinueTyped, RollbackTyped, RequestSequences, RequestTypes DEF GuardLegacyLease, Stages
  <1>3. CASE CommitLegacyLease(l)
    <2>1. /\ leases' = [leases EXCEPT ![l] = [state |-> "active", token |-> TRUE]]
          /\ EndTransaction(l) /\ UNCHANGED <<policy, token, executions>>
      BY <1>3 DEF CommitLegacyLease
    <2>2. [state |-> "active", token |-> TRUE] \in LeaseRow
      BY DEF LeaseRow
    <2>3. RowTypes' /\ PolicyType'
      BY <2>1, <2>2 DEF Typed, TypeOK, RowTypes, PolicyType
    <2> QED BY <2>1, <2>3, EndTyped DEF Typed, TypeOK, RunningIsOwned
  <1>4. CASE WorkOrCommitLegacy(l)
    <2>1. CASE Rollback(l)
      BY <2>1, RollbackTyped
    <2>2. ASSUME NEW e \in Executions, Select(l, e)
          PROVE  Typed'
      BY <2>2, SelectTyped
    <2>3. ASSUME NEW e \in Executions, Proceed(l, "finish", <<Exclude(Row(e)), Share(Table)>>, e),
                 UNCHANGED <<data, locks>>
          PROVE  Typed'
      <3>1. TxType'
        BY <2>3, ProceedTyped, RequestSequences, RequestTypes DEF Typed, Stages
      <3> QED BY <2>3, <3>1, DataUnchangedTyped DEF Typed, TypeOK, LockTypes, locks
    <2> QED BY <1>4, <2>1, <2>2, <2>3 DEF WorkOrCommitLegacy
  <1> QED BY <1>1, <1>2, <1>3, <1>4

LEMMA CapableTyped ==
  ASSUME Typed, NEW w \in Workers,
         \/ InsertLease(w) \/ BeginClaim(w) \/ SelectQueued(w) \/ LockOwned(w)
         \/ \E e \in Executions : BeginOwned(w, e)
  PROVE  Typed'
  <1> w \in Processes /\ w \in AllWorkers
    BY DEF Processes, AllWorkers
  <1>1. CASE InsertLease(w)
    <2>1. /\ leases' = [leases EXCEPT ![w] = [state |-> "active", token |-> @.token]]
          /\ UNCHANGED <<policy, token, executions, locks, tx>>
      BY <1>1 DEF InsertLease
    <2> QED BY <2>1, LeaseStateTyped
  <1>2. ASSUME NEW source \in SUBSET AllWorkers, NEW e \in Executions \cup {None},
               LockAuthoritativeLeases(w, source, e)
        PROVE  Typed'
    <2>1. PICK order \in LockLeases({w} \cup source) : Begin(w, "leases", order, e)
      BY <1>2 DEF LockAuthoritativeLeases
    <2>2. order \in Seq(LockRequest)
      BY LeaseOrder
    <2> QED BY <2>1, <2>2, ContinueTyped DEF Stages
  <1>3. CASE BeginClaim(w)
    BY <1>2, <1>3 DEF BeginClaim
  <1>4. ASSUME NEW e \in Executions, BeginOwned(w, e)
        PROVE  Typed'
    BY <1>2, <1>4 DEF BeginOwned, Typed, RunningIsOwned
  <1>5. CASE SelectQueued(w)
    BY <1>5, RollbackTyped, SelectTyped DEF SelectQueued
  <1>6. CASE LockOwned(w)
    <2>1. tx[w].row \in Executions \/ Rollback(w)
      BY <1>6 DEF LockOwned, Typed, TypeOK, TxType, Transaction
    <2> QED
      BY <1>6, <2>1, RollbackTyped, ContinueTyped, RequestSequences, RequestTypes DEF LockOwned, Stages
  <1> QED BY <1>1, <1>3, <1>4, <1>5, <1>6

LEMMA OwnerTyped ==
  ASSUME Typed, NEW w \in AllWorkers,
         CommitOwner(w) \/ CommitFinish(w) \/ Deactivate(w) \/ DeleteInactive(w)
  PROVE  Typed'
  <1> w \in Processes
    BY DEF Processes, AllWorkers
  <1>1. CASE CommitOwner(w)
    <2>1. CASE Rollback(w)
      BY <2>1, RollbackTyped
    <2>2. CASE ~Rollback(w)
      <3>1. /\ leases' = RetireSource(w) /\ EndTransaction(w) /\ UNCHANGED <<policy, token>>
            /\ \/ executions' = executions
               \/ executions' = Written(tx[w].row, "RUNNING", executions[tx[w].row].protocol, w)
        BY <1>1, <2>2 DEF CommitOwner
      <3>2. leases' \in [AllWorkers -> LeaseRow]
        BY <3>1 DEF Typed, TypeOK, RowTypes, LeaseRow, RetireSource
      <3>3. executions' \in [Executions -> ExecutionRow] /\ RunningIsOwned'
        BY <3>1, RowType, WrittenTyped DEF Typed, TypeOK, RowTypes, RunningIsOwned
      <3> QED BY <3>1, <3>2, <3>3, EndTyped DEF Typed, TypeOK, RowTypes, PolicyType
    <2> QED BY <2>1, <2>2
  <1>2. CASE CommitFinish(w)
    <2>1. CASE Rollback(w)
      BY <2>1, RollbackTyped
    <2>2. CASE ~Rollback(w)
      <3>1. /\ EndTransaction(w) /\ UNCHANGED <<policy, token, leases>>
            /\ executions' = Written(tx[w].row, "ended", executions[tx[w].row].protocol, None)
        BY <1>2, <2>2 DEF CommitFinish
      <3>2. executions' \in [Executions -> ExecutionRow] /\ RunningIsOwned'
        BY <3>1, RowType, WrittenTyped DEF Typed, TypeOK, RowTypes, RunningIsOwned
      <3> QED BY <3>1, <3>2, EndTyped DEF Typed, TypeOK, RowTypes, PolicyType
    <2> QED BY <2>1, <2>2
  <1>3. CASE Deactivate(w)
    BY <1>3, LeaseStateTyped DEF Deactivate
  <1>4. CASE DeleteInactive(w)
    BY <1>4, LeaseStateTyped DEF DeleteInactive
  <1> QED BY <1>1, <1>2, <1>3, <1>4

LEMMA ProducerTyped ==
  ASSUME Typed, NEW p \in Producers,
         \/ \E e \in Executions :
               InsertOld(p, e) \/ Retry(p, e) \/ \E v \in Protocols : Insert(p, e, v)
         \/ GuardLegacyExecution(p) \/ RetryLocked(p) \/ GuardNewWork(p) \/ CommitWrite(p)
  PROVE  Typed'
  <1> p \in Processes
    BY DEF Processes
  <1>1. ASSUME NEW e \in Executions,
               InsertOld(p, e) \/ Retry(p, e) \/ \E v \in Protocols : Insert(p, e, v)
        PROVE  Typed'
    BY <1>1, ContinueTyped, RequestSequences, RequestTypes DEF InsertOld, Retry, Insert, FencedWrite, Stages
  <1>2. CASE GuardLegacyExecution(p) \/ RetryLocked(p) \/ GuardNewWork(p)
    BY <1>2, ContinueTyped, RollbackTyped, RequestSequences, RequestTypes
       DEF GuardLegacyExecution, RetryLocked, GuardNewWork, FencedWrite, Stages
  <1>3. CASE CommitWrite(p)
    <2>1. CASE Rollback(p)
      BY <2>1, RollbackTyped
    <2>2. CASE ~Rollback(p)
      <3>1. /\ EndTransaction(p) /\ UNCHANGED <<policy, token, leases>>
        BY <1>3, <2>2 DEF CommitWrite
      <3>3. PICK v \in {1, 2, executions[tx[p].row].protocol} :
                  executions' = Written(tx[p].row, "QUEUED", v, None)
        BY <1>3, <2>2 DEF CommitWrite
      <3>2. executions' \in [Executions -> ExecutionRow] /\ RunningIsOwned'
        BY <3>3, RowType, WrittenTyped DEF Typed, TypeOK, RowTypes, RunningIsOwned
      <3> QED BY <3>1, <3>2, EndTyped DEF Typed, TypeOK, RowTypes, PolicyType
    <2> QED BY <2>1, <2>2
  <1> QED BY <1>1, <1>2, <1>3

LEMMA NextTyped == Typed /\ [Next]_vars => Typed'
  <1> SUFFICES ASSUME Typed, [Next]_vars PROVE Typed'
    OBVIOUS
  <1>1. CASE UNCHANGED vars
    BY <1>1, DataUnchangedTyped DEF vars, locks, Typed, TypeOK, TxType, LockTypes
  <1>2. CASE Next
    BY <1>2, AcquireTyped, CoordinatorTyped, LegacyTyped, CapableTyped, OwnerTyped, ProducerTyped DEF Next
  <1> QED BY <1>1, <1>2

-----------------------------------------------------------------------------
(***************************************************************************)
(* Steps of one transaction, seen from every transaction.                  *)
(***************************************************************************)

\* Transaction t neither moves nor gains or loses a lock.
SameView(t) ==
    /\ tx'[t] = tx[t]
    /\ \A r \in Resources : /\ t \in shared'[r] <=> t \in shared[r]
                            /\ t \in exclusive'[r] <=> t \in exclusive[r]

LEMMA SameViewKeeps ==
  ASSUME NEW t \in Processes, SameView(t), NEW lock \in LockRequest
  PROVE  /\ Asks(t, lock)' <=> Asks(t, lock)
         /\ Holds(t, lock)' <=> Holds(t, lock)
         /\ Secures(t, lock)' <=> Secures(t, lock)
  <1>1. Asks(t, lock)' <=> Asks(t, lock)
    BY DEF SameView, Asks
  <1>2. Holds(t, lock)' <=> Holds(t, lock)
    BY DEF SameView, Holds, LockRequest
  <1> QED BY <1>1, <1>2 DEF Secures

\* The data that a stage of t relies on.
SameFacts(t) ==
    /\ policy'.enabled <=> policy.enabled
    /\ tx[t].stage \in {"claim"} \cup RequeueStages => executions'[tx[t].row] = executions[tx[t].row]

LEMMA SoundFrame ==
  ASSUME Typed, NEW t \in Processes, Sound(t), SameView(t), SameFacts(t)
  PROVE  Sound(t)'
  <1>1. /\ Exclude(Advisory) \in LockRequest /\ Exclude(Policy) \in LockRequest
        /\ Share(Policy) \in LockRequest /\ Exclude(Table) \in LockRequest
        /\ tx[t].row \in Executions => Exclude(Row(tx[t].row)) \in LockRequest
    BY RequestTypes
  <1>2. tx'[t].stage = tx[t].stage /\ tx'[t].row = tx[t].row
    BY DEF SameView
  <1>3. (Light(t)' <=> Light(t)) /\ (RequeuesNew(t)' <=> RequeuesNew(t))
    BY <1>2 DEF Light, RequeuesNew, SameFacts, RequeueStages
  <1>4. StageLocks(t)'
    BY <1>1, <1>2, <1>3, SameViewKeeps DEF Sound, StageLocks, RowStages, RequeueStages
  <1>5. StageFacts(t)'
    BY <1>2, <1>3 DEF Sound, StageFacts, SameFacts
  <1>6. FenceIsClosed(t)'
    BY <1>1, <1>2, SameViewKeeps DEF Sound, FenceIsClosed, SameFacts
  <1> QED BY <1>4, <1>5, <1>6 DEF Sound

\* Proceed, and BeginTransition as well.
Move(t, stage, todo, row, revision) ==
    tx' = [tx EXCEPT ![t] = [stage |-> stage, todo |-> todo, row |-> row, revision |-> revision]]

LEMMA ProceedMoves ==
  ASSUME Typed, NEW t \in Processes, NEW stage, NEW todo, NEW row, Proceed(t, stage, todo, row)
  PROVE  \E revision \in Nat : Move(t, stage, todo, row, revision)
  <1>1. tx[t].revision \in Nat
    BY DEF Typed, TypeOK, TxType, Transaction
  <1> QED BY <1>1 DEF Proceed, Move

LEMMA MoveTyped ==
  ASSUME TypeOK, NEW t \in Processes, NEW stage \in Stages, NEW todo \in Seq(LockRequest),
         NEW row \in Executions \cup {None}, NEW revision \in Nat, Move(t, stage, todo, row, revision)
  PROVE  TxType'
  BY DEF TypeOK, TxType, Transaction, Move

LEMMA MoveView ==
  ASSUME Typed, NEW t \in Processes, NEW stage, NEW todo \in Seq(LockRequest), NEW row,
         NEW revision, Move(t, stage, todo, row, revision), UNCHANGED locks
  PROVE  /\ tx'[t].stage = stage /\ tx'[t].row = row /\ tx'[t].todo = todo
         /\ \A u \in Processes \ {t} : SameView(u)
         /\ \A lock \in LockRequest :
               /\ Holds(t, lock)' <=> Holds(t, lock)
               /\ Asks(t, lock)' <=> Among(todo, lock)
               /\ tx[t].todo = <<>> => (Secures(t, lock) <=> Holds(t, lock))
  <1>1. tx'[t].stage = stage /\ tx'[t].row = row /\ tx'[t].todo = todo
    BY DEF Move, Typed, TypeOK, TxType
  <1>2. \A u \in Processes \ {t} : SameView(u)
    BY DEF Move, Typed, TypeOK, TxType, SameView, locks
  <1>3. ASSUME NEW lock \in LockRequest
        PROVE  /\ Holds(t, lock)' <=> Holds(t, lock)
               /\ Asks(t, lock)' <=> Among(todo, lock)
               /\ tx[t].todo = <<>> => (Secures(t, lock) <=> Holds(t, lock))
    <2>1. Holds(t, lock)' <=> Holds(t, lock)
      BY DEF Holds, locks
    <2>2. Asks(t, lock)' <=> Among(todo, lock)
      BY <1>1 DEF Asks, Among
    <2>3. tx[t].todo = <<>> => (Secures(t, lock) <=> Holds(t, lock))
      BY DEF Asks, Among, Secures
    <2> QED BY <2>1, <2>2, <2>3
  <1> QED BY <1>1, <1>2, <1>3

LEMMA EndView ==
  ASSUME Typed, NEW t \in Processes, EndTransaction(t)
  PROVE  /\ tx'[t] = Idle
         /\ \A r \in Resources : t \notin shared'[r] \cup exclusive'[r]
         /\ \A u \in Processes \ {t} : SameView(u)
         /\ \A r \in Resources : shared'[r] \subseteq shared[r] /\ exclusive'[r] \subseteq exclusive[r]
         /\ Sound(t)'
  <1>1. tx'[t] = Idle
    BY DEF EndTransaction, Typed, TypeOK, TxType
  <1>2. \A r \in Resources : t \notin shared'[r] \cup exclusive'[r]
    BY DEF EndTransaction
  <1>3. \A u \in Processes \ {t} : SameView(u)
    BY DEF EndTransaction, Typed, TypeOK, TxType, SameView
  <1>4. \A r \in Resources : shared'[r] \subseteq shared[r] /\ exclusive'[r] \subseteq exclusive[r]
    BY DEF EndTransaction
  <1>5. ~Secures(t, Exclude(Table))'
    <2>1. Exclude(Table).on = Table /\ Exclude(Table).mode = "exclusive" /\ Table \in Resources
      BY RequestTypes DEF Exclude
    <2>2. ~Holds(t, Exclude(Table))'
      BY <1>2, <2>1 DEF Holds
    <2>3. tx'[t].todo = <<>>
      BY <1>1 DEF Idle
    <2>4. ~Asks(t, Exclude(Table))'
      BY <2>3 DEF Asks, Among
    <2> QED BY <2>2, <2>4 DEF Secures
  <1>6. tx'[t].stage = "idle"
    BY <1>1 DEF Idle
  <1>7. Sound(t)'
    BY <1>5, <1>6 DEF Sound, StageLocks, StageFacts, FenceIsClosed, Light, RequeuesNew, RequeueStages, RowStages
  <1> QED BY <1>1, <1>2, <1>3, <1>4, <1>7

LEMMA AcquireView ==
  ASSUME Typed, NEW t \in Processes, Acquire(t)
  PROVE  /\ \A u \in Processes \ {t} : SameView(u)
         /\ tx'[t].stage = tx[t].stage /\ tx'[t].row = tx[t].row
         /\ \A lock \in LockRequest :
               /\ Holds(t, lock)' <=> Holds(t, lock) \/ lock = Head(tx[t].todo)
               /\ Secures(t, lock)' <=> Secures(t, lock)
  <1> DEFINE next == Head(tx[t].todo)
  <1>1. /\ tx[t].todo \in Seq(LockRequest) /\ tx[t].todo # <<>>
        /\ tx[t].stage \in Stages
    BY DEF Typed, TypeOK, TxType, Transaction, Acquire
  <1>2. /\ next \in LockRequest /\ next = tx[t].todo[1]
        /\ next.on \in Resources /\ next.mode \in {"share", "exclusive"}
    <2>1. next \in LockRequest /\ next = tx[t].todo[1]
      BY <1>1
    <2> QED BY <2>1 DEF LockRequest
  <1>3. tx'[t].todo = Tail(tx[t].todo) /\ tx'[t].stage = tx[t].stage /\ tx'[t].row = tx[t].row
    BY DEF Acquire, Proceed, Typed, TypeOK, TxType
  <1>4. \A u \in Processes \ {t} : SameView(u)
    BY DEF Acquire, Proceed, Typed, TypeOK, TxType, LockTypes, SameView
  <1>5. ASSUME NEW lock \in LockRequest
        PROVE  /\ Holds(t, lock)' <=> Holds(t, lock) \/ lock = next
               /\ Secures(t, lock)' <=> Secures(t, lock)
    <2>1. lock = next <=> lock.on = next.on /\ lock.mode = next.mode
      BY <1>2 DEF LockRequest
    <2>2. lock.on \in Resources /\ lock.mode \in {"share", "exclusive"}
      BY DEF LockRequest
    <2>3. IF next.mode = "share"
          THEN shared' = [shared EXCEPT ![next.on] = @ \cup {t}] /\ UNCHANGED exclusive
          ELSE exclusive' = [exclusive EXCEPT ![next.on] = @ \cup {t}] /\ UNCHANGED shared
      BY DEF Acquire
    <2>4. Holds(t, lock)' <=> Holds(t, lock) \/ lock = next
      BY <1>2, <2>1, <2>2, <2>3 DEF Holds, Typed, TypeOK, LockTypes
    <2>5. Asks(t, lock) <=> Asks(t, lock)' \/ lock = next
      <3>1. /\ Len(tx'[t].todo) = Len(tx[t].todo) - 1 /\ Len(tx[t].todo) \in Nat /\ Len(tx[t].todo) >= 1
            /\ \A i \in 1..Len(tx'[t].todo) : tx'[t].todo[i] = tx[t].todo[i + 1]
        BY <1>1, <1>3
      <3>2. \A i \in 1..Len(tx[t].todo) : i = 1 \/ (i - 1 \in 1..Len(tx'[t].todo) /\ tx'[t].todo[i - 1] = tx[t].todo[i])
        BY <3>1
      <3>3. \A i \in 1..Len(tx'[t].todo) : i + 1 \in 1..Len(tx[t].todo)
        BY <3>1
      <3>4. 1 \in 1..Len(tx[t].todo)
        BY <3>1
      <3>5. Asks(t, lock) => Asks(t, lock)' \/ lock = next
        BY <1>2, <3>2 DEF Asks, Among
      <3>6. Asks(t, lock)' => Asks(t, lock)
        BY <3>1, <3>3 DEF Asks, Among
      <3>7. lock = next => Asks(t, lock)
        BY <1>2, <3>4 DEF Asks, Among
      <3> QED BY <3>5, <3>6, <3>7
    <2> QED BY <2>4, <2>5 DEF Secures
  <1> QED BY <1>3, <1>4, <1>5

LEMMA AcquireExcludes ==
  ASSUME Typed, NEW t \in Processes, Acquire(t), LocksExclude
  PROVE  LocksExclude'
  <1> DEFINE next == Head(tx[t].todo)
  <1>1. /\ next.on \in Resources /\ next.mode \in {"share", "exclusive"}
    <2>1. tx[t].todo \in Seq(LockRequest) /\ tx[t].todo # <<>>
      BY DEF Typed, TypeOK, TxType, Transaction, Acquire
    <2>2. next \in LockRequest
      BY <2>1
    <2> QED BY <2>2 DEF LockRequest
  <1>2. \A u \in Processes : u # t =>
           /\ u \notin exclusive[next.on]
           /\ next.mode = "exclusive" => u \notin shared[next.on]
    BY DEF Acquire, WaitsFor
  <1>3. CASE next.mode = "share"
    <2>1. shared' = [shared EXCEPT ![next.on] = @ \cup {t}] /\ exclusive' = exclusive
      BY <1>3 DEF Acquire
    <2> QED BY <1>1, <1>2, <2>1 DEF LocksExclude, Typed, TypeOK, LockTypes
  <1>4. CASE next.mode = "exclusive"
    <2>1. exclusive' = [exclusive EXCEPT ![next.on] = @ \cup {t}] /\ shared' = shared
      BY <1>4 DEF Acquire
    <2> QED BY <1>1, <1>2, <1>4, <2>1 DEF LocksExclude, Typed, TypeOK, LockTypes
  <1> QED BY <1>1, <1>3, <1>4

LEMMA DataKept ==
  ASSUME UNCHANGED data
  PROVE  /\ \A t \in Processes : SameFacts(t)
         /\ NoLegacyWhileClosed => NoLegacyWhileClosed'
         /\ OnlyV1WhileOpen => OnlyV1WhileOpen'
  <1>1. \A t \in Processes : SameFacts(t)
    BY DEF data, SameFacts
  <1>2. NoLegacyWhileClosed => NoLegacyWhileClosed'
    BY DEF data, NoLegacyWhileClosed, Active
  <1>3. OnlyV1WhileOpen => OnlyV1WhileOpen'
    BY DEF data, OnlyV1WhileOpen, Incompatible
  <1> QED BY <1>1, <1>2, <1>3

LEMMA AcquireStep ==
  ASSUME DataInv, NEW t \in Processes, Acquire(t)
  PROVE  DataInv'
  <1>1. UNCHANGED data /\ Typed /\ LocksExclude
    BY DEF Acquire, DataInv
  <1>2. Typed' /\ LocksExclude'
    BY <1>1, AcquireTyped, AcquireExcludes
  <1>3. ASSUME NEW u \in Processes, u # t
        PROVE  Sound(u)'
    BY <1>1, <1>3, AcquireView, SoundFrame, DataKept DEF DataInv
  <1>4. Sound(t)'
    <2>1. /\ tx'[t].stage = tx[t].stage /\ tx'[t].row = tx[t].row
          /\ \A lock \in LockRequest : (Holds(t, lock) => Holds(t, lock)') /\ (Secures(t, lock)' <=> Secures(t, lock))
      BY <1>1, AcquireView
    <2>2. /\ Exclude(Advisory) \in LockRequest /\ Exclude(Policy) \in LockRequest
          /\ Share(Policy) \in LockRequest /\ Exclude(Table) \in LockRequest
          /\ tx[t].row \in Executions => Exclude(Row(tx[t].row)) \in LockRequest
      BY RequestTypes
    <2>3. (Light(t)' <=> Light(t)) /\ (RequeuesNew(t)' <=> RequeuesNew(t))
      BY <1>1, <2>1 DEF Light, RequeuesNew, data
    <2>4. StageLocks(t)'
      BY <2>1, <2>2, <2>3 DEF DataInv, Sound, StageLocks, RowStages, RequeueStages
    <2>5. StageFacts(t)'
      BY <1>1, <2>1, <2>3 DEF DataInv, Sound, StageFacts, data
    <2>6. FenceIsClosed(t)'
      BY <1>1, <2>1, <2>2 DEF DataInv, Sound, FenceIsClosed, data
    <2> QED BY <2>4, <2>5, <2>6 DEF Sound
  <1>5. NoLegacyWhileClosed' /\ OnlyV1WhileOpen'
    BY <1>1, DataKept DEF DataInv
  <1> QED BY <1>2, <1>3, <1>4, <1>5 DEF DataInv

\* A transaction that goes on in a sound way.
LEMMA MoveStep ==
  ASSUME DataInv, NEW t \in Processes, NEW stage, NEW todo \in Seq(LockRequest), NEW row, NEW revision,
         Move(t, stage, todo, row, revision), UNCHANGED <<data, locks>>, Typed', Sound(t)'
  PROVE  DataInv'
  <1>1. UNCHANGED data /\ Typed /\ LocksExclude /\ LocksExclude'
    BY DEF DataInv, LocksExclude, locks
  <1>2. ASSUME NEW u \in Processes, u # t
        PROVE  Sound(u)'
    BY <1>1, <1>2, MoveView, SoundFrame, DataKept DEF DataInv
  <1>3. NoLegacyWhileClosed' /\ OnlyV1WhileOpen'
    BY <1>1, DataKept DEF DataInv
  <1> QED BY <1>1, <1>2, <1>3 DEF DataInv

\* The end of a transaction that changes nothing the others rely on.
LEMMA EndStep ==
  ASSUME DataInv, NEW t \in Processes, EndTransaction(t), Typed',
         \A u \in Processes \ {t} : SameFacts(u), NoLegacyWhileClosed', OnlyV1WhileOpen'
  PROVE  DataInv'
  <1>1. Typed /\ LocksExclude
    BY DEF DataInv
  <1>2. LocksExclude'
    BY <1>1, EndView DEF LocksExclude
  <1>3. \A u \in Processes : Sound(u)'
    BY <1>1, EndView, SoundFrame DEF DataInv
  <1> QED BY <1>2, <1>3 DEF DataInv

LEMMA RollbackStep ==
  ASSUME DataInv, NEW t \in Processes, Rollback(t)
  PROVE  DataInv'
  <1>1. Typed /\ UNCHANGED data /\ EndTransaction(t)
    BY DEF DataInv, Rollback
  <1>2. Typed'
    BY <1>1, RollbackTyped
  <1> QED BY <1>1, <1>2, EndStep, DataKept DEF DataInv

LEMMA Elements ==
  /\ \A lock : ~Among(<<>>, lock)
  /\ \A a, lock : Among(<<a>>, lock) <=> lock = a
  /\ \A a, b, lock : Among(<<a, b>>, lock) <=> lock \in {a, b}
  /\ \A a, b, c, lock : Among(<<a, b, c>>, lock) <=> lock \in {a, b, c}
  <1>1. \A lock : ~Among(<<>>, lock)
    BY DEF Among
  <1>2. ASSUME NEW a, NEW lock PROVE Among(<<a>>, lock) <=> lock = a
    <2>1. Len(<<a>>) = 1 /\ <<a>>[1] = a
      OBVIOUS
    <2>2. 1..1 = {1}
      OBVIOUS
    <2> QED BY <2>1, <2>2 DEF Among
  <1>3. ASSUME NEW a, NEW b, NEW lock PROVE Among(<<a, b>>, lock) <=> lock \in {a, b}
    <2>1. Len(<<a, b>>) = 2 /\ <<a, b>>[1] = a /\ <<a, b>>[2] = b
      OBVIOUS
    <2>2. 1..2 = {1, 2}
      OBVIOUS
    <2> QED BY <2>1, <2>2 DEF Among
  <1>4. ASSUME NEW a, NEW b, NEW c, NEW lock PROVE Among(<<a, b, c>>, lock) <=> lock \in {a, b, c}
    <2>1. Len(<<a, b, c>>) = 3 /\ <<a, b, c>>[1] = a /\ <<a, b, c>>[2] = b /\ <<a, b, c>>[3] = c
      OBVIOUS
    <2>2. 1..3 = {1, 2, 3}
      OBVIOUS
    <2> QED BY <2>1, <2>2 DEF Among
  <1> QED BY <1>1, <1>2, <1>3, <1>4

\* The table is locked exclusively under no other name.
LEMMA OtherLocks ==
  /\ \A r : Share(r) # Exclude(Table)
  /\ \A r \in {Advisory, Policy, Token} : Exclude(r) # Exclude(Table)
  /\ \A w : Exclude(Lease(w)) # Exclude(Table) /\ Exclude(Row(w)) # Exclude(Table)
  <1>1. \A r : Share(r).mode = "share" /\ Exclude(r).mode = "exclusive" /\ Exclude(r).on = r
    BY DEF Share, Exclude
  <1>2. \A r \in {Advisory, Policy, Token} : r # Table
    BY DEF Advisory, Policy, Token, Table
  <1>3. \A w : Lease(w) # Table /\ Row(w) # Table
    BY DEF Lease, Row, Table
  <1> QED BY <1>1, <1>2, <1>3

\* What makes it sound to go on with a stage and its requests.
SoundAfter(t, stage, todo, row) ==
    LET Gets(lock) == Holds(t, lock) \/ Among(todo, lock)
        light == t \in LegacyWorkers /\ stage \in {"claim", "finish"}
        requeuesNew == stage = "requeue" /\ executions[row].protocol # 1
    IN  /\ stage \in {"close", "reopen"} => Gets(Exclude(Advisory))
        /\ stage \in {"scanned", "closing", "reopening"} => Holds(t, Exclude(Advisory)) /\ Gets(Exclude(Policy))
        /\ stage = "closing" => Holds(t, Exclude(Policy))
        /\ stage \in {"insert_lease", "admit", "guard_insert", "guard_requeue"} => Gets(Share(Policy))
        /\ stage \in {"inserting", "inserted", "beating", "insert_new"} \/ light \/ requeuesNew
              => Holds(t, Share(Policy))
        /\ stage \in RowStages => row \in Executions /\ Gets(Exclude(Row(row)))
        /\ stage \in {"claim"} \cup RequeueStages => Holds(t, Exclude(Row(row)))
        /\ stage \in RequeueStages => executions[row].state = "ended"
        /\ stage \in {"inserting", "inserted", "beating"} \/ light => policy.enabled
        /\ stage = "insert_new" \/ requeuesNew => ~policy.enabled
        /\ stage = "claim" => executions[row].state = "QUEUED"
        /\ Gets(Exclude(Table)) => stage = "reopening" /\ ~policy.enabled

LEMMA SoundMove ==
  ASSUME DataInv, NEW t \in Processes, NEW stage \in Stages, NEW todo \in Seq(LockRequest),
         NEW row \in Executions \cup {None}, NEW revision \in Nat, Move(t, stage, todo, row, revision),
         UNCHANGED <<data, locks>>, SoundAfter(t, stage, todo, row)
  PROVE  DataInv'
  <1>1. Typed /\ TypeOK
    BY DEF DataInv, Typed
  <1>2. Typed'
    BY <1>1, MoveTyped, DataUnchangedTyped DEF TypeOK, LockTypes, locks
  <1>3. /\ tx'[t].stage = stage /\ tx'[t].row = row
        /\ \A lock \in LockRequest :
              (Holds(t, lock)' <=> Holds(t, lock)) /\ (Secures(t, lock)' <=> Holds(t, lock) \/ Among(todo, lock))
    BY <1>1, MoveView DEF Secures
  <1>4. /\ Exclude(Advisory) \in LockRequest /\ Exclude(Policy) \in LockRequest
        /\ Share(Policy) \in LockRequest /\ Exclude(Table) \in LockRequest
        /\ row \in Executions => Exclude(Row(row)) \in LockRequest
    BY RequestTypes
  <1>5. policy' = policy /\ executions' = executions
    BY DEF data
  <1>6. /\ Light(t)' <=> t \in LegacyWorkers /\ stage \in {"claim", "finish"}
        /\ RequeuesNew(t)' <=> stage = "requeue" /\ executions[row].protocol # 1
    BY <1>3, <1>5 DEF Light, RequeuesNew
  <1>7. StageLocks(t)'
    BY <1>3, <1>4, <1>6 DEF SoundAfter, StageLocks, RequeueStages, RowStages
  <1>8. StageFacts(t)'
    BY <1>3, <1>5, <1>6 DEF SoundAfter, StageFacts, RequeueStages
  <1>9. FenceIsClosed(t)'
    BY <1>3, <1>4, <1>5 DEF SoundAfter, FenceIsClosed
  <1> QED BY <1>2, <1>7, <1>8, <1>9, MoveStep DEF Sound

\* What a transaction whose requests are granted knows.
LEMMA SoundReached ==
  ASSUME DataInv, NEW t \in Processes, tx[t].todo = <<>>
  PROVE  /\ Sound(t)
         /\ \A lock \in LockRequest : Secures(t, lock) => Holds(t, lock)
         /\ Holds(t, Exclude(Table)) => tx[t].stage = "reopening"
         /\ tx[t].row \in Executions \cup {None}
  <1>1. Sound(t) /\ Typed
    BY DEF DataInv
  <1>2. \A lock \in LockRequest : Secures(t, lock) => Holds(t, lock)
    BY Elements DEF Secures, Asks
  <1>3. Holds(t, Exclude(Table)) => tx[t].stage = "reopening"
    BY <1>1 DEF Sound, FenceIsClosed, Secures
  <1> QED BY <1>1, <1>2, <1>3, RowType

LEMMA SoundContinue ==
  ASSUME DataInv, NEW t \in Processes, NEW stage \in Stages, NEW todo \in Seq(LockRequest),
         \/ Continue(t, stage, todo) /\ SoundAfter(t, stage, todo, tx[t].row)
         \/ \E row \in Executions \cup {None} : Begin(t, stage, todo, row) /\ SoundAfter(t, stage, todo, row)
  PROVE  DataInv'
  <1>1. Typed /\ tx[t].row \in Executions \cup {None}
    BY RowType DEF DataInv
  <1> QED BY <1>1, SoundMove, ProceedMoves DEF Continue, Begin

LEMMA CoordinatorMoves ==
  ASSUME DataInv, NEW c \in Coordinators,
         \/ \E n \in 1..policy.revision, stage \in {"close", "reopen"} : BeginTransition(c, stage, n)
         \/ ScanLegacyLeases(c) \/ ValidateClose(c) \/ FenceWriters(c)
  PROVE  DataInv'
  <1> USE DEF RequeueStages, RowStages
  <1>0. c \in Processes
    BY DEF Processes
  <1>1. ASSUME NEW n \in 1..policy.revision, NEW stage \in {"close", "reopen"}, BeginTransition(c, stage, n)
        PROVE  DataInv'
    <2>5. policy.revision \in Nat
      BY DEF DataInv, Typed, TypeOK, PolicyType
    <2>6. tx[c].todo = <<>> /\ tx[c].stage = "idle"
      BY <1>1, IdleFields DEF BeginTransition
    <2>7. stage \in Stages
      BY DEF Stages
    <2>8. n \in Nat
      BY <2>5
    <2>1. n \in Nat /\ stage \in Stages /\ tx[c].todo = <<>> /\ tx[c].stage = "idle"
      BY <2>6, <2>7, <2>8
    <2>2. <<Exclude(Advisory)>> \in Seq(LockRequest)
      BY RequestSequences, RequestTypes
    <2>3. Move(c, stage, <<Exclude(Advisory)>>, None, n) /\ UNCHANGED <<data, locks>>
      BY <1>1 DEF BeginTransition, Move
    <2>4. SoundAfter(c, stage, <<Exclude(Advisory)>>, None)
      BY <1>0, <2>1, SoundReached, Elements, OtherLocks DEF SoundAfter
    <2> QED BY <1>0, <2>1, <2>2, <2>3, <2>4, SoundMove
  <1>2. CASE ScanLegacyLeases(c)
    <2>1. PICK order \in LockLeases(Linked) :
             Reached(c, "close") /\ Continue(c, "scanned", order \o <<Exclude(Policy)>>)
      BY <1>2 DEF ScanLegacyLeases
    <2> DEFINE todo == order \o <<Exclude(Policy)>>
    <2>2. /\ order \in Seq(LockRequest)
          /\ \A i \in 1..Len(order) : \E w \in Linked : order[i] = Exclude(Lease(w))
      BY LeaseOrder DEF Linked, AllWorkers
    <2>3. /\ todo \in Seq(LockRequest) /\ Len(todo) = Len(order) + 1 /\ Len(order) \in Nat
          /\ \A i \in 1..Len(order) : todo[i] = order[i]
          /\ todo[Len(order) + 1] = Exclude(Policy)
      BY <2>2, RequestSequences, RequestTypes
    <2>4. Len(order) + 1 \in 1..Len(todo) /\ \A i \in 1..Len(todo) : i \in 1..Len(order) \/ i = Len(order) + 1
      BY <2>3
    <2>5. Among(todo, Exclude(Policy))
      BY <2>3, <2>4 DEF Among
    <2>6. ~Among(todo, Exclude(Table))
      BY <2>2, <2>3, <2>4, OtherLocks DEF Among
    <2>7. Holds(c, Exclude(Advisory)) /\ ~Holds(c, Exclude(Table))
      BY <1>0, <2>1, SoundReached, RequestTypes DEF Reached, Sound, StageLocks
    <2>8. SoundAfter(c, "scanned", todo, tx[c].row)
      BY <2>5, <2>6, <2>7 DEF SoundAfter
    <2>9. "scanned" \in Stages
      BY DEF Stages
    <2> HIDE DEF todo
    <2> QED BY <1>0, <2>1, <2>3, <2>8, <2>9, SoundContinue DEF todo
  <1>3. CASE ValidateClose(c)
    <2>1. Reached(c, "scanned")
      BY <1>3 DEF ValidateClose
    <2>2. Holds(c, Exclude(Advisory)) /\ Holds(c, Exclude(Policy)) /\ ~Holds(c, Exclude(Table))
      BY <1>0, <2>1, SoundReached, RequestTypes DEF Reached, Sound, StageLocks
    <2>3. SoundAfter(c, "closing", <<Exclude(Token)>>, tx[c].row)
      BY <2>2, Elements, OtherLocks DEF SoundAfter
    <2> QED BY <1>0, <1>3, <2>3, SoundContinue, RollbackStep, RequestSequences, RequestTypes DEF ValidateClose, Stages
  <1>4. CASE FenceWriters(c)
    <2>1. Reached(c, "reopen")
      BY <1>4 DEF FenceWriters
    <2>2. Holds(c, Exclude(Advisory)) /\ ~Holds(c, Exclude(Table))
      BY <1>0, <2>1, SoundReached, RequestTypes DEF Reached, Sound, StageLocks
    <2> DEFINE todo == IF policy.enabled THEN <<Exclude(Policy)>> ELSE <<Exclude(Table), Exclude(Policy)>>
    <2>3. SoundAfter(c, "reopening", todo, tx[c].row)
      BY <2>2, Elements, OtherLocks DEF SoundAfter
    <2>4. todo \in Seq(LockRequest) /\ "reopening" \in Stages
      BY RequestSequences, RequestTypes DEF Stages
    <2>5. Continue(c, "reopening", todo)
      BY <1>4 DEF FenceWriters
    <2> HIDE DEF todo
    <2> QED BY <1>0, <2>3, <2>4, <2>5, SoundContinue
  <1> QED BY <1>1, <1>2, <1>3, <1>4

\* A claim locks a row that nobody had locked.
LEMMA SelectStep ==
  ASSUME DataInv, NEW w \in AllWorkers, NEW e \in Executions, Select(w, e), tx[w].todo = <<>>,
         tx[w].stage # "reopening",
         w \in LegacyWorkers => Holds(w, Share(Policy)) /\ policy.enabled
  PROVE  DataInv'
  <1>0. w \in Processes /\ Typed /\ TypeOK /\ UNCHANGED data
    BY DEF Processes, AllWorkers, DataInv, Typed, Select
  <1>1. /\ Proceed(w, "claim", <<Share(Table), Share(Policy)>>, e)
        /\ exclusive' = [exclusive EXCEPT ![Row(e)] = {w}] /\ shared' = shared
        /\ shared[Row(e)] = {} /\ exclusive[Row(e)] = {} /\ Row(e) \in Resources
    BY RequestTypes DEF Select, Free
  <1>2. Typed'
    BY <1>0, SelectTyped
  <1>3. LocksExclude'
    BY <1>1 DEF DataInv, LocksExclude, Typed, TypeOK, LockTypes
  <1>4. ASSUME NEW u \in Processes, u # w PROVE Sound(u)'
    <2>1. SameView(u)
      BY <1>0, <1>1, <1>4 DEF SameView, Proceed, TypeOK, TxType, LockTypes
    <2> QED BY <1>0, <2>1, SoundFrame, DataKept DEF DataInv
  <1>5. Sound(w)'
    <2>1. tx'[w].stage = "claim" /\ tx'[w].row = e /\ tx'[w].todo = <<Share(Table), Share(Policy)>>
      BY <1>0, <1>1 DEF Proceed, TypeOK, TxType
    <2>2. /\ Exclude(Table).mode = "exclusive" /\ Exclude(Table).on = Table /\ Table # Row(e)
          /\ Share(Policy).mode = "share" /\ Share(Policy).on = Policy
      BY DEF Exclude, Share, Table, Row
    <2>3. (Holds(w, Exclude(Table))' <=> Holds(w, Exclude(Table))) /\ (Holds(w, Share(Policy))' <=> Holds(w, Share(Policy)))
      BY <1>1, <2>2, RequestTypes DEF Holds, DataInv, Typed, TypeOK, LockTypes
    <2>4. ~Asks(w, Exclude(Table))'
      BY <2>1, Elements, OtherLocks DEF Asks
    <2>5. ~Secures(w, Exclude(Table))'
      BY <1>0, <2>3, <2>4, SoundReached DEF Secures
    <2>6. policy' = policy /\ executions'[e].state = "QUEUED"
      BY <1>0 DEF data, Select
    <2>7. Holds(w, Exclude(Row(e)))' /\ Secures(w, Exclude(Row(e)))'
      BY <1>1 DEF Secures, Holds, Exclude, DataInv, Typed, TypeOK, LockTypes
    <2> QED BY <2>1, <2>3, <2>5, <2>6, <2>7
            DEF Sound, StageLocks, StageFacts, FenceIsClosed, Light, RequeuesNew, RequeueStages, RowStages
  <1>6. NoLegacyWhileClosed' /\ OnlyV1WhileOpen'
    BY <1>0, DataKept DEF DataInv
  <1> QED BY <1>2, <1>3, <1>4, <1>5, <1>6 DEF DataInv

LEMMA LegacyMoves ==
  ASSUME DataInv, NEW l \in LegacyWorkers,
         InsertLegacyLease(l) \/ BeatLegacyLease(l) \/ GuardLegacyLease(l) \/ WorkOrCommitLegacy(l)
  PROVE  DataInv'
  <1> USE DEF RequeueStages, RowStages
  <1>0. l \in Processes /\ l \in AllWorkers
    BY DEF Processes, AllWorkers
  <1>a. <<Share(Policy)>> \in Seq(LockRequest) /\ <<Share(Token)>> \in Seq(LockRequest) /\ <<>> \in Seq(LockRequest)
        /\ <<Exclude(Lease(l))>> \in Seq(LockRequest)
    BY <1>0, RequestSequences, RequestTypes
  <1>1. CASE InsertLegacyLease(l) \/ BeatLegacyLease(l)
    <2>1. tx[l].todo = <<>> /\ tx[l].stage = "idle"
      BY <1>1, IdleFields DEF InsertLegacyLease, BeatLegacyLease, Begin
    <2>2. ~Holds(l, Exclude(Table))
      BY <1>0, <2>1, SoundReached
    <2>3. SoundAfter(l, "insert_lease", <<Share(Policy)>>, None)
      BY <2>2, Elements, OtherLocks DEF SoundAfter
    <2>4. SoundAfter(l, "beat", <<Exclude(Lease(l))>>, None)
      BY <2>2, Elements, OtherLocks DEF SoundAfter
    <2> QED BY <1>0, <1>a, <1>1, <2>3, <2>4, SoundContinue DEF InsertLegacyLease, BeatLegacyLease, Stages
  <1>2. CASE Reached(l, "beat") /\ Continue(l, "admit", <<Share(Policy)>>)
    <2>1. SoundAfter(l, "admit", <<Share(Policy)>>, tx[l].row)
      BY <1>0, <1>2, SoundReached, Elements, OtherLocks DEF SoundAfter, Reached
    <2> QED BY <1>0, <1>a, <1>2, <2>1, SoundContinue DEF Stages
  <1>3. CASE Reached(l, "admit") /\ policy.enabled /\ Continue(l, "beating", <<Share(Token)>>)
    <2>1. Holds(l, Share(Policy)) /\ ~Holds(l, Exclude(Table))
      BY <1>0, <1>3, SoundReached, RequestTypes DEF Reached, Sound, StageLocks
    <2>2. SoundAfter(l, "beating", <<Share(Token)>>, tx[l].row)
      BY <1>3, <2>1, Elements, OtherLocks DEF SoundAfter
    <2> QED BY <1>0, <1>a, <1>3, <2>2, SoundContinue DEF Stages
  <1>4. CASE Reached(l, "insert_lease") /\ policy.enabled /\ Continue(l, "inserting", <<Share(Token)>>)
    <2>1. Holds(l, Share(Policy)) /\ ~Holds(l, Exclude(Table)) /\ policy.enabled
      BY <1>0, <1>4, SoundReached, RequestTypes DEF Reached, Sound, StageLocks
    <2>2. SoundAfter(l, "inserting", <<Share(Token)>>, tx[l].row)
      BY <2>1, Elements, OtherLocks DEF SoundAfter
    <2> QED BY <1>0, <1>a, <1>4, <2>2, SoundContinue DEF Stages
  <1>5. CASE Reached(l, "inserting") /\ Continue(l, "inserted", <<>>)
    <2>1. Holds(l, Share(Policy)) /\ ~Holds(l, Exclude(Table)) /\ policy.enabled
      BY <1>0, <1>5, SoundReached DEF Reached, Sound, StageLocks, StageFacts
    <2>2. SoundAfter(l, "inserted", <<>>, tx[l].row)
      BY <2>1, Elements DEF SoundAfter
    <2> QED BY <1>0, <1>a, <1>5, <2>2, SoundContinue DEF Stages
  <1>6. CASE GuardLegacyLease(l)
    BY <1>0, <1>2, <1>3, <1>4, <1>5, <1>6, RollbackStep DEF GuardLegacyLease
  <1>7. CASE WorkOrCommitLegacy(l)
    <2>1. Reached(l, "beating")
      BY <1>7 DEF WorkOrCommitLegacy
    <2>2. Holds(l, Share(Policy)) /\ ~Holds(l, Exclude(Table)) /\ policy.enabled
      BY <1>0, <2>1, SoundReached DEF Reached, Sound, StageLocks, StageFacts
    <2>3. ASSUME NEW e \in Executions, Select(l, e) PROVE DataInv'
      BY <1>0, <2>1, <2>2, <2>3, SelectStep DEF Reached
    <2>4. ASSUME NEW e \in Executions, Proceed(l, "finish", <<Exclude(Row(e)), Share(Table)>>, e),
                 UNCHANGED <<data, locks>>
          PROVE  DataInv'
      <3>1. SoundAfter(l, "finish", <<Exclude(Row(e)), Share(Table)>>, e)
        BY <2>2, Elements, OtherLocks DEF SoundAfter
      <3>2. <<Exclude(Row(e)), Share(Table)>> \in Seq(LockRequest) /\ "finish" \in Stages
        BY RequestSequences, RequestTypes DEF Stages
      <3>3. PICK revision \in Nat : Move(l, "finish", <<Exclude(Row(e)), Share(Table)>>, e, revision)
        BY <1>0, <2>4, ProceedMoves DEF DataInv
      <3> QED BY <1>0, <2>4, <3>1, <3>2, <3>3, SoundMove
    <2> QED BY <1>0, <1>7, <2>3, <2>4, RollbackStep DEF WorkOrCommitLegacy
  <1> QED BY <1>1, <1>6, <1>7

LEMMA CapableMoves ==
  ASSUME DataInv, NEW w \in Workers,
         BeginClaim(w) \/ SelectQueued(w) \/ LockOwned(w) \/ \E e \in Executions : BeginOwned(w, e)
  PROVE  DataInv'
  <1> USE DEF RequeueStages, RowStages
  <1>0. w \in Processes /\ w \in AllWorkers /\ w \notin LegacyWorkers
    BY WorkersDiffer DEF Processes, AllWorkers
  <1>1. ASSUME NEW source \in SUBSET AllWorkers, NEW e \in Executions \cup {None},
               LockAuthoritativeLeases(w, source, e)
        PROVE  DataInv'
    <2>1. PICK order \in LockLeases({w} \cup source) : Begin(w, "leases", order, e)
      BY <1>1 DEF LockAuthoritativeLeases
    <2>2. /\ order \in Seq(LockRequest)
          /\ \A i \in 1..Len(order) : \E v \in {w} \cup source : order[i] = Exclude(Lease(v))
      BY <1>0, LeaseOrder
    <2>3. ~Among(order, Exclude(Table))
      BY <2>2, OtherLocks DEF Among
    <2>4. ~Holds(w, Exclude(Table))
      BY <1>0, <2>1, SoundReached DEF Begin, Idle
    <2>5. SoundAfter(w, "leases", order, e)
      BY <2>3, <2>4 DEF SoundAfter
    <2> QED BY <1>0, <2>1, <2>2, <2>5, SoundContinue DEF Stages
  <1>2. CASE BeginClaim(w)
    BY <1>1, <1>2 DEF BeginClaim
  <1>3. ASSUME NEW e \in Executions, BeginOwned(w, e) PROVE DataInv'
    BY <1>1, <1>3 DEF BeginOwned, DataInv, Typed, RunningIsOwned
  <1>4. CASE SelectQueued(w)
    BY <1>0, <1>4, RollbackStep, SelectStep DEF SelectQueued, Reached
  <1>5. CASE LockOwned(w)
    <2>1. CASE Rollback(w)
      BY <1>0, <2>1, RollbackStep
    <2>2. CASE ~Rollback(w)
      <3>1. /\ Reached(w, "leases") /\ tx[w].row \in Executions
            /\ \/ Continue(w, "finish", <<Exclude(Row(tx[w].row)), Share(Table)>>)
               \/ Continue(w, "adopt", <<Exclude(Row(tx[w].row)), Share(Table), Share(Policy)>>)
        BY <1>0, <1>5, <2>2, RowType DEF LockOwned, DataInv
      <3>2. ~Holds(w, Exclude(Table))
        BY <1>0, <3>1, SoundReached DEF Reached
      <3>3. /\ SoundAfter(w, "finish", <<Exclude(Row(tx[w].row)), Share(Table)>>, tx[w].row)
            /\ SoundAfter(w, "adopt", <<Exclude(Row(tx[w].row)), Share(Table), Share(Policy)>>, tx[w].row)
        BY <1>0, <3>1, <3>2, Elements, OtherLocks DEF SoundAfter
      <3> QED BY <1>0, <3>1, <3>3, SoundContinue, RequestSequences, RequestTypes DEF Stages
    <2> QED BY <2>1, <2>2
  <1> QED BY <1>2, <1>3, <1>4, <1>5

LEMMA ProducerMoves ==
  ASSUME DataInv, NEW p \in Producers,
         \/ \E e \in Executions :
               InsertOld(p, e) \/ Retry(p, e) \/ \E v \in Protocols : Insert(p, e, v)
         \/ GuardLegacyExecution(p) \/ RetryLocked(p) \/ GuardNewWork(p)
  PROVE  DataInv'
  <1> USE DEF RequeueStages, RowStages
  <1>0. p \in Processes
    BY DEF Processes
  <1>a. /\ <<Share(Table)>> \in Seq(LockRequest) /\ <<Share(Token)>> \in Seq(LockRequest) /\ <<>> \in Seq(LockRequest)
        /\ <<Share(Table), Share(Policy)>> \in Seq(LockRequest)
    BY RequestSequences, RequestTypes
  <1>1. ASSUME NEW e \in Executions,
               InsertOld(p, e) \/ Retry(p, e) \/ \E v \in Protocols : Insert(p, e, v)
        PROVE  DataInv'
    <2>1. ~Holds(p, Exclude(Table))
      BY <1>0, <1>1, SoundReached, IdleFields DEF InsertOld, Retry, Insert, Begin
    <2>2. /\ SoundAfter(p, "insert", <<Share(Table)>>, e)
          /\ SoundAfter(p, "guard_insert", <<Share(Table), Share(Policy)>>, e)
          /\ SoundAfter(p, "insert_old", <<Share(Table), Share(Policy)>>, e)
          /\ SoundAfter(p, "retry", <<Exclude(Row(e))>>, e)
      BY <2>1, Elements, OtherLocks DEF SoundAfter
    <2>3. <<Exclude(Row(e))>> \in Seq(LockRequest)
      BY RequestSequences, RequestTypes
    <2> QED BY <1>0, <1>a, <1>1, <2>2, <2>3, SoundContinue DEF InsertOld, Retry, Insert, FencedWrite, Stages
  <1>2. CASE GuardLegacyExecution(p)
    <2>1. ~Holds(p, Exclude(Table))
      BY <1>0, <1>2, SoundReached DEF GuardLegacyExecution, Reached
    <2>2. /\ SoundAfter(p, "insert_linked", <<Share(Token)>>, tx[p].row)
          /\ SoundAfter(p, "insert", <<>>, tx[p].row)
      BY <2>1, Elements, OtherLocks DEF SoundAfter
    <2> QED BY <1>0, <1>a, <1>2, <2>2, SoundContinue, RollbackStep DEF GuardLegacyExecution, Stages
  <1>3. CASE RetryLocked(p)
    <2>1. /\ Reached(p, "retry") /\ tx[p].row \in Executions
          /\ Holds(p, Exclude(Row(tx[p].row))) /\ ~Holds(p, Exclude(Table))
      BY <1>0, <1>3, SoundReached, RequestTypes DEF RetryLocked, Reached, Sound, StageLocks
    <2>2. executions[tx[p].row].state = "ended" =>
             /\ executions[tx[p].row].protocol = 1 => SoundAfter(p, "requeue", <<Share(Table)>>, tx[p].row)
             /\ SoundAfter(p, "guard_requeue", <<Share(Table), Share(Policy)>>, tx[p].row)
      BY <2>1, Elements, OtherLocks DEF SoundAfter
    <2>3. \/ Rollback(p)
          \/ /\ executions[tx[p].row].state = "ended" /\ executions[tx[p].row].protocol = 1
             /\ Continue(p, "requeue", <<Share(Table)>>)
          \/ /\ executions[tx[p].row].state = "ended"
             /\ Continue(p, "guard_requeue", <<Share(Table), Share(Policy)>>)
      BY <1>3 DEF RetryLocked, FencedWrite
    <2> QED BY <1>0, <1>a, <2>2, <2>3, SoundContinue, RollbackStep DEF Stages
  <1>4. CASE GuardNewWork(p)
    <2>1. CASE Rollback(p)
      BY <1>0, <2>1, RollbackStep
    <2>2. CASE Reached(p, "guard_insert") /\ ~policy.enabled /\ Continue(p, "insert_new", <<>>)
      <3>1. Holds(p, Share(Policy)) /\ ~Holds(p, Exclude(Table))
        BY <1>0, <2>2, SoundReached, RequestTypes DEF Reached, Sound, StageLocks
      <3>2. SoundAfter(p, "insert_new", <<>>, tx[p].row)
        BY <2>2, <3>1, Elements DEF SoundAfter
      <3> QED BY <1>0, <1>a, <2>2, <3>2, SoundContinue DEF Stages
    <2>3. CASE Reached(p, "guard_requeue") /\ ~policy.enabled /\ Continue(p, "requeue", <<>>)
      <3>1. /\ Holds(p, Share(Policy)) /\ ~Holds(p, Exclude(Table)) /\ tx[p].row \in Executions
            /\ Holds(p, Exclude(Row(tx[p].row))) /\ executions[tx[p].row].state = "ended"
        BY <1>0, <2>3, SoundReached, RequestTypes DEF Reached, Sound, StageLocks, StageFacts
      <3>2. SoundAfter(p, "requeue", <<>>, tx[p].row)
        BY <2>3, <3>1, Elements DEF SoundAfter
      <3> QED BY <1>0, <1>a, <2>3, <3>2, SoundContinue DEF Stages
    <2> QED BY <1>4, <2>1, <2>2, <2>3 DEF GuardNewWork, NewWorkAllowed
  <1> QED BY <1>1, <1>2, <1>3, <1>4

-----------------------------------------------------------------------------
(***************************************************************************)
(* Commits.                                                                *)
(***************************************************************************)

\* Whoever changes the policy has excluded everybody who relies on it.
LEMMA PolicyChange ==
  ASSUME DataInv, NEW c \in Processes, Holds(c, Exclude(Policy)), Holds(c, Exclude(Advisory)),
         EndTransaction(c), executions' = executions
  PROVE  \A u \in Processes : Sound(u)'
  <1>0. Typed /\ LocksExclude /\ \A u \in Processes : Sound(u)
    BY DEF DataInv
  <1>1. c \in exclusive[Policy] /\ c \in exclusive[Advisory] /\ Policy \in Resources /\ Advisory \in Resources
    BY RequestTypes DEF Holds, Exclude
  <1>2. ASSUME NEW u \in Processes, u # c
        PROVE  ~Holds(u, Share(Policy)) /\ ~Holds(u, Exclude(Advisory)) /\ ~Holds(u, Exclude(Policy))
    BY <1>0, <1>1, <1>2 DEF LocksExclude, Holds, Exclude, Share
  <1>3. ASSUME NEW u \in Processes, u # c PROVE Sound(u)'
    <2>1. SameView(u) /\ Sound(u)
      BY <1>0, <1>3, EndView
    <2>2. /\ Exclude(Advisory) \in LockRequest /\ Exclude(Policy) \in LockRequest
          /\ Share(Policy) \in LockRequest /\ Exclude(Table) \in LockRequest
          /\ tx[u].row \in Executions => Exclude(Row(tx[u].row)) \in LockRequest
      BY RequestTypes
    <2>3. tx'[u].stage = tx[u].stage /\ tx'[u].row = tx[u].row
      BY <2>1 DEF SameView
    <2>4. (Light(u)' <=> Light(u)) /\ (RequeuesNew(u)' <=> RequeuesNew(u))
      BY <2>3 DEF Light, RequeuesNew
    <2>5. StageLocks(u)'
      BY <2>1, <2>2, <2>3, <2>4, SameViewKeeps DEF Sound, StageLocks, RowStages, RequeueStages
    <2>6. /\ ~(tx[u].stage \in {"inserting", "inserted", "beating", "insert_new"} \/ Light(u) \/ RequeuesNew(u))
          /\ tx[u].stage # "reopening"
      BY <1>2, <1>3, <2>1 DEF Sound, StageLocks
    <2>7. StageFacts(u)'
      BY <2>1, <2>3, <2>4, <2>6 DEF Sound, StageFacts
    <2>8. FenceIsClosed(u)'
      BY <2>1, <2>2, <2>6, SameViewKeeps DEF Sound, FenceIsClosed
    <2> QED BY <2>5, <2>7, <2>8 DEF Sound
  <1> QED BY <1>0, <1>3, EndView

LEMMA CloseStep ==
  ASSUME DataInv, NEW c \in Coordinators, CommitClose(c)
  PROVE  DataInv'
  <1>0. c \in Processes /\ Typed
    BY DEF Processes, DataInv
  <1>1. CASE Rollback(c)
    BY <1>0, <1>1, RollbackStep
  <1>2. CASE ~Rollback(c)
    <2>1. /\ Reached(c, "closing") /\ \A w \in LegacyWorkers : ~Active(w)
          /\ leases' = [w \in AllWorkers |-> [state |-> leases[w].state, token |-> FALSE]]
          /\ policy' = [enabled |-> FALSE, revision |-> policy.revision + 1]
          /\ token' = FALSE /\ EndTransaction(c) /\ executions' = executions
      BY <1>2 DEF CommitClose
    <2>2. Holds(c, Exclude(Policy)) /\ Holds(c, Exclude(Advisory))
      BY <1>0, <2>1, SoundReached DEF Reached, Sound, StageLocks
    <2>3. \A u \in Processes : Sound(u)'
      BY <1>0, <2>1, <2>2, PolicyChange
    <2>4. Typed'
      BY <1>0, CoordinatorTyped
    <2>5. LocksExclude'
      BY <1>0, <2>1, EndView DEF DataInv, LocksExclude
    <2>6. policy'.enabled = FALSE
      BY <2>1
    <2>7. \A l \in LegacyWorkers : leases'[l].state # "active" /\ leases'[l].token = FALSE
      BY <2>1 DEF Active, AllWorkers
    <2>8. NoLegacyWhileClosed'
      BY <2>1, <2>6, <2>7 DEF NoLegacyWhileClosed, Active
    <2>9. OnlyV1WhileOpen'
      BY <2>6 DEF OnlyV1WhileOpen
    <2> QED BY <2>3, <2>4, <2>5, <2>8, <2>9 DEF DataInv
  <1> QED BY <1>1, <1>2

LEMMA ReopenStep ==
  ASSUME DataInv, NEW c \in Coordinators, CommitReopen(c)
  PROVE  DataInv'
  <1>0. c \in Processes /\ Typed
    BY DEF Processes, DataInv
  <1>1. CASE Rollback(c)
    BY <1>0, <1>1, RollbackStep
  <1>2. CASE ~Rollback(c)
    <2>1. /\ Reached(c, "reopening") /\ Incompatible = {}
          /\ policy' = [enabled |-> TRUE, revision |-> policy.revision + 1]
          /\ token' = TRUE /\ EndTransaction(c) /\ UNCHANGED <<leases, executions>>
      BY <1>2 DEF CommitReopen
    <2>2. Holds(c, Exclude(Policy)) /\ Holds(c, Exclude(Advisory))
      BY <1>0, <2>1, SoundReached, RequestTypes DEF Reached, Sound, StageLocks
    <2>3. \A u \in Processes : Sound(u)'
      BY <1>0, <2>1, <2>2, PolicyChange
    <2>4. Typed'
      BY <1>0, CoordinatorTyped
    <2>5. LocksExclude'
      BY <1>0, <2>1, EndView DEF DataInv, LocksExclude
    <2>6. policy'.enabled = TRUE
      BY <2>1
    <2>8. NoLegacyWhileClosed'
      BY <2>1, <2>6 DEF NoLegacyWhileClosed
    <2>9. OnlyV1WhileOpen'
      BY <2>1 DEF OnlyV1WhileOpen, Incompatible
    <2> QED BY <2>3, <2>4, <2>5, <2>8, <2>9 DEF DataInv
  <1> QED BY <1>1, <1>2

\* Lease rows: only an insertion under an open policy makes a legacy lease active.
LEMMA LeaseChange ==
  ASSUME DataInv, UNCHANGED <<policy, token, executions>>,
         ~policy.enabled => \A l \in LegacyWorkers :
             /\ leases'[l].state = "active" => leases[l].state = "active"
             /\ leases'[l].token => leases[l].token
  PROVE  /\ \A u \in Processes : SameFacts(u)
         /\ NoLegacyWhileClosed' /\ OnlyV1WhileOpen'
  <1>1. \A u \in Processes : SameFacts(u)
    BY DEF SameFacts
  <1>2. NoLegacyWhileClosed'
    BY DEF DataInv, NoLegacyWhileClosed, Active
  <1>3. OnlyV1WhileOpen'
    BY DEF DataInv, OnlyV1WhileOpen, Incompatible
  <1> QED BY <1>1, <1>2, <1>3

LEMMA LegacyLeaseStep ==
  ASSUME DataInv, NEW l \in LegacyWorkers, CommitLegacyLease(l)
  PROVE  DataInv'
  <1>0. l \in Processes /\ Typed
    BY DEF Processes, AllWorkers, DataInv
  <1>1. Reached(l, "inserted") /\ EndTransaction(l) /\ UNCHANGED <<policy, token, executions>>
    BY DEF CommitLegacyLease
  <1>2. policy.enabled
    BY <1>0, <1>1, SoundReached DEF Reached, Sound, StageFacts
  <1>3. Typed'
    BY <1>0, LegacyTyped
  <1> QED BY <1>0, <1>1, <1>2, <1>3, LeaseChange, EndStep

\* Statements that change one lease row and nothing else.
LEMMA LeaseRowStep ==
  ASSUME DataInv,
         \/ \E w \in Workers : InsertLease(w)
         \/ \E w \in AllWorkers : Deactivate(w) \/ DeleteInactive(w)
  PROVE  DataInv'
  <1>0. Typed /\ leases \in [AllWorkers -> LeaseRow]
    BY DEF DataInv, Typed, TypeOK, RowTypes
  <1>1. Typed'
    BY <1>0, CapableTyped, OwnerTyped
  <1>2. UNCHANGED <<policy, token, executions, locks, tx>>
    BY DEF InsertLease, Deactivate, DeleteInactive
  <1>3. \A l \in LegacyWorkers :
             /\ leases'[l].state = "active" => leases[l].state = "active"
             /\ leases'[l].token => leases[l].token
    <2>1. CASE \E w \in Workers : InsertLease(w)
      <3>1. PICK w \in Workers : leases' = [leases EXCEPT ![w] = [state |-> "active", token |-> @.token]]
        BY <2>1 DEF InsertLease
      <3>2. \A l \in LegacyWorkers : leases'[l] = leases[l]
        BY <1>0, <3>1, WorkersDiffer DEF AllWorkers
      <3> QED BY <3>2
    <2>2. CASE \E w \in AllWorkers : Deactivate(w) \/ DeleteInactive(w)
      <3>1. PICK w \in AllWorkers :
               \/ leases' = [leases EXCEPT ![w] = [state |-> "inactive", token |-> @.token]]
               \/ leases' = [leases EXCEPT ![w] = [state |-> "none", token |-> FALSE]]
        BY <2>2 DEF Deactivate, DeleteInactive
      <3>2. \A l \in LegacyWorkers : l \in AllWorkers
        BY DEF AllWorkers
      <3>3. CASE leases' = [leases EXCEPT ![w] = [state |-> "inactive", token |-> @.token]]
        BY <1>0, <3>2, <3>3
      <3>4. CASE leases' = [leases EXCEPT ![w] = [state |-> "none", token |-> FALSE]]
        BY <1>0, <3>2, <3>4
      <3> QED BY <3>1, <3>3, <3>4
    <2> QED BY <2>1, <2>2
  <1>4. \A u \in Processes : SameView(u)
    BY <1>2 DEF SameView, locks
  <1>5. LocksExclude'
    BY <1>2 DEF DataInv, LocksExclude, locks
  <1>6. (\A u \in Processes : SameFacts(u)) /\ NoLegacyWhileClosed' /\ OnlyV1WhileOpen'
    BY <1>2, <1>3, LeaseChange
  <1> QED BY <1>0, <1>1, <1>4, <1>5, <1>6, SoundFrame DEF DataInv

\* An execution row changes under its lock, from a state that no other stage
\* relies on, and never to live work that the policy excludes.
LEMMA ExecutionChange ==
  ASSUME DataInv, NEW t \in Processes, NEW e \in Executions, UNCHANGED <<policy, token>>,
         NEW state, NEW protocol, NEW owner, executions' = Written(e, state, protocol, owner),
         \/ executions[e].state \notin {"QUEUED", "ended"}
         \/ Holds(t, Exclude(Row(e))),
         policy.enabled /\ state \in LiveStates => protocol = 1,
         \A l \in LegacyWorkers :
             /\ leases'[l].state = "active" => leases[l].state = "active"
             /\ leases'[l].token => leases[l].token
  PROVE  /\ \A u \in Processes \ {t} : SameFacts(u)
         /\ NoLegacyWhileClosed' /\ OnlyV1WhileOpen'
  <1>0. executions \in [Executions -> ExecutionRow]
    BY DEF DataInv, Typed, TypeOK, RowTypes
  <1>1. ASSUME NEW d \in Executions, d # e PROVE executions'[d] = executions[d]
    BY <1>0, <1>1 DEF Written
  <1>2. executions'[e].state = state /\ executions'[e].protocol = protocol
    BY <1>0 DEF Written
  <1>3. ASSUME NEW u \in Processes, u # t, tx[u].stage \in {"claim"} \cup RequeueStages
        PROVE  tx[u].row \in Executions /\ tx[u].row # e
    <2>1. Sound(u) /\ LocksExclude
      BY DEF DataInv
    <2>2. tx[u].row \in Executions /\ executions[tx[u].row].state \in {"QUEUED", "ended"}
      BY <1>3, <2>1 DEF Sound, StageLocks, StageFacts, RequeueStages, RowStages
    <2>3. Holds(u, Exclude(Row(tx[u].row)))
      BY <1>3, <2>1 DEF Sound, StageLocks
    <2>4. ~(Holds(t, Exclude(Row(e))) /\ Holds(u, Exclude(Row(e))))
      BY <1>3, <2>1, RequestTypes DEF LocksExclude, Holds, Exclude
    <2> QED BY <2>2, <2>3, <2>4
  <1>4. \A u \in Processes \ {t} : SameFacts(u)
    BY <1>1, <1>3 DEF SameFacts
  <1>5. NoLegacyWhileClosed'
    BY DEF DataInv, NoLegacyWhileClosed, Active
  <1>6. OnlyV1WhileOpen'
    BY <1>1, <1>2 DEF DataInv, OnlyV1WhileOpen, Incompatible
  <1> QED BY <1>4, <1>5, <1>6

LEMMA OwnerStep ==
  ASSUME DataInv, NEW w \in AllWorkers, CommitOwner(w)
  PROVE  DataInv'
  <1>0. w \in Processes /\ Typed /\ leases \in [AllWorkers -> LeaseRow]
    BY DEF Processes, DataInv, Typed, TypeOK, RowTypes
  <1>1. CASE Rollback(w)
    BY <1>0, <1>1, RollbackStep
  <1>2. CASE ~Rollback(w)
    <2> DEFINE e == tx[w].row
    <2>1. /\ Reached(w, "claim") \/ Reached(w, "adopt")
          /\ leases' = RetireSource(w) /\ EndTransaction(w) /\ UNCHANGED <<policy, token>>
          /\ \/ executions' = executions
             \/ /\ executions' = Written(e, "RUNNING", executions[e].protocol, w)
                /\ tx[w].stage = "adopt" => StillSource(w, e)
      BY <1>2 DEF CommitOwner
    <2>2. Typed'
      BY <1>0, OwnerTyped
    <2>3. \A l \in LegacyWorkers :
             /\ leases'[l].state = "active" => leases[l].state = "active"
             /\ leases'[l].token => leases[l].token
      BY <1>0, <2>1 DEF RetireSource, AllWorkers
    <2>4. CASE executions' = executions
      BY <1>0, <2>1, <2>2, <2>3, <2>4, LeaseChange, EndStep
    <2>5. CASE executions' # executions
      <3>1. e \in Executions /\ Holds(w, Exclude(Row(e)))
        BY <1>0, <2>1, SoundReached, RequestTypes DEF Reached, Sound, StageLocks, RowStages
      <3>2. executions[e].state \in LiveStates
        BY <1>0, <2>1, <2>5, SoundReached DEF Reached, Sound, StageFacts, StillSource, LiveStates
      <3>3. policy.enabled => executions[e].protocol = 1
        BY <3>1, <3>2 DEF DataInv, OnlyV1WhileOpen, Incompatible
      <3> HIDE DEF e
      <3> QED BY <1>0, <2>1, <2>2, <2>3, <2>5, <3>1, <3>3, ExecutionChange, EndStep
    <2> QED BY <2>4, <2>5
  <1> QED BY <1>1, <1>2

LEMMA FinishStep ==
  ASSUME DataInv, NEW w \in AllWorkers, CommitFinish(w)
  PROVE  DataInv'
  <1>0. w \in Processes /\ Typed
    BY DEF Processes, DataInv
  <1>1. CASE Rollback(w)
    BY <1>0, <1>1, RollbackStep
  <1>2. CASE ~Rollback(w)
    <2> DEFINE e == tx[w].row
    <2>1. /\ Reached(w, "finish") /\ executions[e].state = "RUNNING"
          /\ EndTransaction(w) /\ UNCHANGED <<policy, token, leases>>
          /\ executions' = Written(e, "ended", executions[e].protocol, None)
      BY <1>2 DEF CommitFinish
    <2>2. Typed'
      BY <1>0, OwnerTyped
    <2>3. e \in Executions /\ Holds(w, Exclude(Row(e)))
      BY <1>0, <2>1, SoundReached, RequestTypes DEF Reached, Sound, StageLocks, RowStages
    <2>4. "ended" \notin LiveStates
      BY DEF LiveStates
    <2> HIDE DEF e
    <2> QED BY <1>0, <2>1, <2>2, <2>3, <2>4, ExecutionChange, EndStep
  <1> QED BY <1>1, <1>2

LEMMA WriteStep ==
  ASSUME DataInv, NEW p \in Producers, CommitWrite(p)
  PROVE  DataInv'
  <1>0. p \in Processes /\ Typed
    BY DEF Processes, DataInv
  <1>1. CASE Rollback(p)
    BY <1>0, <1>1, RollbackStep
  <1>2. CASE ~Rollback(p)
    <2> DEFINE e == tx[p].row
               protocol == IF tx[p].stage = "requeue" THEN executions[e].protocol
                           ELSE IF tx[p].stage = "insert" THEN 1 ELSE 2
    <2>1. /\ \E stage \in {"insert", "insert_new", "requeue"} : Reached(p, stage)
          /\ executions[e].state = (IF tx[p].stage # "requeue" THEN "none" ELSE "ended")
          /\ EndTransaction(p) /\ UNCHANGED <<policy, token, leases>>
          /\ executions' = Written(e, "QUEUED", protocol, None)
      BY <1>2 DEF CommitWrite
    <2>2. Typed'
      BY <1>0, ProducerTyped
    <2>3. tx[p].todo = <<>> /\ tx[p].stage \in {"insert", "insert_new", "requeue"} /\ Sound(p)
      BY <1>0, <2>1, SoundReached DEF Reached
    <2>4. tx[p].stage = "requeue" => Holds(p, Exclude(Row(e)))
      BY <2>3 DEF Sound, StageLocks, RequeueStages
    <2>5. policy.enabled => protocol = 1
      BY <2>3 DEF Sound, StageFacts, RequeuesNew
    <2>6. CASE e \in Executions
      <3> HIDE DEF e, protocol
      <3> QED BY <1>0, <2>1, <2>2, <2>3, <2>4, <2>5, <2>6, ExecutionChange, EndStep
    <2>7. CASE e \notin Executions
      <3>1. executions' = executions
        BY <2>1, <2>7 DEF Written, Typed, DataInv, TypeOK, RowTypes
      <3> QED BY <1>0, <2>1, <2>2, <3>1, LeaseChange, EndStep
    <2> QED BY <2>6, <2>7
  <1> QED BY <1>1, <1>2

LEMMA DataInvStep == DataInv /\ [Next]_vars => DataInv'
  <1> SUFFICES ASSUME DataInv, [Next]_vars PROVE DataInv'
    OBVIOUS
  <1>1. CASE UNCHANGED vars
    <2>1. Typed /\ Typed'
      BY NextTyped DEF DataInv
    <2>2. UNCHANGED data /\ LocksExclude' /\ \A u \in Processes : SameView(u)
      BY <1>1 DEF vars, locks, DataInv, LocksExclude, SameView
    <2> QED BY <2>1, <2>2, SoundFrame, DataKept DEF DataInv
  <1>2. CASE Next
    BY <1>2, AcquireStep, CoordinatorMoves, CloseStep, ReopenStep, LegacyMoves, LegacyLeaseStep,
       CapableMoves, LeaseRowStep, OwnerStep, FinishStep, ProducerMoves, WriteStep
       DEF Next
  <1> QED BY <1>1, <1>2

LEMMA DataInvInit == Init => DataInv
  <1> SUFFICES ASSUME Init PROVE DataInv
    OBVIOUS
  <1>1. Typed
    BY InitType DEF Init, Typed, RunningIsOwned
  <1>2. LocksExclude
    BY DEF Init, LocksExclude
  <1>3. ASSUME NEW t \in Processes PROVE Sound(t)
    <2>1. tx[t].stage = "idle" /\ tx[t].todo = <<>>
      BY IdleFields DEF Init
    <2>2. ~Asks(t, Exclude(Table))
      BY <2>1, Elements DEF Asks
    <2>3. ~Holds(t, Exclude(Table))
      BY RequestTypes DEF Init, Holds, Exclude
    <2> QED BY <2>1, <2>2, <2>3
            DEF Sound, StageLocks, StageFacts, FenceIsClosed, Secures, Light, RequeuesNew, RequeueStages, RowStages
  <1>4. NoLegacyWhileClosed
    BY DEF Init, NoLegacyWhileClosed
  <1>5. OnlyV1WhileOpen
    BY DEF Init, OnlyV1WhileOpen, Incompatible, LiveStates
  <1> QED BY <1>1, <1>2, <1>3, <1>4, <1>5 DEF DataInv

LEMMA DataInvHolds == Spec => []DataInv
  BY DataInvInit, DataInvStep, PTL DEF Spec

-----------------------------------------------------------------------------
(***************************************************************************)
(* The order of the locks is kept.                                         *)
(***************************************************************************)
LEMMA Phases ==
  /\ Phase(Advisory) = 0 /\ Phase(Table) = 3 /\ Phase(Policy) = 4 /\ Phase(Token) = 5
  /\ \A w : Phase(Lease(w)) = 1 /\ Phase(Row(w)) = 2 /\ Lease(w)[2] = w
  /\ \A r : Phase(r) \in 0..5
  <1>1. /\ Advisory[1] = "advisory" /\ Table[1] = "table" /\ Policy[1] = "policy" /\ Token[1] = "token"
        /\ \A w : Lease(w)[1] = "lease" /\ Row(w)[1] = "execution" /\ Lease(w)[2] = w
    BY DEF Advisory, Table, Policy, Token, Lease, Row
  <1>2. \A r : Phase(r) \in 0..5
    BY DEF Phase
  <1> QED BY <1>1, <1>2 DEF Phase

LEMMA PhaseOfResource ==
  ASSUME NEW r \in Resources
  PROVE  /\ Phase(r) = 0 => r = Advisory
         /\ Phase(r) = 1 => \E w \in AllWorkers : r = Lease(w)
         /\ Phase(r) = 2 => \E e \in Executions : r = Row(e)
         /\ Phase(r) = 3 => r = Table
         /\ Phase(r) = 4 => r = Policy
         /\ Phase(r) = 5 => r = Token
  <1>1. \/ r \in {Advisory, Policy, Token, Table}
        \/ \E w \in AllWorkers : r = Lease(w)
        \/ \E e \in Executions : r = Row(e)
    BY DEF Resources
  <1> QED BY <1>1, Phases

LEMMA Tops ==
  /\ \A stage \in {"idle", "close", "reopen"} : Top(stage) = 0
  /\ \A stage \in {"leases", "beat"} : Top(stage) = 1
  /\ Top("retry") = 2
  /\ \A stage \in {"scanned", "reopening", "insert_lease", "admit", "claim", "finish", "adopt", "insert_old",
                   "guard_insert", "insert_new", "guard_requeue", "requeue"} : Top(stage) = 4
  /\ \A stage \in {"closing", "inserting", "inserted", "beating", "insert_linked", "insert"} : Top(stage) = 5
  BY DEF Top

LEMMA Locked ==
  /\ \A r : Share(r).on = r /\ Share(r).mode = "share" /\ Exclude(r).on = r /\ Exclude(r).mode = "exclusive"
  BY DEF Share, Exclude

LEMMA SortedTuples ==
  /\ Sorted(<<>>)
  /\ \A a : Sorted(<<a>>)
  /\ \A a, b : Before(a.on, b.on) => Sorted(<<a, b>>)
  /\ \A a, b, c : Before(a.on, b.on) /\ Before(a.on, c.on) /\ Before(b.on, c.on) => Sorted(<<a, b, c>>)
  <1>1. Sorted(<<>>) /\ \A a : Sorted(<<a>>)
    BY DEF Sorted
  <1>2. ASSUME NEW a, NEW b, Before(a.on, b.on) PROVE Sorted(<<a, b>>)
    <2>1. Len(<<a, b>>) = 2 /\ <<a, b>>[1] = a /\ <<a, b>>[2] = b
      OBVIOUS
    <2>2. \A i, j \in 1..2 : i < j => i = 1 /\ j = 2
      OBVIOUS
    <2> QED BY <1>2, <2>1, <2>2 DEF Sorted
  <1>3. ASSUME NEW a, NEW b, NEW c, Before(a.on, b.on), Before(a.on, c.on), Before(b.on, c.on)
        PROVE  Sorted(<<a, b, c>>)
    <2>1. Len(<<a, b, c>>) = 3 /\ <<a, b, c>>[1] = a /\ <<a, b, c>>[2] = b /\ <<a, b, c>>[3] = c
      OBVIOUS
    <2>2. \A i, j \in 1..3 : i < j => (i = 1 /\ j = 2) \/ (i = 1 /\ j = 3) \/ (i = 2 /\ j = 3)
      OBVIOUS
    <2> QED BY <1>3, <2>1, <2>2 DEF Sorted
  <1> QED BY <1>1, <1>2, <1>3

LEMMA SortedTail ==
  ASSUME NEW todo \in Seq(LockRequest), todo # <<>>
  PROVE  /\ \A lock : Among(Tail(todo), lock) => Among(todo, lock)
         /\ Among(todo, Head(todo)) /\ Head(todo) \in LockRequest
         /\ Sorted(todo) => /\ Sorted(Tail(todo))
                            /\ \A lock : Among(Tail(todo), lock) => Before(Head(todo).on, lock.on)
  <1>1. /\ Len(Tail(todo)) = Len(todo) - 1 /\ Len(todo) \in Nat /\ Len(todo) >= 1
        /\ \A i \in 1..Len(Tail(todo)) : Tail(todo)[i] = todo[i + 1]
        /\ Head(todo) = todo[1] /\ Head(todo) \in LockRequest
    OBVIOUS
  <1>2. 1 \in 1..Len(todo) /\ \A i \in 1..Len(Tail(todo)) : i + 1 \in 1..Len(todo) /\ 1 < i + 1
    BY <1>1
  <1>3. \A lock : Among(Tail(todo), lock) => Among(todo, lock)
    BY <1>1, <1>2 DEF Among
  <1>4. ASSUME Sorted(todo) PROVE Sorted(Tail(todo))
    <2> SUFFICES ASSUME NEW i \in 1..Len(Tail(todo)), NEW j \in 1..Len(Tail(todo)), i < j
                 PROVE  Before(Tail(todo)[i].on, Tail(todo)[j].on)
      BY DEF Sorted
    <2>1. i + 1 < j + 1
      BY <1>1
    <2> QED BY <1>1, <1>2, <1>4, <2>1 DEF Sorted
  <1>5. ASSUME Sorted(todo), NEW lock, Among(Tail(todo), lock) PROVE Before(Head(todo).on, lock.on)
    <2>1. PICK i \in 1..Len(Tail(todo)) : Tail(todo)[i] = lock
      BY <1>5 DEF Among
    <2>2. todo[i + 1] = lock /\ i + 1 \in 1..Len(todo) /\ 1 < i + 1
      BY <1>1, <1>2, <2>1
    <2> QED BY <1>1, <1>2, <1>5, <2>2 DEF Sorted
  <1> QED BY <1>1, <1>2, <1>3, <1>4, <1>5 DEF Among

LEMMA HeldHolds ==
  ASSUME NEW t
  PROVE  /\ \A r : Held(t, r) <=> Holds(t, Share(r)) \/ Holds(t, Exclude(r))
         /\ \A r : Held(t, r)' <=> Holds(t, Share(r))' \/ Holds(t, Exclude(r))'
  BY Locked DEF Held, Holds

LEMMA OrderFrame ==
  ASSUME NEW t \in Processes, SameView(t), InOrder(t)
  PROVE  InOrder(t)'
  <1>1. tx'[t] = tx[t] /\ (Light(t)' <=> Light(t))
    BY DEF SameView, Light
  <1>2. \A r \in Resources : Held(t, r)' <=> Held(t, r)
    BY DEF SameView, Held
  <1>3. \A lock \in LockRequest :
           /\ Asks(t, lock)' <=> Asks(t, lock)
           /\ Holds(t, lock)' <=> Holds(t, lock)
           /\ Secures(t, lock)' <=> Secures(t, lock)
    BY SameViewKeeps
  <1>4. IdleIsFree(t)'
    BY <1>1, <1>2 DEF InOrder, IdleIsFree
  <1>5. Ordered(t)'
    BY <1>1, <1>2, <1>3 DEF InOrder, Ordered
  <1>6. Exclude(Policy) \in LockRequest /\ \A e \in Executions : {Share(Row(e)), Exclude(Row(e))} \subseteq LockRequest
    BY RequestTypes
  <1>7. Kinds(t)'
    BY <1>1, <1>3, <1>6 DEF InOrder, Kinds
  <1>8. RowComesFirst(t)'
    BY <1>1, <1>3, <1>6 DEF InOrder, RowComesFirst
  <1> QED BY <1>4, <1>5, <1>7, <1>8 DEF InOrder

LEMMA OrderEnd ==
  ASSUME Typed, NEW t \in Processes, EndTransaction(t)
  PROVE  InOrder(t)'
  <1>1. tx'[t].stage = "idle" /\ tx'[t].todo = <<>>
    BY EndView, IdleFields
  <1>2. \A r \in Resources : ~Held(t, r)'
    BY EndView DEF Held
  <1>3. \A lock \in LockRequest : ~Asks(t, lock)' /\ ~Holds(t, lock)' /\ ~Secures(t, lock)'
    <2>1. ASSUME NEW lock \in LockRequest PROVE ~Asks(t, lock)' /\ ~Holds(t, lock)'
      <3>1. ~Asks(t, lock)'
        BY <1>1, Elements DEF Asks
      <3>2. lock.on \in Resources
        BY DEF LockRequest
      <3> QED BY <3>1, <3>2, <1>2 DEF Holds, Held
    <2> QED BY <2>1 DEF Secures
  <1>4. IdleIsFree(t)'
    BY <1>1, <1>2 DEF IdleIsFree
  <1>5. Ordered(t)'
    BY <1>1, <1>2, <1>3, SortedTuples DEF Ordered
  <1>6. Exclude(Policy) \in LockRequest /\ \A e \in Executions : {Share(Row(e)), Exclude(Row(e))} \subseteq LockRequest
    BY RequestTypes
  <1>7. Kinds(t)'
    BY <1>3, <1>6 DEF Kinds
  <1>8. RowComesFirst(t)'
    BY <1>3 DEF RowComesFirst
  <1> QED BY <1>4, <1>5, <1>7, <1>8 DEF InOrder

LEMMA OrderAcquire ==
  ASSUME Typed, NEW t \in Processes, Acquire(t), InOrder(t)
  PROVE  InOrder(t)'
  <1> DEFINE next == Head(tx[t].todo)
  <1>1. /\ tx[t].todo \in Seq(LockRequest) /\ tx[t].todo # <<>>
        /\ tx'[t].todo = Tail(tx[t].todo) /\ tx'[t].stage = tx[t].stage
    BY DEF Typed, TypeOK, TxType, Transaction, Acquire, Proceed
  <1>2. /\ next \in LockRequest /\ Asks(t, next)
        /\ \A lock : Asks(t, lock)' => Asks(t, lock) /\ Before(next.on, lock.on)
        /\ Sorted(tx'[t].todo)
    BY <1>1, SortedTail DEF Asks, InOrder, Ordered
  <1>3. \A lock \in LockRequest :
               /\ Holds(t, lock)' <=> Holds(t, lock) \/ lock = next
               /\ Secures(t, lock)' <=> Secures(t, lock)
    BY AcquireView
  <1> HIDE DEF next
  <1>4. ASSUME NEW r \in Resources, Held(t, r)' PROVE Held(t, r) \/ r = next.on
    <2>1. Share(r) \in LockRequest /\ Exclude(r) \in LockRequest
      BY RequestTypes
    <2>2. Holds(t, Share(r))' \/ Holds(t, Exclude(r))'
      BY <1>4, HeldHolds
    <2>3. Holds(t, Share(r)) \/ Holds(t, Exclude(r)) \/ next = Share(r) \/ next = Exclude(r)
      BY <1>3, <2>1, <2>2
    <2> QED BY <2>3, HeldHolds, Locked
  <1>5. IdleIsFree(t)'
    BY <1>1 DEF InOrder, IdleIsFree
  <1>6. Ordered(t)'
    <2>1. Light(t)' <=> Light(t)
      BY <1>1 DEF Light
    <2>2. ASSUME ~Light(t), NEW lock \in LockRequest, Asks(t, lock)'
          PROVE  /\ Phase(lock.on) <= Top(tx[t].stage)
                 /\ \A r \in Resources : Held(t, r)' => Before(r, lock.on)
      BY <1>2, <1>4, <2>2 DEF InOrder, Ordered
    <2>3. ASSUME ~Light(t), NEW r \in Resources, Held(t, r)'
          PROVE  Phase(r) <= Top(tx[t].stage)
      BY <1>2, <1>4, <2>3 DEF InOrder, Ordered
    <2> QED BY <1>1, <1>2, <2>1, <2>2, <2>3 DEF Ordered
  <1>7. Exclude(Policy) \in LockRequest /\ \A e \in Executions : {Share(Row(e)), Exclude(Row(e))} \subseteq LockRequest
    BY RequestTypes
  <1>8. Kinds(t)'
    BY <1>1, <1>3, <1>7 DEF InOrder, Kinds
  <1>9. RowComesFirst(t)'
    <2>1. ASSUME NEW e \in Executions, Holds(t, Exclude(Row(e)))', NEW lock \in LockRequest, Asks(t, lock)'
          PROVE  lock \in AfterRow
      <3>1. CASE Holds(t, Exclude(Row(e)))
        BY <1>2, <2>1, <3>1 DEF InOrder, RowComesFirst
      <3>2. CASE next = Exclude(Row(e))
        <4>1. tx[t].stage \in RowStages
          BY <1>2, <3>2 DEF InOrder, Kinds, Secures
        <4>2. lock \in AfterRow \cup RowLocks
          BY <1>2, <2>1, <4>1 DEF InOrder, RowComesFirst
        <4>3. Before(Row(e), lock.on)
          BY <1>2, <2>1, <3>2, Locked
        <4>4. \A f : ~Before(Row(e), Row(f))
          BY Phases DEF Before
        <4> QED BY <4>2, <4>3, <4>4, Locked DEF RowLocks
      <3> QED BY <1>3, <1>7, <2>1, <3>1, <3>2
    <2> QED BY <1>1, <1>2, <2>1 DEF InOrder, RowComesFirst
  <1> QED BY <1>5, <1>6, <1>8, <1>9 DEF InOrder

\* What keeps the order when a transaction goes on with new requests.
OrderAfter(t, stage, todo) ==
    LET light == t \in LegacyWorkers /\ stage \in {"claim", "finish"}
    IN  /\ stage # "idle" /\ Sorted(todo)
        /\ ~light => /\ Top(tx[t].stage) <= Top(stage)
                     /\ \A lock \in LockRequest : Among(todo, lock) =>
                           /\ Phase(lock.on) <= Top(stage)
                           /\ tx[t].stage = "idle" \/ Top(tx[t].stage) < Phase(lock.on)
        /\ tx[t].stage \in PolicyStages \/ Among(todo, Exclude(Policy)) => stage \in PolicyStages
        /\ tx[t].stage \in RowStages =>
              stage \in RowStages /\ \A lock \in LockRequest : Among(todo, lock) => lock \in AfterRow
        /\ \A e \in Executions :
              ~Among(todo, Share(Row(e))) /\ (Among(todo, Exclude(Row(e))) => stage \in RowStages)
        /\ stage \in RowStages => \A lock \in LockRequest : Among(todo, lock) => lock \in AfterRow \cup RowLocks

LEMMA OrderMove ==
  ASSUME Typed, NEW t \in Processes, InOrder(t), tx[t].todo = <<>>, ~Light(t),
         NEW stage, NEW todo \in Seq(LockRequest), NEW row, NEW revision,
         Move(t, stage, todo, row, revision), UNCHANGED locks, OrderAfter(t, stage, todo)
  PROVE  InOrder(t)'
  <1>1. /\ tx'[t].stage = stage /\ tx'[t].todo = todo
        /\ \A lock \in LockRequest :
              /\ Holds(t, lock)' <=> Holds(t, lock)
              /\ Asks(t, lock)' <=> Among(todo, lock)
              /\ Secures(t, lock) <=> Holds(t, lock)
              /\ Secures(t, lock)' <=> Holds(t, lock) \/ Among(todo, lock)
    BY MoveView DEF Secures
  <1>2. \A r : Held(t, r)' <=> Held(t, r)
    BY DEF Held, locks
  <1>3. Exclude(Policy) \in LockRequest /\ \A e \in Executions : {Share(Row(e)), Exclude(Row(e))} \subseteq LockRequest
    BY RequestTypes
  <1>4. IdleIsFree(t)'
    BY <1>1 DEF IdleIsFree, OrderAfter
  <1>5. Ordered(t)'
    <2>1. Light(t)' <=> t \in LegacyWorkers /\ stage \in {"claim", "finish"}
      BY <1>1 DEF Light
    <2>2. \A r \in Resources : Held(t, r) => tx[t].stage # "idle" /\ Phase(r) <= Top(tx[t].stage)
      BY DEF InOrder, IdleIsFree, Ordered
    <2>3. Phase(<<>>) \in Nat /\ \A r : Phase(r) \in Nat
      BY Phases
    <2>4. Top(tx[t].stage) \in Nat /\ Top(stage) \in Nat
      BY DEF Top
    <2>5. ASSUME ~Light(t)', NEW lock \in LockRequest, Asks(t, lock)'
          PROVE  /\ Phase(lock.on) <= Top(stage)
                 /\ \A r \in Resources : Held(t, r)' => Before(r, lock.on)
      <3>1. Among(todo, lock) /\ Phase(lock.on) <= Top(stage)
        BY <1>1, <2>1, <2>5 DEF OrderAfter
      <3>2. ASSUME NEW r \in Resources, Held(t, r) PROVE Before(r, lock.on)
        <4>1. Top(tx[t].stage) < Phase(lock.on)
          BY <2>1, <2>2, <2>5, <3>1, <3>2 DEF OrderAfter
        <4>2. Phase(r) <= Top(tx[t].stage)
          BY <2>2, <3>2
        <4>3. Phase(r) < Phase(lock.on)
          BY <4>1, <4>2, <2>3, <2>4
        <4> QED BY <4>3 DEF Before
      <3> QED BY <1>2, <3>1, <3>2
    <2>6. ASSUME ~Light(t)', NEW r \in Resources, Held(t, r)' PROVE Phase(r) <= Top(stage)
      <3>1. Phase(r) <= Top(tx[t].stage) /\ Top(tx[t].stage) <= Top(stage)
        BY <1>2, <2>1, <2>2, <2>6 DEF OrderAfter
      <3> QED BY <3>1, <2>3, <2>4
    <2> QED BY <1>1, <2>5, <2>6 DEF Ordered, OrderAfter
  <1>6. Kinds(t)'
    <2>1. Secures(t, Exclude(Policy))' => stage \in PolicyStages
      BY <1>1, <1>3 DEF InOrder, Kinds, OrderAfter
    <2>2. ASSUME NEW e \in Executions
          PROVE  ~Secures(t, Share(Row(e)))' /\ (Secures(t, Exclude(Row(e)))' => stage \in RowStages)
      BY <1>1, <1>3 DEF InOrder, Kinds, OrderAfter
    <2> QED BY <1>1, <2>1, <2>2 DEF Kinds
  <1>7. RowComesFirst(t)'
    <2>1. ASSUME NEW e \in Executions, Holds(t, Exclude(Row(e)))', NEW lock \in LockRequest, Asks(t, lock)'
          PROVE  lock \in AfterRow
      <3>1. Holds(t, Exclude(Row(e)))
        BY <1>1, <1>3, <2>1
      <3>2. tx[t].stage \in RowStages
        BY <3>1 DEF InOrder, Kinds, Secures
      <3> QED BY <1>1, <2>1, <3>2 DEF OrderAfter
    <2> QED BY <1>1, <2>1 DEF RowComesFirst, OrderAfter
  <1> QED BY <1>4, <1>5, <1>6, <1>7 DEF InOrder

LEMMA OrderContinue ==
  ASSUME Typed, NEW t \in Processes, InOrder(t), NEW stage, NEW todo \in Seq(LockRequest),
         \/ Continue(t, stage, todo) /\ tx[t].todo = <<>> /\ ~Light(t)
         \/ \E row \in Executions \cup {None} : Begin(t, stage, todo, row),
         OrderAfter(t, stage, todo)
  PROVE  InOrder(t)' /\ \A u \in Processes \ {t} : SameView(u)
  <1>1. tx[t].todo = <<>> /\ ~Light(t) /\ UNCHANGED locks
    BY IdleFields DEF Begin, Light, Continue
  <1>2. PICK row, revision : Move(t, stage, todo, row, revision)
    BY ProceedMoves DEF Continue, Begin
  <1> QED BY <1>1, <1>2, OrderMove, MoveView

\* The requests that a stage adds, without those of the leases.
LEMMA OrderedTuples ==
  /\ \A e : /\ Before(Row(e), Table) /\ Before(Row(e), Policy)
            /\ \A f : Row(e) \notin {Advisory, Policy, Token, Table, Lease(f)}
  /\ Before(Table, Policy)
  <1>1. \A e, f : Row(e) \notin {Advisory, Policy, Token, Table, Lease(f)}
    BY DEF Row, Advisory, Policy, Token, Table, Lease
  <1> QED BY <1>1, Phases DEF Before

\* A step of t alone that keeps the order.
OrderedStep(t) == InOrder(t)' /\ \A u \in Processes \ {t} : SameView(u)

LEMMA OrderRollback ==
  ASSUME Typed, NEW t \in Processes, EndTransaction(t)
  PROVE  OrderedStep(t)
  BY OrderEnd, EndView DEF OrderedStep

LEMMA CoordinatorOrder ==
  ASSUME DataInv, NEW c \in Coordinators, InOrder(c),
         \/ \E n \in 1..policy.revision, stage \in {"close", "reopen"} : BeginTransition(c, stage, n)
         \/ ScanLegacyLeases(c) \/ ValidateClose(c) \/ FenceWriters(c)
  PROVE  OrderedStep(c)
  <1> USE DEF RequeueStages, RowStages, PolicyStages
  <1>0. c \in Processes /\ Typed
    BY DEF Processes, DataInv
  <1>1. ASSUME NEW n \in 1..policy.revision, NEW stage \in {"close", "reopen"}, BeginTransition(c, stage, n)
        PROVE  OrderedStep(c)
    <2>1. tx[c].todo = <<>> /\ tx[c].stage = "idle" /\ ~Light(c) /\ UNCHANGED locks
      BY <1>1, IdleFields DEF BeginTransition, Light
    <2>2. <<Exclude(Advisory)>> \in Seq(LockRequest)
      BY RequestSequences, RequestTypes
    <2>3. Move(c, stage, <<Exclude(Advisory)>>, None, n)
      BY <1>1 DEF BeginTransition, Move
    <2>4. OrderAfter(c, stage, <<Exclude(Advisory)>>)
      BY <2>1, Elements, Locked, Phases, Tops, SortedTuples, OrderedTuples DEF OrderAfter
    <2> QED BY <1>0, <2>1, <2>2, <2>3, <2>4, OrderMove, MoveView DEF OrderedStep
  <1>2. CASE ScanLegacyLeases(c)
    <2>1. PICK order \in LockLeases(Linked) :
             Reached(c, "close") /\ Continue(c, "scanned", order \o <<Exclude(Policy)>>)
      BY <1>2 DEF ScanLegacyLeases
    <2> DEFINE todo == order \o <<Exclude(Policy)>>
    <2>2. /\ order \in Seq(LockRequest)
          /\ \A i \in 1..Len(order) : \E w \in Linked : order[i] = Exclude(Lease(w))
          /\ \A i, j \in 1..Len(order) : i < j => order[i].on[2] < order[j].on[2]
      BY LeaseOrder DEF Linked, AllWorkers
    <2>3. /\ todo \in Seq(LockRequest) /\ Len(todo) = Len(order) + 1 /\ Len(order) \in Nat
          /\ \A i \in 1..Len(order) : todo[i] = order[i]
          /\ todo[Len(order) + 1] = Exclude(Policy)
      BY <2>2, RequestSequences, RequestTypes
    <2>4. /\ \A i \in 1..Len(todo) : i \in 1..Len(order) \/ i = Len(order) + 1
          /\ \A i, j \in 1..Len(todo) : i < j => i \in 1..Len(order)
      BY <2>3
    <2>5. Sorted(todo)
      <3> SUFFICES ASSUME NEW i \in 1..Len(todo), NEW j \in 1..Len(todo), i < j
                   PROVE  Before(todo[i].on, todo[j].on)
        BY DEF Sorted
      <3>1. PICK w \in Linked : todo[i] = Exclude(Lease(w)) /\ i \in 1..Len(order)
        BY <2>2, <2>3, <2>4
      <3>2. CASE j = Len(order) + 1
        BY <2>3, <3>1, <3>2, Locked, Phases DEF Before
      <3>3. CASE j \in 1..Len(order)
        <4>1. PICK v \in Linked : todo[j] = Exclude(Lease(v))
          BY <2>2, <2>3, <3>3
        <4>2. todo[i].on[2] < todo[j].on[2]
          BY <2>2, <2>3, <3>1, <3>3
        <4> QED BY <3>1, <4>1, <4>2, Locked, Phases DEF Before
      <3> QED BY <2>4, <3>2, <3>3
    <2>6. \A lock : Among(todo, lock) => lock = Exclude(Policy) \/ \E w \in Linked : lock = Exclude(Lease(w))
      BY <2>2, <2>3, <2>4 DEF Among
    <2>7. tx[c].stage = "close" /\ tx[c].todo = <<>> /\ ~Light(c)
      BY <2>1 DEF Reached, Light
    <2> HIDE DEF todo
    <2>8. \A e : ~Among(todo, Share(Row(e))) /\ ~Among(todo, Exclude(Row(e)))
      BY <2>6, Locked, OrderedTuples
    <2>9. OrderAfter(c, "scanned", todo)
      BY <2>5, <2>6, <2>7, <2>8, Locked, Phases, Tops DEF OrderAfter
    <2> QED BY <1>0, <2>1, <2>3, <2>7, <2>9, OrderContinue DEF OrderedStep, todo
  <1>3. CASE ValidateClose(c)
    <2>1. tx[c].stage = "scanned" /\ tx[c].todo = <<>> /\ ~Light(c)
      BY <1>3 DEF Reached, Light, ValidateClose
    <2>2. OrderAfter(c, "closing", <<Exclude(Token)>>)
      BY <2>1, Elements, Locked, Phases, Tops, SortedTuples, OrderedTuples DEF OrderAfter
    <2> QED BY <1>0, <1>3, <2>1, <2>2, OrderContinue, OrderRollback, RequestSequences, RequestTypes
            DEF ValidateClose, Rollback, OrderedStep
  <1>4. CASE FenceWriters(c)
    <2>1. tx[c].stage = "reopen" /\ tx[c].todo = <<>> /\ ~Light(c)
      BY <1>4 DEF Reached, Light, FenceWriters
    <2>2. OrderAfter(c, "reopening", <<Exclude(Policy)>>)
      BY <2>1, Elements, Locked, Phases, Tops, SortedTuples, OrderedTuples DEF OrderAfter
    <2>3. OrderAfter(c, "reopening", <<Exclude(Table), Exclude(Policy)>>)
      BY <2>1, Elements, Locked, Phases, Tops, SortedTuples, OrderedTuples DEF OrderAfter
    <2> QED BY <1>0, <1>4, <2>1, <2>2, <2>3, OrderContinue, RequestSequences, RequestTypes
            DEF FenceWriters, OrderedStep
  <1> QED BY <1>1, <1>2, <1>3, <1>4

\* A claim that holds nothing but leases, or goes on from a heartbeat.
LEMMA SelectOrder ==
  ASSUME DataInv, NEW w \in AllWorkers, NEW e \in Executions, Select(w, e), InOrder(w), tx[w].todo = <<>>,
         tx[w].stage \notin PolicyStages \cup RowStages, tx[w].stage = "leases" \/ w \in LegacyWorkers
  PROVE  OrderedStep(w)
  <1>0. w \in Processes /\ Typed /\ TypeOK
    BY DEF Processes, DataInv, Typed
  <1>1. /\ Proceed(w, "claim", <<Share(Table), Share(Policy)>>, e)
        /\ exclusive' = [exclusive EXCEPT ![Row(e)] = {w}] /\ shared' = shared
        /\ exclusive[Row(e)] = {} /\ Row(e) \in Resources
    BY RequestTypes DEF Select, Free
  <1>2. \A u \in Processes \ {w} : SameView(u)
    BY <1>0, <1>1 DEF SameView, Proceed, TypeOK, TxType, LockTypes
  <1>3. tx'[w].stage = "claim" /\ tx'[w].todo = <<Share(Table), Share(Policy)>>
    BY <1>0, <1>1 DEF Proceed, TypeOK, TxType
  <1>4. \A lock : Asks(w, lock)' <=> lock \in AfterRow
    BY <1>3, Elements DEF Asks, AfterRow
  <1>5. \A r \in Resources : Held(w, r)' <=> Held(w, r) \/ r = Row(e)
    BY <1>0, <1>1 DEF Held, TypeOK, LockTypes
  <1>6. \A lock \in LockRequest : Holds(w, lock)' <=> Holds(w, lock) \/ lock = Exclude(Row(e))
    <2>1. ASSUME NEW lock \in LockRequest
          PROVE  Holds(w, lock)' <=> Holds(w, lock) \/ lock = Exclude(Row(e))
      <3>1. lock.on \in Resources /\ lock.mode \in {"share", "exclusive"}
        BY DEF LockRequest
      <3>2. lock = Exclude(Row(e)) <=> lock.on = Row(e) /\ lock.mode = "exclusive"
        BY DEF LockRequest, Exclude
      <3> QED BY <1>0, <1>1, <3>1, <3>2 DEF Holds, TypeOK, LockTypes
    <2> QED BY <2>1
  <1>7. IdleIsFree(w)'
    BY <1>3 DEF IdleIsFree
  <1>8. Ordered(w)'
    <2>1. Sorted(tx'[w].todo)
      BY <1>3, SortedTuples, OrderedTuples, Locked
    <2>2. CASE w \in LegacyWorkers
      BY <1>3, <2>1, <2>2 DEF Ordered, Light
    <2>3. CASE w \notin LegacyWorkers
      <3>1. \A r \in Resources : Held(w, r) => Phase(r) <= 1
        BY <2>3, Tops DEF InOrder, Ordered, Light
      <3>2. \A r \in Resources : Held(w, r)' => Phase(r) <= 2
        BY <1>5, <3>1, Phases
      <3>3. \A lock \in AfterRow : Phase(lock.on) \in {3, 4}
        BY Locked, Phases DEF AfterRow
      <3>4. \A r \in Resources : Phase(r) \in Nat
        BY Phases
      <3> QED BY <1>3, <1>4, <2>1, <3>2, <3>3, <3>4, Tops DEF Ordered, Before
    <2> QED BY <2>2, <2>3
  <1>9. Kinds(w)'
    <2>1. Exclude(Policy) \in LockRequest /\ \A f \in Executions : {Share(Row(f)), Exclude(Row(f))} \subseteq LockRequest
      BY RequestTypes
    <2>2. Exclude(Policy) \notin AfterRow \cup RowLocks
      BY Locked, OrderedTuples DEF AfterRow, RowLocks
    <2>3. ~Secures(w, Exclude(Policy))'
      BY <1>4, <1>6, <2>1, <2>2 DEF Secures, InOrder, Kinds, RowLocks
    <2>4. \A f : Share(Row(f)) \notin AfterRow \cup RowLocks
      BY Locked, OrderedTuples DEF AfterRow, RowLocks
    <2>5. \A f \in Executions : ~Secures(w, Share(Row(f)))'
      BY <1>4, <1>6, <2>1, <2>4 DEF Secures, InOrder, Kinds, RowLocks
    <2> QED BY <1>3, <2>3, <2>5 DEF Kinds, RowStages
  <1>10. RowComesFirst(w)'
    BY <1>4 DEF RowComesFirst
  <1> QED BY <1>2, <1>7, <1>8, <1>9, <1>10 DEF InOrder, OrderedStep

LEMMA TakesRow ==
  ASSUME NEW t, NEW e \in Executions
  PROVE  /\ tx[t].stage = "leases" \/ (tx[t].stage = "beating" /\ t \in LegacyWorkers) =>
               OrderAfter(t, "finish", <<Exclude(Row(e)), Share(Table)>>)
         /\ tx[t].stage = "leases" => OrderAfter(t, "adopt", <<Exclude(Row(e)), Share(Table), Share(Policy)>>)
         /\ tx[t].stage = "idle" => OrderAfter(t, "retry", <<Exclude(Row(e))>>)
  <1> USE DEF RequeueStages, RowStages, PolicyStages
  <1>1. /\ Share(Table) \in AfterRow /\ Share(Policy) \in AfterRow /\ Exclude(Row(e)) \in RowLocks
        /\ \A f : Share(Row(f)) \notin {Exclude(Row(e)), Share(Table), Share(Policy)}
        /\ Exclude(Policy) \notin {Exclude(Row(e)), Share(Table), Share(Policy)}
    BY Locked, OrderedTuples DEF AfterRow, RowLocks
  <1>2. /\ Sorted(<<Exclude(Row(e)), Share(Table)>>) /\ Sorted(<<Exclude(Row(e))>>)
        /\ Sorted(<<Exclude(Row(e)), Share(Table), Share(Policy)>>)
    BY Locked, SortedTuples, OrderedTuples
  <1>3. Phase(Exclude(Row(e)).on) = 2 /\ Phase(Share(Table).on) = 3 /\ Phase(Share(Policy).on) = 4
    BY Locked, Phases
  <1>4. ASSUME tx[t].stage = "leases" \/ (tx[t].stage = "beating" /\ t \in LegacyWorkers)
        PROVE  OrderAfter(t, "finish", <<Exclude(Row(e)), Share(Table)>>)
    BY <1>1, <1>2, <1>3, <1>4, Elements, Tops DEF OrderAfter
  <1>5. ASSUME tx[t].stage = "leases"
        PROVE  OrderAfter(t, "adopt", <<Exclude(Row(e)), Share(Table), Share(Policy)>>)
    BY <1>1, <1>2, <1>3, <1>5, Elements, Tops DEF OrderAfter
  <1>6. ASSUME tx[t].stage = "idle" PROVE OrderAfter(t, "retry", <<Exclude(Row(e))>>)
    BY <1>1, <1>2, <1>3, <1>6, Elements, Tops DEF OrderAfter
  <1> QED BY <1>4, <1>5, <1>6

LEMMA LegacyOrder ==
  ASSUME DataInv, NEW l \in LegacyWorkers, InOrder(l),
         InsertLegacyLease(l) \/ BeatLegacyLease(l) \/ GuardLegacyLease(l) \/ WorkOrCommitLegacy(l)
  PROVE  OrderedStep(l)
  <1> USE DEF RequeueStages, RowStages, PolicyStages
  <1>0. l \in Processes /\ l \in AllWorkers /\ Typed
    BY DEF Processes, AllWorkers, DataInv
  <1>a. <<Share(Policy)>> \in Seq(LockRequest) /\ <<Share(Token)>> \in Seq(LockRequest) /\ <<>> \in Seq(LockRequest)
        /\ <<Exclude(Lease(l))>> \in Seq(LockRequest)
    BY <1>0, RequestSequences, RequestTypes
  <1>1. CASE InsertLegacyLease(l) \/ BeatLegacyLease(l)
    <2>1. tx[l].todo = <<>> /\ tx[l].stage = "idle"
      BY <1>1, IdleFields DEF InsertLegacyLease, BeatLegacyLease, Begin
    <2>2. OrderAfter(l, "insert_lease", <<Share(Policy)>>)
      BY <2>1, Elements, Locked, Phases, Tops, SortedTuples, OrderedTuples DEF OrderAfter
    <2>3. OrderAfter(l, "beat", <<Exclude(Lease(l))>>)
      BY <2>1, Elements, Locked, Phases, Tops, SortedTuples, OrderedTuples DEF OrderAfter
    <2> QED BY <1>0, <1>a, <1>1, <2>2, <2>3, OrderContinue DEF InsertLegacyLease, BeatLegacyLease, OrderedStep
  <1>2. CASE GuardLegacyLease(l)
    <2>1. tx[l].todo = <<>> /\ ~Light(l)
      BY <1>2 DEF GuardLegacyLease, Reached, Light
    <2>2. tx[l].stage = "beat" => OrderAfter(l, "admit", <<Share(Policy)>>)
      BY Elements, Locked, Phases, Tops, SortedTuples, OrderedTuples DEF OrderAfter
    <2>3. tx[l].stage = "admit" => OrderAfter(l, "beating", <<Share(Token)>>)
      BY Elements, Locked, Phases, Tops, SortedTuples, OrderedTuples DEF OrderAfter
    <2>4. tx[l].stage = "insert_lease" => OrderAfter(l, "inserting", <<Share(Token)>>)
      BY Elements, Locked, Phases, Tops, SortedTuples, OrderedTuples DEF OrderAfter
    <2>5. tx[l].stage = "inserting" => OrderAfter(l, "inserted", <<>>)
      BY Elements, Tops, SortedTuples DEF OrderAfter
    <2> QED BY <1>0, <1>a, <1>2, <2>1, <2>2, <2>3, <2>4, <2>5, OrderContinue, OrderRollback
            DEF GuardLegacyLease, Reached, Rollback, OrderedStep
  <1>3. CASE WorkOrCommitLegacy(l)
    <2>1. tx[l].stage = "beating" /\ tx[l].todo = <<>> /\ ~Light(l)
      BY <1>3 DEF WorkOrCommitLegacy, Reached, Light
    <2>2. ASSUME NEW e \in Executions, Select(l, e) PROVE OrderedStep(l)
      BY <1>0, <2>1, <2>2, SelectOrder
    <2>3. ASSUME NEW e \in Executions, Proceed(l, "finish", <<Exclude(Row(e)), Share(Table)>>, e),
                 UNCHANGED <<data, locks>>
          PROVE  OrderedStep(l)
      <3>1. OrderAfter(l, "finish", <<Exclude(Row(e)), Share(Table)>>)
        BY <2>1, TakesRow
      <3>2. <<Exclude(Row(e)), Share(Table)>> \in Seq(LockRequest)
        BY RequestSequences, RequestTypes
      <3>3. PICK revision \in Nat : Move(l, "finish", <<Exclude(Row(e)), Share(Table)>>, e, revision)
        BY <1>0, <2>3, ProceedMoves
      <3> QED BY <1>0, <2>1, <2>3, <3>1, <3>2, <3>3, OrderMove, MoveView DEF OrderedStep
    <2> QED BY <1>0, <1>3, <2>2, <2>3, OrderRollback DEF WorkOrCommitLegacy, Rollback
  <1> QED BY <1>1, <1>2, <1>3

LEMMA CapableOrder ==
  ASSUME DataInv, NEW w \in Workers, InOrder(w),
         BeginClaim(w) \/ SelectQueued(w) \/ LockOwned(w) \/ \E e \in Executions : BeginOwned(w, e)
  PROVE  OrderedStep(w)
  <1> USE DEF RequeueStages, RowStages, PolicyStages
  <1>0. w \in Processes /\ w \in AllWorkers /\ w \notin LegacyWorkers /\ Typed
    BY WorkersDiffer DEF Processes, AllWorkers, DataInv
  <1>1. ASSUME NEW source \in SUBSET AllWorkers, NEW e \in Executions \cup {None},
               LockAuthoritativeLeases(w, source, e)
        PROVE  OrderedStep(w)
    <2>1. PICK order \in LockLeases({w} \cup source) : Begin(w, "leases", order, e)
      BY <1>1 DEF LockAuthoritativeLeases
    <2>2. /\ order \in Seq(LockRequest)
          /\ \A i \in 1..Len(order) : \E v \in {w} \cup source : order[i] = Exclude(Lease(v))
          /\ \A i, j \in 1..Len(order) : i < j => order[i].on[2] < order[j].on[2]
      BY <1>0, LeaseOrder
    <2>3. Sorted(order)
      <3> SUFFICES ASSUME NEW i \in 1..Len(order), NEW j \in 1..Len(order), i < j
                   PROVE  Before(order[i].on, order[j].on)
        BY DEF Sorted
      <3>1. Phase(order[i].on) = 1 /\ Phase(order[j].on) = 1
        BY <2>2, Locked, Phases
      <3> QED BY <2>2, <3>1 DEF Before
    <2>4. \A lock : Among(order, lock) => \E v : lock = Exclude(Lease(v))
      BY <2>2 DEF Among
    <2>5. tx[w].stage = "idle"
      BY <2>1, IdleFields DEF Begin
    <2>6. \A e1 : ~Among(order, Share(Row(e1))) /\ ~Among(order, Exclude(Row(e1)))
      BY <2>4, Locked, OrderedTuples
    <2>7. ~Among(order, Exclude(Policy))
      BY <2>4, Locked, Phases
    <2>8. OrderAfter(w, "leases", order)
      BY <2>3, <2>4, <2>5, <2>6, <2>7, Locked, Phases, Tops DEF OrderAfter
    <2> QED BY <1>0, <2>1, <2>2, <2>8, OrderContinue DEF OrderedStep
  <1>2. CASE BeginClaim(w)
    BY <1>1, <1>2 DEF BeginClaim
  <1>3. ASSUME NEW e \in Executions, BeginOwned(w, e) PROVE OrderedStep(w)
    BY <1>1, <1>3 DEF BeginOwned, DataInv, Typed, RunningIsOwned
  <1>4. CASE SelectQueued(w)
    BY <1>0, <1>4, OrderRollback, SelectOrder DEF SelectQueued, Reached, Rollback
  <1>5. CASE LockOwned(w)
    <2>1. CASE Rollback(w)
      BY <1>0, <2>1, OrderRollback DEF Rollback
    <2>2. CASE ~Rollback(w)
      <3>1. /\ tx[w].stage = "leases" /\ tx[w].todo = <<>> /\ tx[w].row \in Executions /\ ~Light(w)
            /\ \/ Continue(w, "finish", <<Exclude(Row(tx[w].row)), Share(Table)>>)
               \/ Continue(w, "adopt", <<Exclude(Row(tx[w].row)), Share(Table), Share(Policy)>>)
        BY <1>0, <1>5, <2>2, RowType DEF LockOwned, Reached, Light
      <3>2. /\ <<Exclude(Row(tx[w].row)), Share(Table)>> \in Seq(LockRequest)
            /\ <<Exclude(Row(tx[w].row)), Share(Table), Share(Policy)>> \in Seq(LockRequest)
        BY <3>1, RequestSequences, RequestTypes
      <3>3. /\ OrderAfter(w, "finish", <<Exclude(Row(tx[w].row)), Share(Table)>>)
            /\ OrderAfter(w, "adopt", <<Exclude(Row(tx[w].row)), Share(Table), Share(Policy)>>)
        BY <3>1, TakesRow
      <3> QED BY <1>0, <3>1, <3>2, <3>3, OrderContinue DEF OrderedStep
    <2> QED BY <2>1, <2>2
  <1> QED BY <1>2, <1>3, <1>4, <1>5

LEMMA ProducerOrder ==
  ASSUME DataInv, NEW p \in Producers, InOrder(p),
         \/ \E e \in Executions :
               InsertOld(p, e) \/ Retry(p, e) \/ \E v \in Protocols : Insert(p, e, v)
         \/ GuardLegacyExecution(p) \/ RetryLocked(p) \/ GuardNewWork(p)
  PROVE  OrderedStep(p)
  <1> USE DEF RequeueStages, RowStages, PolicyStages
  <1>0. p \in Processes /\ Typed
    BY DEF Processes, DataInv
  <1>a. /\ <<Share(Table)>> \in Seq(LockRequest) /\ <<Share(Token)>> \in Seq(LockRequest) /\ <<>> \in Seq(LockRequest)
        /\ <<Share(Table), Share(Policy)>> \in Seq(LockRequest)
    BY RequestSequences, RequestTypes
  <1>b. /\ Share(Table) \in AfterRow /\ Share(Policy) \in AfterRow
        /\ \A f : \A lock \in {Share(Table), Share(Policy), Share(Token)} :
              lock # Share(Row(f)) /\ lock # Exclude(Row(f))
        /\ Exclude(Policy) \notin {Share(Table), Share(Policy), Share(Token)}
    BY Locked, OrderedTuples DEF AfterRow
  <1>c. /\ Sorted(<<Share(Table)>>) /\ Sorted(<<Share(Token)>>) /\ Sorted(<<>>)
        /\ Sorted(<<Share(Table), Share(Policy)>>)
    BY Locked, SortedTuples, OrderedTuples
  <1>d. Phase(Share(Table).on) = 3 /\ Phase(Share(Policy).on) = 4 /\ Phase(Share(Token).on) = 5
    BY Locked, Phases
  <1>1. ASSUME NEW e \in Executions,
               InsertOld(p, e) \/ Retry(p, e) \/ \E v \in Protocols : Insert(p, e, v)
        PROVE  OrderedStep(p)
    <2>1. tx[p].stage = "idle"
      BY <1>1, IdleFields DEF InsertOld, Retry, Insert, Begin
    <2>2. OrderAfter(p, "insert", <<Share(Table)>>)
      BY <2>1, <1>b, <1>c, <1>d, Elements, Tops DEF OrderAfter
    <2>3. /\ OrderAfter(p, "guard_insert", <<Share(Table), Share(Policy)>>)
          /\ OrderAfter(p, "insert_old", <<Share(Table), Share(Policy)>>)
      BY <2>1, <1>b, <1>c, <1>d, Elements, Tops DEF OrderAfter
    <2>4. OrderAfter(p, "retry", <<Exclude(Row(e))>>)
      BY <2>1, TakesRow
    <2>5. <<Exclude(Row(e))>> \in Seq(LockRequest)
      BY RequestSequences, RequestTypes
    <2> QED BY <1>0, <1>a, <1>1, <2>2, <2>3, <2>4, <2>5, OrderContinue
            DEF InsertOld, Retry, Insert, FencedWrite, OrderedStep
  <1>2. CASE GuardLegacyExecution(p)
    <2>1. tx[p].todo = <<>> /\ ~Light(p)
      BY <1>2 DEF GuardLegacyExecution, Reached, Light
    <2>2. tx[p].stage = "insert_old" => OrderAfter(p, "insert_linked", <<Share(Token)>>)
      BY <1>b, <1>c, <1>d, Elements, Tops DEF OrderAfter
    <2>3. tx[p].stage = "insert_linked" => OrderAfter(p, "insert", <<>>)
      BY <1>c, Elements, Tops DEF OrderAfter
    <2> QED BY <1>0, <1>a, <1>2, <2>1, <2>2, <2>3, OrderContinue, OrderRollback
            DEF GuardLegacyExecution, Reached, Rollback, OrderedStep
  <1>3. CASE RetryLocked(p)
    <2>1. tx[p].stage = "retry" /\ tx[p].todo = <<>> /\ ~Light(p)
      BY <1>3 DEF RetryLocked, Reached, Light
    <2>2. OrderAfter(p, "requeue", <<Share(Table)>>)
      BY <2>1, <1>b, <1>c, <1>d, Elements, Tops DEF OrderAfter
    <2>3. OrderAfter(p, "guard_requeue", <<Share(Table), Share(Policy)>>)
      BY <2>1, <1>b, <1>c, <1>d, Elements, Tops DEF OrderAfter
    <2> QED BY <1>0, <1>a, <1>3, <2>1, <2>2, <2>3, OrderContinue, OrderRollback
            DEF RetryLocked, FencedWrite, Rollback, OrderedStep
  <1>4. CASE GuardNewWork(p)
    <2>1. tx[p].todo = <<>> /\ ~Light(p)
      BY <1>4 DEF GuardNewWork, Reached, Light
    <2>2. tx[p].stage = "guard_insert" => OrderAfter(p, "insert_new", <<>>)
      BY <1>c, Elements, Tops DEF OrderAfter
    <2>3. tx[p].stage = "guard_requeue" => OrderAfter(p, "requeue", <<>>)
      BY <1>c, Elements, Tops DEF OrderAfter
    <2> QED BY <1>0, <1>a, <1>4, <2>1, <2>2, <2>3, OrderContinue, OrderRollback
            DEF GuardNewWork, Reached, Rollback, OrderedStep
  <1> QED BY <1>1, <1>2, <1>3, <1>4

\* Commits, and statements on a lease row of their own.
LEMMA CommitOrder ==
  ASSUME DataInv, NEW t \in Processes,
         \/ CommitClose(t) \/ CommitReopen(t) \/ CommitLegacyLease(t)
         \/ CommitOwner(t) \/ CommitFinish(t) \/ CommitWrite(t)
  PROVE  OrderedStep(t)
  <1>1. EndTransaction(t)
    BY DEF CommitClose, CommitReopen, CommitLegacyLease, CommitOwner, CommitFinish, CommitWrite, Rollback
  <1> QED BY <1>1, OrderRollback DEF DataInv

LEMMA SameLocksOrder ==
  ASSUME UNCHANGED <<locks, tx>>
  PROVE  \A t \in Processes : SameView(t)
  BY DEF locks, SameView

OrderInv == DataInv /\ \A t \in Processes : InOrder(t)

LEMMA OrderInvStep == OrderInv /\ [Next]_vars => OrderInv'
  <1> SUFFICES ASSUME OrderInv, [Next]_vars PROVE OrderInv'
    OBVIOUS
  <1>0. DataInv /\ DataInv' /\ Typed
    BY DataInvStep DEF OrderInv, DataInv
  <1>1. ASSUME NEW t \in Processes, OrderedStep(t) PROVE \A u \in Processes : InOrder(u)'
    BY <1>1, OrderFrame DEF OrderedStep, OrderInv
  <1>2. ASSUME UNCHANGED <<locks, tx>> PROVE \A u \in Processes : InOrder(u)'
    BY <1>2, SameLocksOrder, OrderFrame DEF OrderInv
  <1>3. ASSUME NEW t \in Processes, Acquire(t) PROVE OrderedStep(t)
    BY <1>0, <1>3, OrderAcquire, AcquireView DEF OrderedStep, OrderInv
  <1>4. CASE UNCHANGED vars
    BY <1>0, <1>2, <1>4 DEF vars, OrderInv
  <1>5. ASSUME Next PROVE \A u \in Processes : InOrder(u)'
    <2>1. ASSUME NEW c \in Coordinators,
                 \/ \E n \in 1..policy.revision, stage \in {"close", "reopen"} : BeginTransition(c, stage, n)
                 \/ ScanLegacyLeases(c) \/ ValidateClose(c) \/ CommitClose(c)
                 \/ FenceWriters(c) \/ CommitReopen(c)
          PROVE  \A u \in Processes : InOrder(u)'
      BY <1>0, <1>1, <2>1, CoordinatorOrder, CommitOrder DEF Processes, OrderInv
    <2>2. ASSUME NEW l \in LegacyWorkers,
                 \/ InsertLegacyLease(l) \/ BeatLegacyLease(l) \/ GuardLegacyLease(l)
                 \/ CommitLegacyLease(l) \/ WorkOrCommitLegacy(l)
          PROVE  \A u \in Processes : InOrder(u)'
      BY <1>0, <1>1, <2>2, LegacyOrder, CommitOrder DEF Processes, AllWorkers, OrderInv
    <2>3. ASSUME NEW w \in Workers,
                 \/ InsertLease(w) \/ BeginClaim(w) \/ SelectQueued(w) \/ LockOwned(w)
                 \/ \E e \in Executions : BeginOwned(w, e)
          PROVE  \A u \in Processes : InOrder(u)'
      BY <1>0, <1>1, <1>2, <2>3, CapableOrder DEF Processes, AllWorkers, OrderInv, InsertLease
    <2>4. ASSUME NEW w \in AllWorkers,
                 CommitOwner(w) \/ CommitFinish(w) \/ Deactivate(w) \/ DeleteInactive(w)
          PROVE  \A u \in Processes : InOrder(u)'
      BY <1>0, <1>1, <1>2, <2>4, CommitOrder DEF Processes, Deactivate, DeleteInactive
    <2>5. ASSUME NEW p \in Producers,
                 \/ \E e \in Executions :
                       InsertOld(p, e) \/ Retry(p, e) \/ \E v \in Protocols : Insert(p, e, v)
                 \/ GuardLegacyExecution(p) \/ RetryLocked(p) \/ GuardNewWork(p) \/ CommitWrite(p)
          PROVE  \A u \in Processes : InOrder(u)'
      BY <1>0, <1>1, <2>5, ProducerOrder, CommitOrder DEF Processes, OrderInv
    <2> QED BY <1>1, <1>3, <1>5, <2>1, <2>2, <2>3, <2>4, <2>5 DEF Next
  <1> QED BY <1>0, <1>4, <1>5 DEF OrderInv

LEMMA OrderInvInit == Init => OrderInv
  <1> SUFFICES ASSUME Init PROVE OrderInv
    OBVIOUS
  <1>1. ASSUME NEW t \in Processes PROVE InOrder(t)
    <2>1. tx[t].stage = "idle" /\ tx[t].todo = <<>>
      BY IdleFields DEF Init
    <2>2. \A r \in Resources : ~Held(t, r)
      BY DEF Init, Held
    <2>3. \A lock \in LockRequest : ~Asks(t, lock) /\ ~Holds(t, lock) /\ ~Secures(t, lock)
      BY <2>1, <2>2, Elements DEF Asks, Holds, Held, Secures, LockRequest
    <2>4. Exclude(Policy) \in LockRequest /\ \A e \in Executions : {Share(Row(e)), Exclude(Row(e))} \subseteq LockRequest
      BY RequestTypes
    <2> QED BY <2>1, <2>2, <2>3, <2>4, SortedTuples DEF InOrder, IdleIsFree, Ordered, Kinds, RowComesFirst
  <1> QED BY <1>1, DataInvInit DEF OrderInv

-----------------------------------------------------------------------------
(***************************************************************************)
(* No circle of waiting transactions.                                      *)
(***************************************************************************)

\* What a waiting transaction asks for next.
Wanted(t) == Head(tx[t].todo)

LEMMA WaitingAsks ==
  ASSUME Typed, NEW t \in Processes, NEW u \in Processes, WaitsFor(t, u)
  PROVE  /\ Wanted(t) \in LockRequest /\ Asks(t, Wanted(t)) /\ Wanted(t).on \in Resources
         /\ u # t /\ Held(u, Wanted(t).on)
         /\ u \in exclusive[Wanted(t).on] \/ (Wanted(t).mode = "exclusive" /\ u \in shared[Wanted(t).on])
  <1>1. tx[t].todo \in Seq(LockRequest) /\ tx[t].todo # <<>>
    BY DEF Typed, TypeOK, TxType, Transaction, WaitsFor
  <1>2. Wanted(t) \in LockRequest /\ Asks(t, Wanted(t))
    BY <1>1, SortedTail DEF Wanted, Asks
  <1>3. Wanted(t).on \in Resources
    BY <1>2 DEF LockRequest
  <1> QED BY <1>2, <1>3 DEF WaitsFor, Wanted, Held

\* A legacy worker that claims or finishes waits only for the holder of a row,
\* and that one waits for nobody: the others cannot exclude it from the table or
\* from the policy that the legacy worker shares.
LEMMA LightWaitsBriefly ==
  ASSUME OrderInv, NEW t \in Processes, Light(t), NEW u \in Processes, WaitsFor(t, u),
         NEW v \in Processes
  PROVE  ~WaitsFor(u, v)
  <1>0. /\ DataInv /\ Typed /\ LocksExclude /\ InOrder(t) /\ InOrder(u) /\ InOrder(v)
        /\ Sound(t) /\ Sound(v) /\ Sound(u)
    BY DEF OrderInv, DataInv
  <1>1. t \in shared[Policy] /\ policy.enabled
    BY <1>0, Locked DEF Sound, StageLocks, StageFacts, Holds
  <1>2. Policy \in Resources /\ Table \in Resources
    BY RequestTypes
  <1>3. ASSUME NEW x \in Processes, InOrder(x), Sound(x)
        PROVE  x \notin exclusive[Policy] /\ x \notin exclusive[Table]
    <2>1. x \notin exclusive[Table]
      BY <1>1, <1>3, Locked DEF Sound, FenceIsClosed, Secures, Holds
    <2>2. ASSUME x \in exclusive[Policy] PROVE FALSE
      <3>1. x = t
        BY <1>0, <1>1, <1>2, <2>2 DEF LocksExclude
      <3>2. tx[x].stage \in PolicyStages
        BY <1>3, <2>2, Locked DEF InOrder, Kinds, Secures, Holds
      <3> QED BY <3>1, <3>2 DEF PolicyStages, Light
    <2> QED BY <2>1, <2>2
  <1>4. PICK e \in Executions : Wanted(t) = Exclude(Row(e))
    <2>1. Wanted(t) \in AfterRow \cup RowLocks
      BY <1>0, WaitingAsks DEF InOrder, RowComesFirst, Light, RowStages
    <2>2. Wanted(t) \notin AfterRow
      BY <1>0, <1>3, WaitingAsks, Locked DEF AfterRow
    <2> QED BY <2>1, <2>2 DEF RowLocks
  <1>5. Holds(u, Exclude(Row(e)))
    <2>1. u \notin shared[Row(e)]
      BY <1>0, Locked DEF InOrder, Kinds, Secures, Holds
    <2> QED BY <1>0, <1>4, <2>1, WaitingAsks, Locked DEF Holds
  <1>6. ASSUME WaitsFor(u, v) PROVE FALSE
    <2>1. Wanted(u) \in AfterRow
      BY <1>0, <1>5, <1>6, WaitingAsks DEF InOrder, RowComesFirst
    <2>2. v \in exclusive[Wanted(u).on]
      BY <1>0, <1>6, <2>1, WaitingAsks, Locked DEF AfterRow
    <2> QED BY <1>0, <1>3, <2>1, <2>2, Locked DEF AfterRow
  <1> QED BY <1>6

LEMMA LastWorker ==
  ASSUME NEW S \in SUBSET AllWorkers, S # {}
  PROVE  \E w \in S : \A v \in S : ~(w < v)
  <1> DEFINE Above(w) == {v \in S : w < v}
             All == {Above(w) : w \in S}
  <1>0. \A w, v \in S : w \in Nat /\ (w < v => ~(v < w)) /\ ~(w < w)
    BY WorkerIds DEF AllWorkers
  <1>1. IsFiniteSet(S)
    BY WorkersAreFinite, FS_Union, FS_Subset DEF AllWorkers
  <1>2. \A w \in S : IsFiniteSet(Above(w)) /\ Above(w) \in SUBSET S
    BY <1>1, FS_Subset
  <1>3. All \subseteq FiniteSubsetsOf(S) /\ All # {}
    BY <1>2 DEF FiniteSubsetsOf
  <1>4. IsWellFoundedOn(StrictSubsetOrdering(S), FiniteSubsetsOf(S))
    BY FS_StrictSubsetOrderingWellFounded
  <1>5. PICK least \in All : \A other \in All : <<other, least>> \notin StrictSubsetOrdering(S)
    BY <1>3, <1>4, WFMin
  <1>6. PICK w \in S : least = Above(w)
    BY <1>5
  <1>7. ASSUME NEW v \in S, w < v PROVE FALSE
    <2>1. \A x \in S : v < x => w < x
      <3>1. \A x \in S : x \in Nat
        BY <1>0
      <3> QED BY <1>7, <3>1
    <2>2. Above(v) \subseteq Above(w)
      BY <2>1
    <2>3. v \in Above(w) /\ v \notin Above(v)
      BY <1>0, <1>7
    <2>4. <<Above(v), Above(w)>> \in StrictSubsetOrdering(S)
      BY <1>2, <2>2, <2>3 DEF StrictSubsetOrdering
    <2> QED BY <1>5, <1>6, <2>4
  <1> QED BY <1>7

LEMMA WaitsUpward ==
  ASSUME OrderInv, NEW t \in Processes, NEW u \in Processes, NEW v \in Processes,
         WaitsFor(t, u), WaitsFor(u, v), ~Light(u)
  PROVE  Before(Wanted(t).on, Wanted(u).on)
  BY WaitingAsks DEF OrderInv, DataInv, InOrder, Ordered

LEMMA NoCircle == OrderInv => NoCircularWait
  <1> SUFFICES ASSUME OrderInv, NEW waiting \in SUBSET Processes, waiting # {},
                      \A t \in waiting : \E u \in waiting : WaitsFor(t, u)
               PROVE  FALSE
    BY DEF NoCircularWait
  <1>0. Typed
    BY DEF OrderInv, DataInv
  <1>1. \A t \in waiting : ~Light(t)
    BY LightWaitsBriefly
  <1>2. \A t \in waiting : \E u \in waiting : Before(Wanted(t).on, Wanted(u).on)
    BY <1>1, WaitsUpward
  <1>3. \A t \in waiting : Wanted(t).on \in Resources
    BY <1>0, WaitingAsks
  <1> DEFINE phase(t) == Phase(Wanted(t).on)
  <1>4. \A t \in waiting : phase(t) \in 0..5
    BY Phases
  <1>5. \A t \in waiting : \E u \in waiting :
           phase(t) < phase(u) \/ (phase(t) = 1 /\ phase(u) = 1 /\ Wanted(t).on[2] < Wanted(u).on[2])
    BY <1>2 DEF Before
  <1> HIDE DEF phase
  <1>6. ASSUME NEW k \in 2..5, \A t \in waiting : phase(t) <= k
        PROVE  \A t \in waiting : phase(t) <= k - 1
    <2> SUFFICES ASSUME NEW t \in waiting, phase(t) = k PROVE FALSE
      BY <1>4, <1>6
    <2>1. PICK u \in waiting : phase(t) < phase(u)
      BY <1>5
    <2>2. phase(u) <= k /\ phase(u) \in Nat
      BY <1>4, <1>6
    <2> QED BY <2>1, <2>2
  <1>7. \A t \in waiting : phase(t) <= 1
    <2>1. \A t \in waiting : phase(t) <= 5
      BY <1>4
    <2>2. \A t \in waiting : phase(t) <= 4
      BY <1>6, <2>1
    <2>3. \A t \in waiting : phase(t) <= 3
      BY <1>6, <2>2
    <2>4. \A t \in waiting : phase(t) <= 2
      BY <1>6, <2>3
    <2> QED BY <1>6, <2>4
  <1>10. \A t \in waiting : phase(t) \in {0, 1}
    BY <1>4, <1>7
  <1> DEFINE wanted == {w \in AllWorkers : \E t \in waiting : Wanted(t).on = Lease(w)}
  <1>11. \A t \in waiting : phase(t) = 1 => \E w \in wanted : Wanted(t).on = Lease(w)
    BY <1>3, PhaseOfResource DEF phase
  <1>12. ASSUME NEW w \in wanted PROVE \E v \in wanted : w < v
    <2>1. PICK t \in waiting : Wanted(t).on = Lease(w)
      BY <1>12
    <2>2. phase(t) = 1
      BY <2>1, Phases DEF phase
    <2>3. PICK u \in waiting :
             phase(t) < phase(u) \/ (phase(t) = 1 /\ phase(u) = 1 /\ Wanted(t).on[2] < Wanted(u).on[2])
      BY <1>5
    <2>5. phase(u) = 1 /\ Wanted(t).on[2] < Wanted(u).on[2]
      BY <1>10, <2>2, <2>3
    <2>4. PICK v \in wanted : Wanted(u).on = Lease(v)
      BY <1>11, <2>5
    <2> QED BY <2>1, <2>4, <2>5, Phases
  <1>13. wanted # {}
    <2>1. PICK t \in waiting : TRUE
      OBVIOUS
    <2>2. PICK u \in waiting : phase(u) = 1
      BY <1>5, <1>10, <2>1
    <2> QED BY <1>11, <2>2
  <1> QED BY <1>12, <1>13, LastWorker

-----------------------------------------------------------------------------
(***************************************************************************)
(* Theorems.                                                               *)
(***************************************************************************)
LEMMA OrderInvHolds == Spec => []OrderInv
  BY OrderInvInit, OrderInvStep, PTL DEF Spec

\* Type correctness of the coordination rows, the locks and the transactions.
THEOREM TypeCorrect == Spec => []TypeOK
  BY DataInvHolds, PTL DEF DataInv, Typed

\* close_legacy_worker_admission, the lease triggers of migration 0019 and every
\* takeover: a closed admission has no active legacy task manager and no lease
\* with the deleted token, and policy and token agree.
THEOREM LegacyStaysOut == Spec => []NoLegacyWhileClosed
  BY DataInvHolds, PTL DEF DataInv

\* reopen_legacy_worker_admission and the triggers of migration 0020: an open
\* admission has no live execution that a legacy task manager could not run.
THEOREM NewWorkStaysOut == Spec => []OnlyV1WhileOpen
  BY DataInvHolds, PTL DEF DataInv

\* The order in which coordinators, task managers, producers and the triggers
\* inside their transactions take their locks: no set of transactions, however
\* large, waits for itself.
THEOREM NoDeadlock == Spec => []NoCircularWait
  BY OrderInvHolds, NoCircle, PTL
=============================================================================
