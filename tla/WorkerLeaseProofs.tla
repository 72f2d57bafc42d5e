--------------------------- MODULE WorkerLeaseProofs ---------------------------
(***************************************************************************)
(* Proofs about WorkerLease, for every number of processes, worker IDs and *)
(* tasks, every clock and every configuration.                             *)
(***************************************************************************)
EXTENDS WorkerLease, TLAPS

\* A lease row names the one ID of a process that has started.
RowsAreExact ==
    \A x \in Ids :
        leases[x] # None =>
            /\ worker_id[leases[x].proc] = x
            /\ phase[leases[x].proc] # "new"

\* A process that has not started has no ID and lost nothing.
NewcomersAreClean ==
    \A p \in Procs : phase[p] = "new" => worker_id[p] = None /\ p \notin deposed

\* An owned in-flight row was earned by a process with that very ID, and the
\* lease row of the ID, if there still is one, is that process's.
HoldersOwn ==
    \A t \in inflight :
        IF owner[t] = None THEN holder[t] = None
        ELSE /\ holder[t] \in Procs
             /\ worker_id[holder[t]] = owner[t]
             /\ leases[owner[t]] # None => leases[owner[t]].proc = holder[t]

\* What is left of the lease of a deposed process is inactive.
DeposedAreRetired ==
    \A x \in Ids :
        leases[x] # None /\ leases[x].proc \in deposed => ~leases[x].is_active

IInv ==
    /\ TypeOK
    /\ RowsAreExact
    /\ NewcomersAreClean
    /\ HoldersOwn
    /\ DeposedAreRetired
    /\ AgreedDuration

-----------------------------------------------------------------------------
LEMMA InitEstablishes == Init => IInv
  BY NoneIsNew, DurationsType
     DEF Init, IInv, TypeOK, Policy, RowsAreExact, NewcomersAreClean, HoldersOwn,
         DeposedAreRetired, AgreedDuration

\* Retiring rows keeps every row's process and only ever clears is_active.
LEMMA RetireRows ==
  ASSUME TypeOK, NEW S, \A x \in S \cap Ids : leases[x] # None
  PROVE  /\ Retire(S) \in [Ids -> Lease \cup {None}]
         /\ \A x \in Ids :
               /\ (Retire(S)[x] = None) <=> (leases[x] = None)
               /\ leases[x] # None =>
                     /\ Retire(S)[x].proc = leases[x].proc
                     /\ Retire(S)[x].is_active => leases[x].is_active /\ x \notin S
  <1>1. ASSUME NEW x \in Ids
        PROVE  /\ Retire(S)[x] \in Lease \cup {None}
               /\ (Retire(S)[x] = None) <=> (leases[x] = None)
               /\ leases[x] # None =>
                     /\ Retire(S)[x].proc = leases[x].proc
                     /\ Retire(S)[x].is_active => leases[x].is_active /\ x \notin S
    <2>1. CASE x \in S
      <3>1. leases[x] \in Lease /\ leases[x] # None
        BY <2>1 DEF TypeOK
      <3>2. Retire(S)[x] = [leases[x] EXCEPT !.is_active = FALSE]
        BY <2>1 DEF Retire
      <3>3. Retire(S)[x] \in Lease /\ Retire(S)[x].proc = leases[x].proc
            /\ Retire(S)[x].is_active = FALSE
        BY <3>1, <3>2 DEF Lease
      <3> QED BY <2>1, <3>1, <3>3, NoneIsNew DEF Lease
    <2>2. CASE x \notin S
      BY <2>2 DEF Retire, TypeOK
    <2> QED BY <2>1, <2>2
  <1>2. Retire(S) = [x \in Ids |-> Retire(S)[x]]
    BY DEF Retire
  <1> QED BY <1>1, <1>2

(***************************************************************************)
(* Every action but CreateLease keeps rows: it may renew, retire or delete *)
(* a lease row, and never activates one or gives it to another process.    *)
(***************************************************************************)
RowsKept ==
    /\ leases' \in [Ids -> Lease \cup {None}]
    /\ \A x \in Ids :
          leases'[x] # None =>
              /\ leases[x] # None
              /\ leases'[x].proc = leases[x].proc
              /\ leases'[x].is_active => leases[x].is_active

\* No process becomes new again.
NobodyIsNew ==
    /\ phase' \in [Procs -> {"new", "up", "down"}]
    /\ \A p \in Procs : phase'[p] = "new" => phase[p] = "new"

LEMMA OwnersStep ==
  ASSUME TypeOK, NEW p \in Procs, Owns(p)
  PROVE  /\ worker_id[p] \in Ids
         /\ leases[worker_id[p]] \in Lease
         /\ leases[worker_id[p]].proc = p
         /\ leases[worker_id[p]].is_active
         /\ Configured[p] = policy.lease_seconds
  BY DEF TypeOK, Owns, ExactRow, LiveLease, PolicyMatches

LEMMA RenewKeepsRows ==
  ASSUME TypeOK, NEW p \in Procs, Owns(p)
  PROVE  /\ Renewed(p) \in [Ids -> Lease \cup {None}]
         /\ \A x \in Ids :
               /\ x # worker_id[p] => Renewed(p)[x] = leases[x]
               /\ Renewed(p)[x] # None =>
                     /\ leases[x] # None
                     /\ Renewed(p)[x].proc = leases[x].proc
                     /\ Renewed(p)[x].is_active = leases[x].is_active
  <1>1. worker_id[p] \in Ids /\ leases[worker_id[p]] \in Lease
    BY OwnersStep
  <1>2. ASSUME NEW x \in Ids
        PROVE  /\ Renewed(p)[x] \in Lease \cup {None}
               /\ x # worker_id[p] => Renewed(p)[x] = leases[x]
               /\ Renewed(p)[x] # None =>
                     /\ leases[x] # None
                     /\ Renewed(p)[x].proc = leases[x].proc
                     /\ Renewed(p)[x].is_active = leases[x].is_active
    <2>1. CASE x = worker_id[p]
      <3>1. Renewed(p)[x] = [leases[x] EXCEPT !.last_heartbeat_at = now]
        BY <1>1, <2>1 DEF Renewed, TypeOK
      <3> QED BY <1>1, <2>1, <3>1, NoneIsNew DEF TypeOK, Lease
    <2>2. CASE x # worker_id[p]
      BY <1>1, <2>2 DEF Renewed, TypeOK
    <2> QED BY <2>1, <2>2
  <1>3. Renewed(p) = [x \in Ids |-> Renewed(p)[x]]
    BY DEF Renewed, TypeOK
  <1> QED BY <1>2, <1>3

LEMMA RetireKeepsRows ==
  ASSUME TypeOK, NEW S, \A x \in S \cap Ids : leases[x] # None, leases' = Retire(S)
  PROVE  RowsKept
  BY RetireRows DEF RowsKept

LEMMA RenewalKeepsRows ==
  ASSUME TypeOK, NEW p \in Procs, Owns(p), leases' = Renewed(p)
  PROVE  RowsKept
  BY RenewKeepsRows DEF RowsKept

LEMMA TakeOverKeepsRows ==
  ASSUME TypeOK, NEW p \in Procs, NEW t \in Tasks, TakeOver(p, t)
  PROVE  RowsKept
  <1> DEFINE S == {y \in {owner[t]} \cap Ids : StaleLease(y)}
             rows == Renewed(p)
             kept == Retire(S)
  <1>1. \A x \in S \cap Ids : leases[x] # None
    BY DEF StaleLease
  <1>2. \A x \in Ids : leases'[x] = IF x = worker_id[p] THEN rows[x] ELSE kept[x]
    BY DEF TakeOver
  <1>3. leases' = [x \in Ids |-> leases'[x]] /\ Owns(p)
    BY DEF TakeOver
  <1> HIDE DEF S
  <1>4. /\ rows \in [Ids -> Lease \cup {None}]
        /\ \A x \in Ids : rows[x] # None =>
              /\ leases[x] # None
              /\ rows[x].proc = leases[x].proc
              /\ rows[x].is_active = leases[x].is_active
    BY <1>3, RenewKeepsRows
  <1>5. /\ kept \in [Ids -> Lease \cup {None}]
        /\ \A x \in Ids : kept[x] # None =>
              /\ leases[x] # None
              /\ kept[x].proc = leases[x].proc
              /\ kept[x].is_active => leases[x].is_active
    BY <1>1, RetireRows
  <1> HIDE DEF rows, kept
  <1>6. leases' \in [Ids -> Lease \cup {None}]
    BY <1>2, <1>3, <1>4, <1>5
  <1> QED BY <1>2, <1>4, <1>5, <1>6 DEF RowsKept

\* Every step that creates no lease keeps rows.
LEMMA NextKeepsRows ==
  ASSUME TypeOK, Next, ~\E p \in Procs, x \in Ids : CreateLease(p, x)
  PROVE  RowsKept
  <1>1. CASE UNCHANGED leases
    BY <1>1 DEF TypeOK, RowsKept
  <1>2. ASSUME NEW p \in Procs, Owns(p), leases' = Renewed(p)
        PROVE  RowsKept
    BY <1>2, RenewalKeepsRows
  <1>3. ASSUME NEW p \in Procs, leases' = Retire(Withdrawn(p))
        PROVE  RowsKept
    BY <1>3, RetireKeepsRows DEF Withdrawn, ExactRow
  <1>4. ASSUME NEW p \in Procs, CleanupExpired(p)
        PROVE  RowsKept
    <2> DEFINE S == {x \in Ids : StaleLease(x)}
    <2>1. leases' = Retire(S) /\ \A x \in S \cap Ids : leases[x] # None
      BY <1>4 DEF CleanupExpired, StaleLease
    <2> HIDE DEF S
    <2> QED BY <2>1, RetireKeepsRows
  <1>5. ASSUME NEW x \in Ids, MarkInactive(x)
        PROVE  RowsKept
    BY <1>5, RetireKeepsRows DEF MarkInactive
  <1>6. ASSUME NEW x \in Ids, DeleteInactive(x)
        PROVE  RowsKept
    BY <1>6 DEF DeleteInactive, TypeOK, RowsKept
  <1>7. ASSUME NEW p \in Procs, NEW t \in Tasks, TakeOver(p, t)
        PROVE  RowsKept
    BY <1>7, TakeOverKeepsRows
  <1>8. CASE \/ Tick
             \/ \E p \in Procs : RefuseStart(p) \/ Crash(p)
             \/ \E p \in Procs, t \in Tasks : Claim(p, t)
             \/ \E n \in Durations : SetPolicy(n)
    BY <1>1, <1>8 DEF Tick, RefuseStart, Crash, Claim, SetPolicy
  <1>9. CASE \/ \E p \in Procs : Heartbeat(p)
             \/ \E p \in Procs, t \in Tasks : Finish(p, t) \/ Handoff(p, t)
    BY <1>2, <1>9 DEF Heartbeat, Finish, Handoff
  <1>10. CASE \E p \in Procs : LoseLease(p) \/ Shutdown(p)
    BY <1>3, <1>10 DEF LoseLease, Shutdown
  <1> QED BY <1>4, <1>5, <1>6, <1>7, <1>8, <1>9, <1>10 DEF Next

\* What a step that keeps rows preserves, whatever it does to the tasks.
LEMMA LeasePart ==
  ASSUME IInv, RowsKept, NobodyIsNew, worker_id' = worker_id, policy' = policy
  PROVE  /\ RowsAreExact'
         /\ AgreedDuration'
         /\ deposed' = deposed => NewcomersAreClean' /\ DeposedAreRetired'
  <1>1. RowsAreExact'
    <2> SUFFICES ASSUME NEW x \in Ids, leases'[x] # None
                 PROVE  worker_id'[leases'[x].proc] = x /\ phase'[leases'[x].proc] # "new"
      BY DEF RowsAreExact
    <2>1. leases[x] \in Lease /\ leases[x] # None /\ leases'[x].proc = leases[x].proc
      BY DEF RowsKept, IInv, TypeOK
    <2>2. leases[x].proc \in Procs
      BY <2>1 DEF Lease
    <2> QED BY <2>1, <2>2 DEF IInv, RowsAreExact, NobodyIsNew
  <1>2. AgreedDuration'
    BY DEF IInv, AgreedDuration, RowsKept
  <1>3. deposed' = deposed => NewcomersAreClean' /\ DeposedAreRetired'
    BY DEF IInv, NewcomersAreClean, DeposedAreRetired, RowsKept, NobodyIsNew
  <1> QED BY <1>1, <1>2, <1>3

\* A step that keeps rows and leaves the tasks alone preserves everything.
LEMMA LeaseOnlyStep ==
  ASSUME IInv, RowsKept, NobodyIsNew, now' \in Nat,
         UNCHANGED <<policy, worker_id, inflight, owner, holder, deposed>>
  PROVE  IInv'
  <1>1. TypeOK'
    BY DEF IInv, TypeOK, RowsKept, NobodyIsNew
  <1>2. HoldersOwn'
    <2> SUFFICES ASSUME NEW t \in inflight
                 PROVE  IF owner[t] = None THEN holder[t] = None
                        ELSE /\ holder[t] \in Procs
                             /\ worker_id[holder[t]] = owner[t]
                             /\ leases'[owner[t]] # None => leases'[owner[t]].proc = holder[t]
      BY DEF HoldersOwn
    <2>1. owner[t] \in Ids \cup {None}
      BY DEF IInv, TypeOK
    <2> QED BY <2>1 DEF IInv, HoldersOwn, RowsKept
  <1> QED BY <1>1, <1>2, LeasePart DEF IInv

-----------------------------------------------------------------------------
(***************************************************************************)
(* The invariant is inductive.                                             *)
(***************************************************************************)
LEMMA CreateLeasePreserves ==
  ASSUME IInv, NEW p \in Procs, NEW x \in Ids, CreateLease(p, x)
  PROVE  IInv'
  <1> DEFINE new == [proc |-> p, last_heartbeat_at |-> now, is_active |-> TRUE]
  <1>1. new \in Lease
    BY DEF IInv, TypeOK, Lease
  <1>2. TypeOK'
    BY <1>1 DEF IInv, TypeOK, CreateLease
  <1>3. /\ worker_id' = [worker_id EXCEPT ![p] = x]
        /\ phase' = [phase EXCEPT ![p] = "up"]
        /\ \A y \in Ids : leases'[y] = IF y = x THEN new ELSE leases[y]
        /\ UNCHANGED <<policy, inflight, owner, holder, deposed>>
    BY DEF CreateLease, IInv, TypeOK
  <1>4. \A y \in Ids : leases[y] # None => leases[y].proc \in Procs \ {p}
    <2> SUFFICES ASSUME NEW y \in Ids, leases[y] # None
                 PROVE  leases[y].proc \in Procs \ {p}
      OBVIOUS
    <2>1. leases[y].proc \in Procs
      BY DEF IInv, TypeOK, Lease
    <2> QED BY <2>1 DEF CreateLease, IInv, RowsAreExact
  <1>5. RowsAreExact'
    <2> SUFFICES ASSUME NEW y \in Ids, leases'[y] # None
                 PROVE  worker_id'[leases'[y].proc] = y /\ phase'[leases'[y].proc] # "new"
      BY DEF RowsAreExact
    <2>1. CASE y = x
      BY <1>3, <2>1 DEF IInv, TypeOK
    <2>2. CASE y # x
      BY <1>3, <1>4, <2>2 DEF IInv, TypeOK, RowsAreExact
    <2> QED BY <2>1, <2>2
  <1>6. NewcomersAreClean'
    BY <1>3 DEF IInv, TypeOK, NewcomersAreClean
  <1>7. HoldersOwn'
    <2> SUFFICES ASSUME NEW t \in inflight
                 PROVE  IF owner[t] = None THEN holder[t] = None
                        ELSE /\ holder[t] \in Procs
                             /\ worker_id'[holder[t]] = owner[t]
                             /\ leases'[owner[t]] # None => leases'[owner[t]].proc = holder[t]
      BY <1>3 DEF HoldersOwn
    <2>1. owner[t] \in Ids \cup {None} /\ owner[t] # x
      BY DEF IInv, TypeOK, CreateLease, Reserved
    <2>2. worker_id[p] = None
      BY DEF IInv, NewcomersAreClean, CreateLease
    <2>3. owner[t] # None => holder[t] # p
      BY <2>2 DEF IInv, HoldersOwn
    <2> QED BY <1>3, <2>1, <2>3 DEF IInv, TypeOK, HoldersOwn
  <1>8. DeposedAreRetired'
    <2>1. p \notin deposed
      BY DEF IInv, NewcomersAreClean, CreateLease
    <2> QED BY <1>3, <2>1 DEF IInv, DeposedAreRetired
  <1>9. AgreedDuration'
    BY <1>3 DEF IInv, AgreedDuration, CreateLease, PolicyMatches
  <1> QED BY <1>2, <1>5, <1>6, <1>7, <1>8, <1>9 DEF IInv

LEMMA ClaimPreserves ==
  ASSUME IInv, NEW p \in Procs, NEW t \in Tasks, Claim(p, t)
  PROVE  IInv'
  <1>1. TypeOK /\ Owns(p)
    BY DEF Claim, IInv
  <1>2. worker_id[p] \in Ids /\ leases[worker_id[p]].proc = p
    BY <1>1, OwnersStep
  <1>3. TypeOK'
    BY <1>2 DEF IInv, TypeOK, Claim
  <1>4. RowsKept /\ NobodyIsNew
    BY DEF IInv, TypeOK, Claim, RowsKept, NobodyIsNew
  <1>5. HoldersOwn'
    <2> SUFFICES ASSUME NEW u \in inflight'
                 PROVE  IF owner'[u] = None THEN holder'[u] = None
                        ELSE /\ holder'[u] \in Procs
                             /\ worker_id[holder'[u]] = owner'[u]
                             /\ leases[owner'[u]] # None => leases[owner'[u]].proc = holder'[u]
      BY DEF HoldersOwn, Claim
    <2>1. CASE u = t
      BY <1>2, <2>1, NoneIsNew DEF Claim, IInv, TypeOK
    <2>2. CASE u # t
      BY <2>2 DEF Claim, IInv, TypeOK, HoldersOwn
    <2> QED BY <2>1, <2>2
  <1> QED BY <1>3, <1>4, <1>5, LeasePart DEF IInv, Claim

LEMMA FinishPreserves ==
  ASSUME IInv, NEW p \in Procs, NEW t \in Tasks, Finish(p, t)
  PROVE  IInv'
  <1>1. RowsKept
    BY RenewalKeepsRows DEF Finish, IInv
  <1>2. NobodyIsNew
    BY DEF IInv, TypeOK, Finish, NobodyIsNew
  <1>3. TypeOK'
    BY <1>1 DEF IInv, TypeOK, Finish, RowsKept
  <1>4. HoldersOwn'
    <2> SUFFICES ASSUME NEW u \in inflight
                 PROVE  IF owner[u] = None THEN holder[u] = None
                        ELSE /\ holder[u] \in Procs
                             /\ worker_id[holder[u]] = owner[u]
                             /\ leases'[owner[u]] # None => leases'[owner[u]].proc = holder[u]
      BY DEF HoldersOwn, Finish
    <2>1. owner[u] \in Ids \cup {None}
      BY DEF IInv, TypeOK
    <2> QED BY <1>1, <2>1 DEF IInv, HoldersOwn, RowsKept
  <1> QED BY <1>1, <1>2, <1>3, <1>4, LeasePart DEF IInv, Finish

LEMMA HandoffPreserves ==
  ASSUME IInv, NEW p \in Procs, NEW t \in Tasks, Handoff(p, t)
  PROVE  IInv'
  <1>1. RowsKept
    BY RenewalKeepsRows DEF Handoff, IInv
  <1>2. NobodyIsNew
    BY DEF IInv, TypeOK, Handoff, NobodyIsNew
  <1>3. TypeOK'
    BY <1>1 DEF IInv, TypeOK, Handoff, RowsKept
  <1>4. HoldersOwn'
    <2> SUFFICES ASSUME NEW u \in inflight
                 PROVE  IF owner'[u] = None THEN holder'[u] = None
                        ELSE /\ holder'[u] \in Procs
                             /\ worker_id[holder'[u]] = owner'[u]
                             /\ leases'[owner'[u]] # None => leases'[owner'[u]].proc = holder'[u]
      BY DEF HoldersOwn, Handoff
    <2>1. CASE u = t
      BY <2>1 DEF Handoff, IInv, TypeOK
    <2>2. CASE u # t
      <3>1. owner'[u] = owner[u] /\ holder'[u] = holder[u] /\ owner[u] \in Ids \cup {None}
        BY <2>2 DEF Handoff, IInv, TypeOK
      <3> QED BY <1>1, <3>1 DEF IInv, HoldersOwn, RowsKept
    <2> QED BY <2>1, <2>2
  <1> QED BY <1>1, <1>2, <1>3, <1>4, LeasePart DEF IInv, Handoff

\* The source's row is inactive after a takeover, so whoever held the task is
\* retired in the step that deposes it.
LEMMA TakeOverPreserves ==
  ASSUME IInv, NEW p \in Procs, NEW t \in Tasks, TakeOver(p, t)
  PROVE  IInv'
  <1> DEFINE S == {y \in {owner[t]} \cap Ids : StaleLease(y)}
  <1>1. TypeOK /\ Owns(p)
    BY DEF TakeOver, IInv
  <1>2. /\ worker_id[p] \in Ids
        /\ leases[worker_id[p]] \in Lease
        /\ leases[worker_id[p]].proc = p
        /\ leases[worker_id[p]].is_active
    BY <1>1, OwnersStep
  <1>3. \A x \in S \cap Ids : leases[x] # None
    BY DEF StaleLease
  <1>4. \A x \in Ids :
           leases'[x] = IF x = worker_id[p] THEN Renewed(p)[x] ELSE Retire(S)[x]
    BY DEF TakeOver
  <1>5. leases' = [x \in Ids |-> leases'[x]]
    BY DEF TakeOver
  <1>6. RowsKept
    BY <1>1, TakeOverKeepsRows
  <1>7. NobodyIsNew
    BY DEF IInv, TypeOK, TakeOver, NobodyIsNew
  <1>8. TypeOK'
    BY <1>2, <1>6 DEF IInv, TypeOK, TakeOver, RowsKept
  <1>9. HoldersOwn'
    <2> SUFFICES ASSUME NEW u \in inflight
                 PROVE  IF owner'[u] = None THEN holder'[u] = None
                        ELSE /\ holder'[u] \in Procs
                             /\ worker_id[holder'[u]] = owner'[u]
                             /\ leases'[owner'[u]] # None => leases'[owner'[u]].proc = holder'[u]
      BY DEF HoldersOwn, TakeOver
    <2>1. CASE u = t
      <3>1. owner'[u] = worker_id[p] /\ holder'[u] = p
        BY <2>1 DEF TakeOver, IInv, TypeOK
      <3> QED BY <1>2, <1>6, <3>1, NoneIsNew DEF RowsKept
    <2>2. CASE u # t
      <3>1. owner'[u] = owner[u] /\ holder'[u] = holder[u] /\ owner[u] \in Ids \cup {None}
        BY <2>2 DEF TakeOver, IInv, TypeOK
      <3> QED BY <1>6, <3>1 DEF IInv, HoldersOwn, RowsKept
    <2> QED BY <2>1, <2>2
  <1>10. ASSUME holder[t] # None
         PROVE  /\ holder[t] \in Procs
                /\ owner[t] \in Ids
                /\ worker_id[holder[t]] = owner[t]
                /\ leases'[owner[t]] # None => ~leases'[owner[t]].is_active
    <2>1. /\ owner[t] # None
          /\ holder[t] \in Procs
          /\ worker_id[holder[t]] = owner[t]
          /\ owner[t] \in Ids
      BY <1>10 DEF TakeOver, IInv, HoldersOwn, TypeOK
    <2>2. leases'[owner[t]] = Retire(S)[owner[t]]
      BY <1>4, <2>1 DEF TakeOver
    <2>3. ASSUME leases'[owner[t]] # None, leases'[owner[t]].is_active
          PROVE  FALSE
      <3>1. leases[owner[t]] # None /\ leases[owner[t]].is_active /\ owner[t] \notin S
        BY <1>1, <1>3, <2>1, <2>2, <2>3, RetireRows
      <3>2. ~StaleLease(owner[t])
        BY <2>1, <3>1
      <3>3. ~LiveLease(owner[t])
        BY <2>1 DEF TakeOver
      <3> QED BY <3>1, <3>2, <3>3 DEF StaleLease, LiveLease
    <2> QED BY <2>1, <2>3
  <1>11. NewcomersAreClean'
    <2> SUFFICES ASSUME NEW q \in Procs, phase'[q] = "new"
                 PROVE  worker_id'[q] = None /\ q \notin deposed'
      BY DEF NewcomersAreClean
    <2>1. phase[q] = "new" /\ worker_id' = worker_id
      BY DEF TakeOver
    <2>2. worker_id[q] = None /\ q \notin deposed
      BY <2>1 DEF IInv, NewcomersAreClean
    <2>3. q # holder[t]
      BY <1>10, <2>2, NoneIsNew
    <2> QED BY <2>1, <2>2, <2>3 DEF TakeOver
  <1>12. DeposedAreRetired'
    <2> SUFFICES ASSUME NEW x \in Ids, leases'[x] # None, leases'[x].proc \in deposed'
                 PROVE  ~leases'[x].is_active
      BY DEF DeposedAreRetired
    <2>1. /\ leases[x] # None
          /\ leases'[x].proc = leases[x].proc
          /\ leases'[x].is_active => leases[x].is_active
          /\ worker_id[leases[x].proc] = x
      BY <1>6 DEF RowsKept, IInv, RowsAreExact
    <2>2. CASE leases[x].proc \in deposed
      BY <2>1, <2>2 DEF IInv, DeposedAreRetired
    <2>3. CASE leases[x].proc = holder[t] /\ holder[t] # None
      BY <1>10, <2>1, <2>3
    <2> QED BY <2>1, <2>2, <2>3 DEF TakeOver
  <1>13. policy' = policy /\ worker_id' = worker_id
    BY DEF TakeOver
  <1>14. RowsAreExact' /\ AgreedDuration'
    BY <1>6, <1>7, <1>13, LeasePart
  <1> QED BY <1>8, <1>9, <1>11, <1>12, <1>14 DEF IInv

LEMMA SetPolicyPreserves ==
  ASSUME IInv, NEW n \in Durations, SetPolicy(n)
  PROVE  IInv'
  <1>1. TypeOK'
    BY DEF IInv, TypeOK, SetPolicy, Policy
  <1>2. AgreedDuration'
    BY DEF SetPolicy, Quiescent, AgreedDuration
  <1> QED BY <1>1, <1>2 DEF IInv, SetPolicy, RowsAreExact, NewcomersAreClean,
             HoldersOwn, DeposedAreRetired

\* Renewals, retirements, deletions and the lives of processes.
LEMMA LeaseActionsPreserve ==
  ASSUME IInv, RowsKept,
         \/ Tick
         \/ \E p \in Procs :
               \/ RefuseStart(p) \/ Heartbeat(p) \/ LoseLease(p) \/ Shutdown(p)
               \/ Crash(p) \/ CleanupExpired(p)
         \/ \E x \in Ids : MarkInactive(x) \/ DeleteInactive(x)
  PROVE  IInv'
  <1>1. TypeOK
    BY DEF IInv
  <1>2. UNCHANGED <<policy, worker_id, inflight, owner, holder, deposed>> /\ now' \in Nat
    <2>1. CASE Tick
      BY <1>1, <2>1 DEF Tick, TypeOK
    <2>2. CASE ~Tick
      BY <1>1, <2>2 DEF RefuseStart, Heartbeat, LoseLease, Shutdown, Crash, CleanupExpired,
                        MarkInactive, DeleteInactive, TypeOK
    <2> QED BY <2>1, <2>2
  <1>3. phase' = phase \/ \E p \in Procs : phase' = [phase EXCEPT ![p] = "down"]
    BY DEF Tick, RefuseStart, Heartbeat, LoseLease, Shutdown, Crash, CleanupExpired,
           MarkInactive, DeleteInactive
  <1>4. NobodyIsNew
    BY <1>1, <1>3 DEF NobodyIsNew, TypeOK
  <1> QED BY <1>2, <1>4, LeaseOnlyStep

LEMMA NextPreserves == IInv /\ [Next]_vars => IInv'
  <1> SUFFICES ASSUME IInv, [Next]_vars PROVE IInv'
    OBVIOUS
  <1>1. CASE UNCHANGED vars
    BY <1>1 DEF vars, IInv, TypeOK, RowsAreExact, NewcomersAreClean, HoldersOwn,
       DeposedAreRetired, AgreedDuration
  <1>2. CASE Next
    <2>1. TypeOK
      BY DEF IInv
    <2>2. ASSUME NEW p \in Procs, NEW x \in Ids, CreateLease(p, x)
          PROVE  IInv'
      BY <2>2, CreateLeasePreserves
    <2>3. CASE ~\E p \in Procs, x \in Ids : CreateLease(p, x)
      <3>1. RowsKept
        BY <1>2, <2>1, <2>3, NextKeepsRows
      <3> QED BY <1>2, <2>3, <3>1, ClaimPreserves, FinishPreserves, HandoffPreserves,
                 TakeOverPreserves, SetPolicyPreserves, LeaseActionsPreserve DEF Next
    <2> QED BY <2>2, <2>3
  <1> QED BY <1>1, <1>2

-----------------------------------------------------------------------------
(***************************************************************************)
(* Results.                                                                *)
(***************************************************************************)

\* The invariant holds in every behaviour.
THEOREM Inductive == Spec => []IInv
  BY InitEstablishes, NextPreserves, PTL DEF Spec

\* The columns and rows keep their types.
THEOREM TypeCorrect == Spec => []TypeOK
  <1>1. IInv => TypeOK
    BY DEF IInv
  <1> QED BY <1>1, Inductive, PTL

\* Reused and colliding worker IDs never inherit executions (_create_lease,
\* _lock_authoritative_leases).
THEOREM AuthorityTheorem == Spec => []AuthorityIsEarned
  <1>1. IInv => AuthorityIsEarned
    <2> SUFFICES ASSUME IInv, NEW p \in Procs, NEW t \in inflight,
                        Owns(p), owner[t] = worker_id[p]
                 PROVE  holder[t] = p
      BY DEF AuthorityIsEarned
    <2>1. worker_id[p] \in Ids /\ leases[worker_id[p]] \in Lease
          /\ leases[worker_id[p]].proc = p
      BY OwnersStep DEF IInv
    <2> QED BY <2>1, NoneIsNew DEF IInv, HoldersOwn
  <1> QED BY <1>1, Inductive, PTL

\* A process whose execution was taken over never passes the lease check again.
THEOREM DeposedTheorem == Spec => []DeposedNeverActs
  <1>1. IInv => DeposedNeverActs
    <2> SUFFICES ASSUME IInv, NEW p \in deposed, Owns(p)
                 PROVE  FALSE
      BY DEF DeposedNeverActs
    <2>1. p \in Procs
      BY DEF IInv, TypeOK
    <2>2. /\ worker_id[p] \in Ids
          /\ leases[worker_id[p]] \in Lease
          /\ leases[worker_id[p]].proc = p
          /\ leases[worker_id[p]].is_active
      BY <2>1, OwnersStep DEF IInv
    <2> QED BY <2>2, NoneIsNew DEF IInv, DeposedAreRetired
  <1> QED BY <1>1, Inductive, PTL

\* Active leases and the database policy always agree on the duration.
THEOREM DurationTheorem == Spec => []AgreedDuration
  <1>1. IInv => AgreedDuration
    BY DEF IInv
  <1> QED BY <1>1, Inductive, PTL

\* A retired lease is never revived: its process, a takeover, cleanup or a new
\* process under the same ID leave it inactive until it is deleted.
THEOREM RetiredTheorem == Spec => RetiredStaysRetired
  <1> DEFINE Stays ==
        \A x \in Ids :
          leases[x] # None /\ ~leases[x].is_active =>
             \/ leases'[x] = None
             \/ leases'[x].proc = leases[x].proc /\ ~leases'[x].is_active
  <1>1. IInv /\ [Next]_vars => [Stays]_vars
    <2> SUFFICES ASSUME IInv, Next PROVE Stays
      BY DEF vars
    <2>1. ASSUME NEW p \in Procs, NEW x \in Ids, CreateLease(p, x)
          PROVE  Stays
      BY <2>1 DEF CreateLease, Reserved, IInv, TypeOK
    <2>2. CASE ~\E p \in Procs, x \in Ids : CreateLease(p, x)
      BY <2>2, NextKeepsRows DEF IInv, RowsKept
    <2> QED BY <2>1, <2>2
  <1> QED BY <1>1, Inductive, PTL DEF Spec, RetiredStaysRetired
=============================================================================
