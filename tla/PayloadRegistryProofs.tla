------------------------- MODULE PayloadRegistryProofs -------------------------
(***************************************************************************)
(* Proofs about PayloadRegistry for any number of producers, purgers,      *)
(* reapers and executions.                                                 *)
(***************************************************************************)
EXTENDS PayloadRegistry, TLAPS

-----------------------------------------------------------------------------
(***************************************************************************)
(* The inductive invariant.                                                *)
(***************************************************************************)

\* Where each kind of process can be, and which lock it holds there.
LocksAreHeld ==
    /\ \A p \in Producers :
          /\ pc[p] \in {"idle", "prepared", "restore", "attach"}
          /\ pc[p] \in {"restore", "attach"} => lock[target[p]] = p
    /\ \A a \in Purgers :
          /\ pc[a] \in {"idle", "delete", "tombstone"}
          /\ pc[a] \in {"delete", "tombstone"} => lock[target[a]] = a
    /\ \A a \in Reapers :
          /\ pc[a] \in {"idle", "verify", "insert", "recheck", "tombstone"}
          /\ pc[a] \in {"recheck", "tombstone"} => lock["canonical"] = a

\* A row outlives every execution that names it.
RowsCoverExecutions ==
    \A e \in Executions :
        executions[e].reference # None => registry[executions[e].reference] # None

\* A registration in progress is the only one for its object.
RegistrationsAreAlone ==
    \A p \in Producers :
        /\ pc[p] \in {"restore", "attach"} =>
              /\ registry[Other(target[p])] = None
              /\ target[p] = "canonical" \/ registry[target[p]] # None
        /\ pc[p] = "restore" => registry[target[p]] # None

\* What a purger has locked stays as it was seen.
PurgesAreAlone ==
    \A a \in Purgers : pc[a] \in {"delete", "tombstone"} =>
        /\ registry[target[a]] = "ACTIVE" /\ registry[Other(target[a])] = None
        /\ \A e \in Executions : executions[e].reference = target[a] => OldAndTerminal(e)

\* So does what a reaper has fenced with its tombstone.
ReapsAreAlone ==
    \A a \in Reapers : pc[a] \in {"recheck", "tombstone"} => Unregistered

\* The bytes were not lost, or to a reap that rolled its tombstone back.
Kept == Stored \/ object = "taken"

\* The bytes of a payload that has no row yet are kept, or the reaper that took
\* them is about to commit its tombstone.
PreparedIsStored ==
    /\ \A p \in Producers :
          pc[p] = "prepared" /\ registry = [s \in Spellings |-> None] =>
             Kept \/ \E a \in Reapers : pc[a] = "tombstone"
    /\ \A p \in Producers : pc[p] = "attach" => Kept
    /\ BytesLostOnlyToReap

IInv ==
    /\ TypeOK
    /\ LocksAreHeld
    /\ RowsCoverExecutions
    /\ RegistrationsAreAlone
    /\ PurgesAreAlone
    /\ ReapsAreAlone
    /\ LiveIsRegistered
    /\ PreparedIsStored

-----------------------------------------------------------------------------
LEMMA InitEstablishes == Init => IInv
  <1> SUFFICES ASSUME Init PROVE IInv
    OBVIOUS
  <1>1. TypeOK
    <2>1. /\ Unborn \in Execution /\ Submitting \in Execution
          /\ \A s \in Spellings : Holding(s) \in Execution
      BY DEF Unborn, Holding, Submitting, Execution, Spellings, Kinds
    <2>2. executions \in [Executions -> Execution]
      BY <2>1 DEF Init
    <2> QED BY <2>2 DEF Init, TypeOK, Spellings, Actors
  <1>2. LocksAreHeld /\ RegistrationsAreAlone /\ PurgesAreAlone /\ ReapsAreAlone
    BY DEF Init, LocksAreHeld, RegistrationsAreAlone, PurgesAreAlone, ReapsAreAlone, Actors
  <1>3. \A e \in Executions :
          executions[e].reference # None =>
             registry[executions[e].reference] = "ACTIVE" /\ Stored
    BY DEF Init, Unborn, Holding, Submitting, Stored
  <1>4. \A p \in Producers : pc[p] = "idle"
    BY DEF Init, Actors
  <1> QED BY <1>1, <1>2, <1>3, <1>4, NoneIsNobody
          DEF IInv, RowsCoverExecutions, LiveIsRegistered, PreparedIsStored,
              BytesLostOnlyToReap, Relying

\* A step that ends the transaction of a releases its locks and nobody else's.
LEMMA EndTransactionStep ==
  ASSUME TypeOK, NEW a \in Actors, EndTransaction(a)
  PROVE  /\ lock' \in [Spellings -> Actors \cup {None}]
         /\ pc' = [pc EXCEPT ![a] = "idle"]
         /\ \A s \in Spellings : \A b \in Actors : b # a => (lock[s] = b => lock'[s] = b)
  BY NoneIsNobody DEF EndTransaction, TypeOK

LEMMA PreparePreserves ==
  ASSUME IInv, NEW p \in Producers, Prepare(p)
  PROVE  IInv'
  <1> USE DEF Prepare, Goto, StorePayload, Stored
  <1>1. p \in Actors /\ pc[p] = "idle" /\ pc' = [pc EXCEPT ![p] = "prepared"]
    BY DEF Actors
  <1>2. object' \in {"recent", "old"} /\ Stored'
    BY DEF IInv, TypeOK
  <1>3. TypeOK'
    BY <1>1, <1>2 DEF IInv, TypeOK
  <1>4. LocksAreHeld'
    BY <1>1, ActorsDiffer DEF IInv, TypeOK, LocksAreHeld, Actors
  <1>5. RegistrationsAreAlone' /\ PurgesAreAlone' /\ ReapsAreAlone'
    BY <1>1, ActorsDiffer DEF IInv, TypeOK, RegistrationsAreAlone, PurgesAreAlone,
       ReapsAreAlone, Actors, Unregistered, Attached, OldAndTerminal, Other
  <1>6. RowsCoverExecutions' /\ LiveIsRegistered'
    BY DEF IInv, RowsCoverExecutions, LiveIsRegistered, Relying
  <1>7. PreparedIsStored'
    BY <1>2 DEF PreparedIsStored, Kept, BytesLostOnlyToReap
  <1> QED BY <1>3, <1>4, <1>5, <1>6, <1>7 DEF IInv

LEMMA BeginRegistrationPreserves ==
  ASSUME IInv, NEW p \in Producers, NEW s \in Spellings, BeginRegistration(p, s)
  PROVE  IInv'
  <1>1. p \in Actors /\ pc[p] = "prepared" /\ Other(s) \in Spellings
        /\ UNCHANGED <<object, registry, last_used, executions>>
    BY DEF BeginRegistration, Actors, Other, Spellings
  <1>2. RowsCoverExecutions' /\ LiveIsRegistered'
    BY <1>1 DEF IInv, RowsCoverExecutions, LiveIsRegistered, Relying
  <1>3. CASE pc' = [pc EXCEPT ![p] = "idle"] /\ UNCHANGED <<lock, target>>
    <2>1. TypeOK'
      BY <1>1, <1>3 DEF IInv, TypeOK
    <2>2. LocksAreHeld'
      BY <1>1, <1>3, ActorsDiffer DEF IInv, TypeOK, LocksAreHeld, Actors
    <2>3. RegistrationsAreAlone' /\ PurgesAreAlone' /\ ReapsAreAlone'
      BY <1>1, <1>3, ActorsDiffer DEF IInv, TypeOK, RegistrationsAreAlone, PurgesAreAlone,
         ReapsAreAlone, Actors, Unregistered, Attached, OldAndTerminal, Other
    <2>4. PreparedIsStored'
      BY <1>1, <1>3, ActorsDiffer DEF IInv, TypeOK, Actors, PreparedIsStored, Kept, Stored,
         BytesLostOnlyToReap, Relying
    <2> QED BY <1>2, <2>1, <2>2, <2>3, <2>4 DEF IInv
  <1>4. CASE /\ registry[Other(s)] = None /\ lock[s] = None
             /\ s = "canonical" \/ registry[s] # None
             /\ lock' = [lock EXCEPT ![s] = p] /\ target' = [target EXCEPT ![p] = s]
             /\ pc' = [pc EXCEPT ![p] = IF registry[s] = None THEN "attach" ELSE "restore"]
    <2>1. TypeOK'
      BY <1>1, <1>4 DEF IInv, TypeOK
    <2>2. LocksAreHeld'
      BY <1>1, <1>4, ActorsDiffer, NoneIsNobody DEF IInv, TypeOK, LocksAreHeld, Actors, Spellings
    <2>3. RegistrationsAreAlone'
      BY <1>1, <1>4, ActorsDiffer DEF IInv, TypeOK, RegistrationsAreAlone, Actors, Other
    <2>4. PurgesAreAlone' /\ ReapsAreAlone'
      BY <1>1, <1>4, ActorsDiffer DEF IInv, TypeOK, PurgesAreAlone,
         ReapsAreAlone, Actors, Unregistered, Attached, OldAndTerminal, Other
    <2>5. ASSUME registry[s] = None PROVE Kept
      <3>1. registry = [r \in Spellings |-> None] /\ s = "canonical"
        BY <1>4, <2>5 DEF IInv, TypeOK, Spellings, Other
      <3>2. ~\E a \in Reapers : pc[a] = "tombstone"
        BY <1>4, <3>1, NoneIsNobody DEF IInv, LocksAreHeld
      <3> QED BY <1>1, <3>1, <3>2 DEF IInv, PreparedIsStored
    <2>6. PreparedIsStored'
      BY <1>1, <1>4, <2>5, ActorsDiffer DEF IInv, TypeOK, Actors, PreparedIsStored, Kept, Stored,
         BytesLostOnlyToReap, Relying
    <2> QED BY <1>2, <2>1, <2>2, <2>3, <2>4, <2>6 DEF IInv
  <1> QED BY <1>3, <1>4 DEF BeginRegistration, Goto

\* While a purger works, nobody registers the object and no execution uses it.
LEMMA PurgerIsAlone ==
  ASSUME IInv, NEW a \in Purgers, pc[a] \in {"delete", "tombstone"}
  PROVE  /\ \A p \in Producers : pc[p] \notin {"restore", "attach"}
         /\ \A b \in Reapers : pc[b] \notin {"recheck", "tombstone"}
         /\ \A b \in Purgers \ {a} : pc[b] \notin {"delete", "tombstone"}
         /\ \A e \in Executions : executions[e].reference # None => OldAndTerminal(e)
         /\ target[a] \in Spellings /\ registry[target[a]] = "ACTIVE"
  <1>1. /\ target[a] \in Spellings /\ lock[target[a]] = a
        /\ registry[target[a]] = "ACTIVE" /\ registry[Other(target[a])] = None
        /\ \A e \in Executions : executions[e].reference = target[a] => OldAndTerminal(e)
    BY DEF IInv, TypeOK, LocksAreHeld, PurgesAreAlone
  <1>2. ASSUME NEW p \in Producers, pc[p] \in {"restore", "attach"} PROVE FALSE
    <2>1. /\ lock[target[p]] = p /\ registry[Other(target[p])] = None
          /\ target[p] \in Spellings /\ p # a
      BY <1>2, ActorsDiffer DEF IInv, TypeOK, LocksAreHeld, RegistrationsAreAlone
    <2> QED BY <1>1, <2>1, NoneIsNobody DEF Spellings, Other
  <1>3. \A b \in Reapers : pc[b] \notin {"recheck", "tombstone"}
    BY <1>1, NoneIsNobody DEF IInv, ReapsAreAlone, Unregistered
  <1>4. ASSUME NEW b \in Purgers \ {a}, pc[b] \in {"delete", "tombstone"} PROVE FALSE
    <2>1. target[b] \in Spellings /\ lock[target[b]] = b /\ registry[target[b]] = "ACTIVE"
      BY <1>4 DEF IInv, TypeOK, LocksAreHeld, PurgesAreAlone
    <2> QED BY <1>1, <2>1, NoneIsNobody DEF Spellings, Other
  <1>5. ASSUME NEW e \in Executions, executions[e].reference # None PROVE OldAndTerminal(e)
    <2>1. executions[e].reference \in Spellings /\ registry[executions[e].reference] # None
      BY <1>5 DEF IInv, TypeOK, Execution, RowsCoverExecutions
    <2> QED BY <1>1, <2>1 DEF Spellings, Other
  <1> QED BY <1>1, <1>2, <1>3, <1>4, <1>5

\* While a reaper holds its tombstone, nobody else has a transaction on the object.
LEMMA ReaperIsAlone ==
  ASSUME IInv, NEW a \in Reapers, pc[a] \in {"recheck", "tombstone"}
  PROVE  /\ \A p \in Producers : pc[p] \notin {"restore", "attach"}
         /\ \A b \in Purgers : pc[b] \notin {"delete", "tombstone"}
         /\ \A b \in Reapers \ {a} : pc[b] \notin {"recheck", "tombstone"}
  <1>1. lock["canonical"] = a /\ Unregistered
    BY DEF IInv, LocksAreHeld, ReapsAreAlone
  <1>2. ASSUME NEW p \in Producers, pc[p] \in {"restore", "attach"} PROVE FALSE
    <2>1. /\ lock[target[p]] = p /\ target[p] \in Spellings /\ p # a
          /\ target[p] = "canonical" \/ registry[target[p]] # None
      BY <1>2, ActorsDiffer DEF IInv, TypeOK, LocksAreHeld, RegistrationsAreAlone
    <2> QED BY <1>1, <2>1 DEF Unregistered
  <1>3. \A b \in Purgers : pc[b] \notin {"delete", "tombstone"}
    BY PurgerIsAlone
  <1>4. \A b \in Reapers \ {a} : pc[b] \notin {"recheck", "tombstone"}
    BY <1>1 DEF IInv, LocksAreHeld
  <1> QED BY <1>2, <1>3, <1>4

\* A transaction that ends without a commit leaves the database alone.
LEMMA RollbackPreserves ==
  ASSUME IInv, NEW a \in Actors, EndTransaction(a),
         UNCHANGED <<registry, last_used, executions, target>>,
         \/ object' = object \/ object' = "taken"
         \/ a \in Purgers /\ pc[a] = "delete" /\ object' = "absent",
         a \in Reapers /\ pc[a] = "tombstone" => Kept'
  PROVE  IInv'
  <1>1. /\ lock' \in [Spellings -> Actors \cup {None}]
        /\ pc' = [pc EXCEPT ![a] = "idle"]
        /\ \A s \in Spellings : \A b \in Actors : b # a => (lock[s] = b => lock'[s] = b)
    BY EndTransactionStep DEF IInv
  <1>2. TypeOK'
    BY <1>1 DEF IInv, TypeOK
  <1>3. LocksAreHeld'
    BY <1>1, ActorsDiffer DEF IInv, TypeOK, LocksAreHeld, Actors, Spellings
  <1>4. RegistrationsAreAlone' /\ PurgesAreAlone' /\ ReapsAreAlone'
    BY <1>1, ActorsDiffer DEF IInv, TypeOK, RegistrationsAreAlone, PurgesAreAlone,
       ReapsAreAlone, Actors, Unregistered, Attached, OldAndTerminal, Other
  <1>5. RowsCoverExecutions' /\ LiveIsRegistered'
    BY DEF IInv, RowsCoverExecutions, LiveIsRegistered, Relying
  <1>6. PreparedIsStored'
    <2>1. CASE object' = object
      BY <1>1, <2>1, ActorsDiffer DEF IInv, TypeOK, Actors, PreparedIsStored, Kept, Stored,
         BytesLostOnlyToReap, Relying
    <2>2. CASE a \in Purgers /\ pc[a] = "delete"
      <3>1. registry # [s \in Spellings |-> None]
        BY <2>2, PurgerIsAlone, NoneIsNobody
      <3>2. \A p \in Producers : pc[p] # "attach"
        BY <2>2, PurgerIsAlone
      <3>3. BytesLostOnlyToReap'
        BY <2>2, PurgerIsAlone DEF BytesLostOnlyToReap, OldAndTerminal, Relying, Kept
      <3> QED BY <1>1, <3>1, <3>2, <3>3 DEF PreparedIsStored, IInv, TypeOK, Actors
    <2>3. CASE object' = "taken"
      BY <2>3 DEF PreparedIsStored, Kept, BytesLostOnlyToReap
    <2> QED BY <2>1, <2>2, <2>3
  <1> QED BY <1>2, <1>3, <1>4, <1>5, <1>6 DEF IInv

LEMMA RestorePreserves ==
  ASSUME IInv, NEW p \in Producers, RestorePayload(p)
  PROVE  IInv'
  <1>1. p \in Actors /\ pc[p] = "restore"
        /\ UNCHANGED <<registry, last_used, executions, target>>
    BY DEF RestorePayload, Actors
  <1>2. CASE StorePayload /\ Goto(p, "attach") /\ UNCHANGED lock
    <2>1. object' \in {"recent", "old"} /\ Stored'
      BY <1>2 DEF IInv, TypeOK, StorePayload, Stored
    <2>2. TypeOK'
      BY <1>1, <1>2, <2>1 DEF IInv, TypeOK, Goto
    <2>3. LocksAreHeld'
      BY <1>1, <1>2, ActorsDiffer DEF IInv, TypeOK, LocksAreHeld, Actors, Goto
    <2>4. RegistrationsAreAlone' /\ PurgesAreAlone' /\ ReapsAreAlone'
      BY <1>1, <1>2, ActorsDiffer DEF IInv, TypeOK, RegistrationsAreAlone, PurgesAreAlone,
         ReapsAreAlone, Actors, Unregistered, Attached, OldAndTerminal, Other, Goto
    <2>5. RowsCoverExecutions' /\ LiveIsRegistered'
      BY <1>1 DEF IInv, RowsCoverExecutions, LiveIsRegistered, Relying
    <2>6. PreparedIsStored'
      BY <2>1 DEF PreparedIsStored, Kept, BytesLostOnlyToReap
    <2> QED BY <2>2, <2>3, <2>4, <2>5, <2>6 DEF IInv
  <1>3. CASE EndTransaction(p) /\ UNCHANGED object
    BY <1>1, <1>3, RollbackPreserves, ActorsDiffer
  <1> QED BY <1>2, <1>3 DEF RestorePayload

LEMMA AttachPreserves ==
  ASSUME IInv, NEW p \in Producers, Attach(p)
  PROVE  IInv'
  <1>1. p \in Actors /\ pc[p] = "attach" /\ UNCHANGED <<object, target>>
        /\ registry' = [registry EXCEPT ![target[p]] = "ACTIVE"]
        /\ last_used' = [last_used EXCEPT ![target[p]] = "recent"]
        /\ target[p] \in Spellings
    BY DEF Attach, Actors, IInv, TypeOK
  <1>2. /\ lock' \in [Spellings -> Actors \cup {None}]
        /\ pc' = [pc EXCEPT ![p] = "idle"]
        /\ \A s \in Spellings : \A b \in Actors : b # p => (lock[s] = b => lock'[s] = b)
    BY <1>1, EndTransactionStep DEF IInv, Attach
  <1>3. PICK e \in Executions : AttachTo(e, target[p])
    BY DEF Attach
  <1>4. /\ executions' \in [Executions -> Execution]
        /\ executions'[e].reference = target[p]
        /\ \A f \in Executions \ {e} : executions'[f] = executions[f]
    BY <1>1, <1>3 DEF AttachTo, IInv, TypeOK, Execution
  <1>5. /\ registry[Other(target[p])] = None /\ lock[target[p]] = p
        /\ target[p] = "canonical" \/ registry[target[p]] # None
    BY <1>1 DEF IInv, RegistrationsAreAlone, LocksAreHeld
  <1>6. /\ \A a \in Purgers : pc[a] \notin {"delete", "tombstone"}
        /\ \A a \in Reapers : pc[a] \notin {"recheck", "tombstone"}
        /\ \A q \in Producers \ {p} : pc[q] \notin {"restore", "attach"}
    <2>1. ASSUME NEW a \in Purgers, pc[a] \in {"delete", "tombstone"} PROVE FALSE
      BY <1>1, <2>1, PurgerIsAlone
    <2>2. ASSUME NEW a \in Reapers, pc[a] \in {"recheck", "tombstone"} PROVE FALSE
      BY <1>1, <2>2, ReaperIsAlone
    <2>3. ASSUME NEW q \in Producers \ {p}, pc[q] \in {"restore", "attach"} PROVE FALSE
      <3>1. /\ lock[target[q]] = q /\ target[q] \in Spellings
            /\ registry[Other(target[q])] = None
            /\ target[q] = "canonical" \/ registry[target[q]] # None
        BY <2>3 DEF IInv, TypeOK, LocksAreHeld, RegistrationsAreAlone
      <3> QED BY <1>1, <1>5, <2>3, <3>1 DEF Spellings, Other
    <2> QED BY <2>1, <2>2, <2>3
  <1>7. TypeOK'
    BY <1>1, <1>2, <1>4 DEF IInv, TypeOK, Spellings, RowState
  <1>8. LocksAreHeld'
    BY <1>1, <1>2, ActorsDiffer DEF IInv, TypeOK, LocksAreHeld, Actors, Spellings
  <1>9. RegistrationsAreAlone' /\ PurgesAreAlone' /\ ReapsAreAlone'
    BY <1>2, <1>6, ActorsDiffer DEF IInv, TypeOK, RegistrationsAreAlone, PurgesAreAlone,
       ReapsAreAlone, Actors
  <1>10. RowsCoverExecutions' /\ LiveIsRegistered'
    BY <1>1, <1>4, NoneIsNobody
       DEF IInv, TypeOK, Execution, Spellings, RowsCoverExecutions, LiveIsRegistered, Relying
  <1>11. PreparedIsStored'
    <2>1. registry' # [s \in Spellings |-> None]
      BY <1>1, NoneIsNobody DEF IInv, TypeOK, Spellings
    <2> QED BY <1>1, <1>2, <1>6, <2>1 DEF IInv, TypeOK, Actors, PreparedIsStored, Kept, Stored,
               BytesLostOnlyToReap
  <1> QED BY <1>7, <1>8, <1>9, <1>10, <1>11 DEF IInv

LEMMA LockForPurgePreserves ==
  ASSUME IInv, NEW a \in Purgers, NEW s \in Spellings, LockForPurge(a, s)
  PROVE  IInv'
  <1>1. /\ a \in Actors /\ pc[a] = "idle" /\ lock[s] = None
        /\ registry[s] = "ACTIVE" /\ registry[Other(s)] = None
        /\ \A e \in Executions : executions[e].reference = s => OldAndTerminal(e)
        /\ lock' = [lock EXCEPT ![s] = a] /\ target' = [target EXCEPT ![a] = s]
        /\ pc' = [pc EXCEPT ![a] = "delete"]
        /\ UNCHANGED <<object, registry, last_used, executions>>
    BY DEF LockForPurge, Goto, Actors
  <1>2. TypeOK'
    BY <1>1 DEF IInv, TypeOK
  <1>3. LocksAreHeld'
    BY <1>1, ActorsDiffer, NoneIsNobody DEF IInv, TypeOK, LocksAreHeld, Actors, Spellings
  <1>4. RegistrationsAreAlone' /\ PurgesAreAlone' /\ ReapsAreAlone'
    BY <1>1, ActorsDiffer DEF IInv, TypeOK, RegistrationsAreAlone, PurgesAreAlone,
       ReapsAreAlone, Actors, Unregistered, Attached, OldAndTerminal, Other
  <1>5. RowsCoverExecutions' /\ LiveIsRegistered'
    BY <1>1 DEF IInv, RowsCoverExecutions, LiveIsRegistered, Relying
  <1>6. PreparedIsStored'
    BY <1>1, ActorsDiffer DEF IInv, TypeOK, Actors, PreparedIsStored, Kept, Stored,
       BytesLostOnlyToReap, Relying
  <1> QED BY <1>2, <1>3, <1>4, <1>5, <1>6 DEF IInv

LEMMA DeletePurgedPreserves ==
  ASSUME IInv, NEW a \in Purgers, DeletePurged(a)
  PROVE  IInv'
  <1>1. a \in Actors /\ pc[a] = "delete"
        /\ UNCHANGED <<registry, last_used, executions, target>>
    BY DEF DeletePurged, Actors
  <1>2. CASE object' = "absent" /\ Goto(a, "tombstone") /\ UNCHANGED lock
    <2>1. pc' = [pc EXCEPT ![a] = "tombstone"]
      BY <1>2 DEF Goto
    <2>2. TypeOK'
      BY <1>1, <1>2, <2>1 DEF IInv, TypeOK
    <2>3. LocksAreHeld'
      BY <1>1, <1>2, <2>1, ActorsDiffer DEF IInv, TypeOK, LocksAreHeld, Actors
    <2>4. RegistrationsAreAlone' /\ PurgesAreAlone' /\ ReapsAreAlone'
      BY <1>1, <2>1, ActorsDiffer DEF IInv, TypeOK, RegistrationsAreAlone, PurgesAreAlone,
         ReapsAreAlone, Actors, Unregistered, Attached, OldAndTerminal, Other
    <2>5. RowsCoverExecutions' /\ LiveIsRegistered'
      BY <1>1 DEF IInv, RowsCoverExecutions, LiveIsRegistered, Relying
    <2>6. PreparedIsStored'
      <3>1. registry # [s \in Spellings |-> None]
        BY <1>1, PurgerIsAlone, NoneIsNobody
      <3>2. \A p \in Producers : pc'[p] # "attach"
        BY <1>1, <2>1, PurgerIsAlone, ActorsDiffer DEF IInv, TypeOK, Actors
      <3>3. BytesLostOnlyToReap'
        BY <1>1, PurgerIsAlone DEF BytesLostOnlyToReap, OldAndTerminal, Relying, Kept
      <3> QED BY <1>1, <3>1, <3>2, <3>3 DEF PreparedIsStored
    <2> QED BY <2>2, <2>3, <2>4, <2>5, <2>6 DEF IInv
  <1>3. CASE EndTransaction(a) /\ (object' = object \/ object' = "absent")
    BY <1>1, <1>3, RollbackPreserves, ActorsDiffer
  <1> QED BY <1>2, <1>3 DEF DeletePurged

LEMMA CommitPurgePreserves ==
  ASSUME IInv, NEW a \in Purgers, CommitPurge(a)
  PROVE  IInv'
  <1>1. a \in Actors /\ pc[a] = "tombstone"
        /\ registry' = [registry EXCEPT ![target[a]] = "PURGED"]
        /\ UNCHANGED <<object, last_used, executions, target>>
    BY DEF CommitPurge, Actors
  <1>2. /\ lock' \in [Spellings -> Actors \cup {None}]
        /\ pc' = [pc EXCEPT ![a] = "idle"]
        /\ \A s \in Spellings : \A b \in Actors : b # a => (lock[s] = b => lock'[s] = b)
    BY <1>1, EndTransactionStep DEF IInv, CommitPurge
  <1>3. TypeOK'
    BY <1>1, <1>2 DEF IInv, TypeOK, RowState
  <1>4. LocksAreHeld'
    BY <1>1, <1>2, ActorsDiffer DEF IInv, TypeOK, LocksAreHeld, Actors, Spellings
  <1>5. RegistrationsAreAlone' /\ PurgesAreAlone' /\ ReapsAreAlone'
    BY <1>1, <1>2, PurgerIsAlone, ActorsDiffer DEF IInv, TypeOK, RegistrationsAreAlone,
       PurgesAreAlone, ReapsAreAlone, Actors
  <1>6. RowsCoverExecutions' /\ LiveIsRegistered'
    BY <1>1, PurgerIsAlone, NoneIsNobody DEF IInv, TypeOK, Execution, RowsCoverExecutions,
       LiveIsRegistered, OldAndTerminal, Relying
  <1>7. PreparedIsStored'
    <2>1. registry' # [s \in Spellings |-> None]
      BY <1>1, PurgerIsAlone, NoneIsNobody DEF IInv, TypeOK
    <2>2. \A p \in Producers : pc'[p] # "attach"
      BY <1>1, <1>2, PurgerIsAlone, ActorsDiffer DEF IInv, TypeOK, Actors
    <2>3. BytesLostOnlyToReap'
      BY <1>1, PurgerIsAlone DEF BytesLostOnlyToReap, OldAndTerminal, Relying, Kept
    <2> QED BY <2>1, <2>2, <2>3 DEF PreparedIsStored
  <1> QED BY <1>3, <1>4, <1>5, <1>6, <1>7 DEF IInv

\* Steps of a reaper that touch neither the object nor the database.
LEMMA ReaperMoves ==
  ASSUME IInv, NEW a \in Reapers, pc[a] \in {"idle", "verify", "insert"},
         NEW step \in {"idle", "verify", "insert"}, Goto(a, step),
         UNCHANGED <<object, registry, last_used, executions, lock, target>>
  PROVE  IInv'
  <1>1. a \in Actors /\ pc' = [pc EXCEPT ![a] = step]
    BY DEF Goto, Actors
  <1>2. TypeOK'
    BY <1>1 DEF IInv, TypeOK
  <1>3. LocksAreHeld'
    BY <1>1, ActorsDiffer DEF IInv, TypeOK, LocksAreHeld, Actors
  <1>4. RegistrationsAreAlone' /\ PurgesAreAlone' /\ ReapsAreAlone'
    BY <1>1, ActorsDiffer DEF IInv, TypeOK, RegistrationsAreAlone, PurgesAreAlone,
       ReapsAreAlone, Actors, Unregistered, Attached, OldAndTerminal, Other
  <1>5. RowsCoverExecutions' /\ LiveIsRegistered'
    BY DEF IInv, RowsCoverExecutions, LiveIsRegistered, Relying
  <1>6. PreparedIsStored'
    BY <1>1, ActorsDiffer DEF IInv, TypeOK, Actors, PreparedIsStored, Kept, Stored,
       BytesLostOnlyToReap, Relying
  <1> QED BY <1>2, <1>3, <1>4, <1>5, <1>6 DEF IInv

LEMMA InsertTombstonePreserves ==
  ASSUME IInv, NEW a \in Reapers, InsertTombstone(a)
  PROVE  IInv'
  <1>1. CASE ~Unregistered
    BY <1>1, ReaperMoves DEF InsertTombstone
  <1>2. CASE Unregistered
    <2>1. /\ a \in Actors /\ pc[a] = "insert" /\ lock["canonical"] = None
          /\ lock' = [lock EXCEPT !["canonical"] = a] /\ pc' = [pc EXCEPT ![a] = "recheck"]
          /\ UNCHANGED <<object, registry, last_used, executions, target>>
      BY <1>2 DEF InsertTombstone, Goto, Actors, Spellings
    <2>2. TypeOK'
      BY <2>1 DEF IInv, TypeOK, Spellings
    <2>3. LocksAreHeld'
      BY <2>1, ActorsDiffer, NoneIsNobody DEF IInv, TypeOK, LocksAreHeld, Actors, Spellings
    <2>4. RegistrationsAreAlone' /\ PurgesAreAlone' /\ ReapsAreAlone'
      BY <1>2, <2>1, ActorsDiffer DEF IInv, TypeOK, RegistrationsAreAlone, PurgesAreAlone,
         ReapsAreAlone, Actors, Unregistered, Attached, OldAndTerminal, Other
    <2>5. RowsCoverExecutions' /\ LiveIsRegistered'
      BY <2>1 DEF IInv, RowsCoverExecutions, LiveIsRegistered, Relying
    <2>6. PreparedIsStored'
      BY <2>1, ActorsDiffer DEF IInv, TypeOK, Actors, PreparedIsStored, Kept, Stored,
         BytesLostOnlyToReap, Relying
    <2> QED BY <2>2, <2>3, <2>4, <2>5, <2>6 DEF IInv
  <1> QED BY <1>1, <1>2

LEMMA DeleteReapedPreserves ==
  ASSUME IInv, NEW a \in Reapers, DeleteReaped(a)
  PROVE  IInv'
  <1>1. a \in Actors /\ pc[a] = "recheck" /\ lock["canonical"] = a /\ Unregistered
        /\ UNCHANGED <<registry, last_used, executions, target>>
    BY DEF DeleteReaped, Actors, IInv, LocksAreHeld, ReapsAreAlone
  <1>2. CASE object' = "absent" /\ Goto(a, "tombstone") /\ UNCHANGED lock
    <2>1. pc' = [pc EXCEPT ![a] = "tombstone"]
      BY <1>2 DEF Goto
    <2>2. TypeOK'
      BY <1>1, <1>2, <2>1 DEF IInv, TypeOK
    <2>3. LocksAreHeld'
      BY <1>1, <1>2, <2>1, ActorsDiffer DEF IInv, TypeOK, LocksAreHeld, Actors
    <2>4. RegistrationsAreAlone' /\ PurgesAreAlone' /\ ReapsAreAlone'
      BY <1>1, <2>1, ActorsDiffer DEF IInv, TypeOK, RegistrationsAreAlone, PurgesAreAlone,
         ReapsAreAlone, Actors, Unregistered, Attached, OldAndTerminal, Other
    <2>5. RowsCoverExecutions' /\ LiveIsRegistered'
      BY <1>1 DEF IInv, RowsCoverExecutions, LiveIsRegistered, Relying
    <2>6. PreparedIsStored'
      <3>1. \E b \in Reapers : pc'[b] = "tombstone"
        BY <1>1, <2>1 DEF IInv, TypeOK
      <3>2. \A p \in Producers : pc'[p] # "attach"
        BY <1>1, <2>1, ReaperIsAlone, ActorsDiffer DEF IInv, TypeOK, Actors
      <3>3. BytesLostOnlyToReap'
        BY <1>1 DEF BytesLostOnlyToReap, Unregistered, Attached, Relying, Kept
      <3> QED BY <3>1, <3>2, <3>3 DEF PreparedIsStored
    <2> QED BY <2>2, <2>3, <2>4, <2>5, <2>6 DEF IInv
  <1>3. CASE EndTransaction(a) /\ (object' = object \/ object' = "taken")
    BY <1>1, <1>3, RollbackPreserves, ActorsDiffer
  <1> QED BY <1>2, <1>3 DEF DeleteReaped

LEMMA CommitReapPreserves ==
  ASSUME IInv, NEW a \in Reapers, CommitReap(a)
  PROVE  IInv'
  <1>1. a \in Actors /\ pc[a] = "tombstone" /\ lock["canonical"] = a /\ Unregistered
        /\ registry' = [registry EXCEPT !["canonical"] = "PURGED"]
        /\ last_used' = [last_used EXCEPT !["canonical"] = "old"]
        /\ UNCHANGED <<object, executions, target>>
    BY DEF CommitReap, Actors, IInv, LocksAreHeld, ReapsAreAlone
  <1>2. /\ lock' \in [Spellings -> Actors \cup {None}]
        /\ pc' = [pc EXCEPT ![a] = "idle"]
        /\ \A s \in Spellings : \A b \in Actors : b # a => (lock[s] = b => lock'[s] = b)
    BY <1>1, EndTransactionStep DEF IInv, CommitReap
  <1>3. /\ \A p \in Producers : pc[p] \notin {"restore", "attach"}
        /\ \A b \in Purgers : pc[b] \notin {"delete", "tombstone"}
        /\ \A b \in Reapers \ {a} : pc[b] \notin {"recheck", "tombstone"}
    BY <1>1, ReaperIsAlone
  <1>4. TypeOK'
    BY <1>1, <1>2 DEF IInv, TypeOK, RowState, Spellings
  <1>5. LocksAreHeld'
    BY <1>1, <1>2, ActorsDiffer DEF IInv, TypeOK, LocksAreHeld, Actors, Spellings
  <1>6. RegistrationsAreAlone' /\ PurgesAreAlone' /\ ReapsAreAlone'
    BY <1>2, <1>3, ActorsDiffer DEF IInv, TypeOK, RegistrationsAreAlone, PurgesAreAlone,
       ReapsAreAlone, Actors
  <1>7. RowsCoverExecutions' /\ LiveIsRegistered'
    BY <1>1 DEF Unregistered, Attached, RowsCoverExecutions, LiveIsRegistered, Relying
  <1>8. PreparedIsStored'
    <2>1. registry' # [s \in Spellings |-> None]
      BY <1>1, NoneIsNobody DEF IInv, TypeOK, Spellings
    <2>2. \A p \in Producers : pc'[p] # "attach"
      BY <1>2, <1>3, ActorsDiffer DEF IInv, TypeOK, Actors
    <2>3. BytesLostOnlyToReap'
      BY <1>1 DEF BytesLostOnlyToReap, Unregistered, Attached, Relying, Kept
    <2> QED BY <2>1, <2>2, <2>3 DEF PreparedIsStored
  <1> QED BY <1>4, <1>5, <1>6, <1>7, <1>8 DEF IInv

\* Executions finish, are retried, release their request and age, and time
\* passes; nothing a purger or a reaper has locked changes.
LEMMA ExecutionStepPreserves ==
  ASSUME IInv, NEW e \in Executions,
         Finish(e) \/ Retry(e) \/ Release(e) \/ ExecutionAges(e)
  PROVE  IInv'
  <1>1. /\ UNCHANGED <<object, registry, last_used, lock, pc, target>>
        /\ executions' \in [Executions -> Execution]
        /\ \A f \in Executions \ {e} : executions'[f] = executions[f]
        /\ executions'[e].reference \in {executions[e].reference, None}
        /\ executions'[e].state = "live" /\ executions'[e].fresh =>
              executions[e].state = "live" /\ executions[e].fresh
    <2>1. CASE Finish(e) \/ ExecutionAges(e)
      BY <2>1 DEF Finish, ExecutionAges, IInv, TypeOK, Execution
    <2>2. CASE Retry(e)
      <3>1. executions[e] \in Execution /\ Retried(executions[e]) \in Execution
        BY DEF IInv, TypeOK, Retried, Execution
      <3>2. /\ Retried(executions[e]).reference \in {executions[e].reference, None}
            /\ ~Retried(executions[e]).fresh
        BY DEF Retried
      <3> QED BY <2>2, <3>1, <3>2 DEF Retry, IInv, TypeOK
    <2>3. CASE Release(e)
      BY <2>3 DEF Release, IInv, TypeOK, Execution
    <2> QED BY <2>1, <2>2, <2>3
  <1>2. TypeOK' /\ LocksAreHeld' /\ RegistrationsAreAlone'
    BY <1>1 DEF IInv, TypeOK, LocksAreHeld, RegistrationsAreAlone
  <1>3. ASSUME NEW a \in Purgers, pc[a] \in {"delete", "tombstone"},
               executions'[e].reference = target[a]
        PROVE  executions'[e].state = "ended_old"
    <2>1. executions[e].reference = target[a] /\ executions[e].state = "ended_old"
      BY <1>1, <1>3, NoneIsNobody DEF IInv, PurgesAreAlone, OldAndTerminal, TypeOK, Spellings
    <2>2. LockedByPurge(e)
      BY <1>3, <2>1 DEF LockedByPurge
    <2> QED BY <2>1, <2>2 DEF Finish, Retry, Release, ExecutionAges
  <1>4. PurgesAreAlone'
    BY <1>1, <1>3 DEF IInv, PurgesAreAlone, OldAndTerminal, Other
  <1>5. ReapsAreAlone'
    BY <1>1 DEF IInv, ReapsAreAlone, Unregistered, Attached
  <1>6. RowsCoverExecutions' /\ LiveIsRegistered'
    BY <1>1 DEF IInv, RowsCoverExecutions, LiveIsRegistered, Relying
  <1>7. PreparedIsStored'
    BY <1>1 DEF IInv, PreparedIsStored, BytesLostOnlyToReap, Stored, Relying, Kept
  <1> QED BY <1>2, <1>4, <1>5, <1>6, <1>7 DEF IInv

LEMMA TimePreserves ==
  ASSUME IInv, ObjectAges \/ \E s \in Spellings : RowAges(s)
  PROVE  IInv'
  <1>1. /\ UNCHANGED <<registry, executions, lock, pc, target>>
        /\ object' \in {"absent", "taken", "recent", "old"} /\ Kept' = Kept
        /\ last_used' \in [Spellings -> {"recent", "old"}]
    BY DEF ObjectAges, RowAges, Kept, Stored, IInv, TypeOK
  <1> QED BY <1>1 DEF IInv, TypeOK, LocksAreHeld, RowsCoverExecutions, RegistrationsAreAlone,
             PurgesAreAlone, ReapsAreAlone, LiveIsRegistered, PreparedIsStored,
             BytesLostOnlyToReap, Unregistered, Attached, OldAndTerminal, Other, Relying, Kept

LEMMA NextPreserves == IInv /\ [Next]_vars => IInv'
  <1> SUFFICES ASSUME IInv, [Next]_vars PROVE IInv'
    OBVIOUS
  <1>1. CASE UNCHANGED vars
    BY <1>1 DEF vars, IInv, TypeOK, LocksAreHeld, RowsCoverExecutions, RegistrationsAreAlone,
       PurgesAreAlone, ReapsAreAlone, LiveIsRegistered, PreparedIsStored,
       BytesLostOnlyToReap, Unregistered, Attached, OldAndTerminal, Other, Stored, Relying, Kept
  <1>2. ASSUME NEW p \in Producers,
               \/ Prepare(p) \/ \E s \in Spellings : BeginRegistration(p, s)
               \/ RestorePayload(p) \/ Attach(p) \/ AbandonRegistration(p)
        PROVE  IInv'
    <2>1. CASE AbandonRegistration(p)
      BY <2>1, RollbackPreserves, ActorsDiffer DEF AbandonRegistration, Actors
    <2> QED BY <1>2, <2>1, PreparePreserves, BeginRegistrationPreserves, RestorePreserves,
               AttachPreserves
  <1>3. ASSUME NEW a \in Purgers, \/ \E s \in Spellings : LockForPurge(a, s)
                                  \/ DeletePurged(a) \/ CommitPurge(a) \/ AbandonPurge(a)
        PROVE  IInv'
    <2>1. CASE AbandonPurge(a)
      BY <2>1, RollbackPreserves, ActorsDiffer DEF AbandonPurge, Actors
    <2> QED BY <1>3, <2>1, LockForPurgePreserves, DeletePurgedPreserves, CommitPurgePreserves
  <1>4. ASSUME NEW a \in Reapers, \/ Discover(a) \/ Verify(a) \/ InsertTombstone(a)
                                  \/ DeleteReaped(a) \/ CommitReap(a) \/ AbandonReap(a)
        PROVE  IInv'
    <2>1. CASE AbandonReap(a)
      <3>1. object' = object \/ object' = "taken"
        BY <2>1 DEF AbandonReap
      <3>2. pc[a] = "tombstone" => Kept'
        BY <2>1 DEF AbandonReap, Kept, Stored
      <3> QED BY <2>1, <3>1, <3>2, RollbackPreserves DEF AbandonReap, Actors
    <2>2. CASE Discover(a) \/ Verify(a)
      BY <2>2, ReaperMoves DEF Discover, Verify
    <2> QED BY <1>4, <2>1, <2>2, InsertTombstonePreserves, DeleteReapedPreserves,
               CommitReapPreserves
  <1> QED BY <1>1, <1>2, <1>3, <1>4, ExecutionStepPreserves, TimePreserves DEF Next

-----------------------------------------------------------------------------
(***************************************************************************)
(* Results.                                                                *)
(***************************************************************************)

\* The invariant holds in every behaviour.
THEOREM Inductive == Spec => []IInv
  BY InitEstablishes, NextPreserves, PTL DEF Spec

\* Rows, locks and processes keep their types.
THEOREM TypeCorrect == Spec => []TypeOK
  <1>1. IInv => TypeOK
    BY DEF IInv
  <1> QED BY <1>1, Inductive, PTL

\* The registry row of an execution that was not retried is ACTIVE under the
\* spelling it holds (register_task_input against purge and reaping).
THEOREM RegisteredTheorem == Spec => []LiveIsRegistered
  <1>1. IInv => LiveIsRegistered
    BY DEF IInv
  <1> QED BY <1>1, Inductive, PTL

\* Whatever purges and reaps lose or roll back, an execution finds the bytes it was
\* committed with, unless a reap deleted them and lost its tombstone
\* (register_task_input, register_and_attach_ray_job_request against both).
THEOREM BytesTheorem == Spec => []BytesLostOnlyToReap
  <1>1. IInv => BytesLostOnlyToReap
    BY DEF IInv, PreparedIsStored
  <1> QED BY <1>1, Inductive, PTL

\* No delete hits a live execution, retried or not, under either spelling, and
\* whatever fails.
THEOREM DeletesTheorem == Spec => DeletesOnlyUnused
  <1> DEFINE Unused ==
        Stored /\ ~Stored' =>
          \A e \in Executions : executions[e].reference # None => executions[e].state # "live"
  <1>1. IInv /\ [Next]_vars => [Unused]_vars
    <2> SUFFICES ASSUME IInv, Next, Stored, ~Stored',
                        NEW e \in Executions, executions[e].reference # None
                 PROVE  executions[e].state # "live"
      BY DEF vars
    <2>1. \/ \E a \in Purgers : DeletePurged(a)
          \/ \E a \in Reapers : DeleteReaped(a)
      <3>1. object' # object
        BY DEF Stored
      <3>2. ~StorePayload
        BY DEF StorePayload, Stored
      <3>3. ~ObjectAges /\ \A a \in Reapers : ~AbandonReap(a)
        BY DEF ObjectAges, AbandonReap, Stored
      <3> QED BY <3>1, <3>2, <3>3 DEF Next, Prepare, BeginRegistration, RestorePayload, Attach,
                 AbandonRegistration, LockForPurge, CommitPurge, AbandonPurge, Discover,
                 Verify, InsertTombstone, CommitReap, Finish, Retry, Release,
                 ExecutionAges, RowAges
    <2>2. CASE \E a \in Purgers : DeletePurged(a)
      BY <2>2, PurgerIsAlone DEF DeletePurged, OldAndTerminal
    <2>3. CASE \E a \in Reapers : DeleteReaped(a)
      BY <2>3 DEF DeleteReaped, IInv, ReapsAreAlone, Unregistered, Attached
    <2> QED BY <2>1, <2>2, <2>3
  <1> QED BY <1>1, Inductive, PTL DEF Spec, DeletesOnlyUnused
=============================================================================
