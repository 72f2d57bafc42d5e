------------------------ MODULE WorkflowProgressProofs ------------------------
(***************************************************************************)
(* Proofs about WorkflowProgress, for every number of runs and attempts,   *)
(* every set of topologies and every limit.                                *)
(*                                                                         *)
(* A run belongs to the attempt it was allocated in and only that attempt, *)
(* while it is RUNNING and the run is its current one, publishes detail    *)
(* (Identities).  So the detail of a run only grows until the run is over, *)
(* and then stays as it is until its deadline takes it (Backed, Walking).  *)
(***************************************************************************)
EXTENDS WorkflowProgress, FiniteSetTheorems, WellFoundedInduction, TLAPS

-----------------------------------------------------------------------------
(***************************************************************************)
(* The inductive invariant.                                                *)
(***************************************************************************)
RunIds == Runs \cup {0}
Attempts == 1..MaxAttempt

\* Node details by node.
Rows == UNION {[D -> NodeState] : D \in SUBSET Nodes}

SummaryState == {"NONE", "RUNNING"} \cup Terminal

Summary ==
    [run : RunIds, rev : Nat, state : SummaryState, topology : Nat, detail : Nat, count : Int,
     running : Int, succeeded : Int, complete : BOOLEAN, lastObserved : BOOLEAN, finished : Nat, expires : Nat]

TaskRow ==
    [state : {"QUEUED", "RUNNING", "CANCELLING"} \cup Terminal, attempt : Attempts, run : RunIds,
     summary : Summary, finished : Nat]

StorageRow ==
    [exists : BOOLEAN, detail : Nat, rows : Rows, count : Int, bytes : Int,
     running : Int, succeeded : Int, expires : Nat, current : Nat, pending : Nat, pages : SUBSET Nodes]

CoordinatorState ==
    [pc : {"idle", "checked", "writing", "staged", "open", "discard", "fallback", "closed"},
     version : Nat, rev : Nat]

CleanerState ==
    [class : {"none", "expired", "pending", "pages", "empty"}, batch : SUBSET (Runs \X Nat)]

ReaderState ==
    [attempt : Attempts \cup {0}, run : RunIds, rev : Nat, topology : Nat, detail : Nat, got : Rows]

TaskTypes == exec \in TaskRow /\ archive \in [Attempts -> Summary]
RunTypes == sequence \in RunIds /\ owner \in [Runs -> Attempts \cup {0}]
StorageTypes == storage \in [Runs -> StorageRow]
ProcessTypes ==
    /\ coord \in [Runs -> CoordinatorState]
    /\ cleaner \in CleanerState
    /\ cleaner.batch # {} => cleaner.class # "none"
    /\ reader \in ReaderState

TypeOK == TaskTypes /\ RunTypes /\ StorageTypes /\ ProcessTypes /\ clock \in Nat \ {0}

\* A coordinator past its first check has a version of the run's plan.
VersionKnown(r) ==
    coord[r].pc \in {"checked", "writing", "staged", "open", "discard"} =>
        coord[r].version \in Versions(r)

\* The aggregates of AggregatesMatchRows, of one storage row.
Counted(s) ==
    /\ s.count = Cardinality(DOMAIN s.rows) /\ s.count <= MaxItems
    /\ s.running = Running(s.rows) /\ s.succeeded = Succeeded(s.rows)
    /\ s.bytes = Bytes(s.rows) /\ s.bytes <= MaxBytes

\* The nodes of version v, none for version 0.
NodesOf(r, v) == IF v = 0 THEN {} ELSE Topologies[r][v]

\* A storage row of run r: its versions are of the run's plan, its aggregates match
\* its rows, which are of the current topology, and what it links is stored.
GoodRow(r, s) ==
    /\ s.current \in Versions(r) \cup {0} /\ s.pending \in Versions(r) \cup {0}
    /\ Counted(s)
    /\ DOMAIN s.rows \subseteq NodesOf(r, s.current)
    /\ NodesOf(r, s.current) \cup NodesOf(r, s.pending) \subseteq s.pages
    /\ ~s.exists => s.detail = 0

\* Whose a run is, and whose the summaries are.
Identities ==
    /\ exec.run # 0 => owner[exec.run] = exec.attempt
    /\ exec.state = "QUEUED" => exec.run = 0
    /\ exec.summary.run \in {0, exec.run}
    /\ exec.summary.run = 0 => exec.summary = NoSummary
    /\ \A r \in Runs : owner[r] # 0 <=> r <= sequence
    /\ \A r \in Runs : storage[r].detail # 0 => owner[r] # 0

\* The archive has the ended attempts: those before this one, and this one once
\* it has ended.
Archived ==
    /\ \A a \in Attempts :
          /\ archive[a].run = 0 => archive[a] = NoSummary
          /\ archive[a].run # 0 => owner[archive[a].run] = a
          /\ a > exec.attempt => archive[a] = NoSummary
    /\ archive[exec.attempt] = IF exec.state \in Terminal THEN exec.summary ELSE NoSummary

\* The summary of an ended attempt carries its outcome, no earlier than its end.
Settled ==
    exec.state \in Terminal =>
        /\ exec.finished # 0
        /\ exec.summary.run # 0 =>
              /\ exec.summary.state = exec.state
              /\ exec.summary.detail = 0 \/ exec.finished <= exec.summary.finished

HasDeadline(sum) == sum.state \in Terminal /\ sum.detail # 0 => sum.expires # 0

Over(a) == a # exec.attempt \/ exec.state \in Terminal

\* A summary that reports success has no node running, and one whose terminal states
\* were not reported is not complete.
Coherent(sum) ==
    (sum.state = "SUCCEEDED" => sum.running = 0) /\ (sum.lastObserved => ~sum.complete)

\* The detail a summary points at is there, or was taken after its deadline.
Present(sum) ==
    /\ EpochPresent(sum) /\ EpochConsistent(sum) /\ Coherent(sum)
    /\ storage[sum.run].expires = sum.expires
Gone(sum) == storage[sum.run].detail = 0 /\ sum.expires # 0 /\ sum.expires <= clock

Backed(a) ==
    LET sum == ReadSummary(a)
    IN /\ HasDeadline(sum)
       /\ sum.detail # 0 => sum.run # 0 /\ (Present(sum) \/ (Gone(sum) /\ Over(a)))

\* The rows a walk has got come before all others of the run.
Initial(got, rows) ==
    /\ DOMAIN got \subseteq DOMAIN rows
    /\ \A n \in DOMAIN got : got[n] = rows[n]
    /\ \A n \in DOMAIN got, m \in DOMAIN rows \ DOMAIN got : n < m

\* What a reader has got is of the publication its cursor names, as long as there
\* is one; if that is gone, no other will take its place.
Walking ==
    LET s == storage[reader.run] IN
    /\ reader.attempt = 0 => reader = NoCursor
    /\ reader.attempt # 0 =>
          /\ reader.run # 0 /\ reader.run <= sequence /\ reader.detail # 0
          /\ s.detail = reader.detail => Initial(reader.got, s.rows)
          /\ s.detail < reader.detail => exec.run # reader.run \/ exec.state \in Terminal

RowsInv == TypeOK /\ \A r \in Runs : VersionKnown(r) /\ GoodRow(r, storage[r])
SummaryInv == Identities /\ Archived /\ Settled /\ \A a \in Attempts : Backed(a)
Inv == RowsInv /\ SummaryInv /\ StaleDetailHasDeadline /\ Walking

-----------------------------------------------------------------------------
(***************************************************************************)
(* Induction and recursion over the natural numbers, stated for sets and   *)
(* functions.                                                              *)
(***************************************************************************)
LEMMA NatSetInduction ==
  ASSUME NEW T \in SUBSET Nat, 0 \in T, \A n \in T : n + 1 \in T
  PROVE  T = Nat
  <1>1. ASSUME Nat \ T # {} PROVE FALSE
    <2>1. IsWellFoundedOn(OpToRel(<, Nat), Nat)
      BY NatLessThanWellFounded
    <2>2. PICK n \in Nat \ T : \A m \in Nat \ T : ~(<<m, n>> \in OpToRel(<, Nat))
      BY <1>1, <2>1, WFMin
    <2>3. n # 0
      OBVIOUS
    <2>4. n - 1 \in Nat /\ (n - 1) + 1 = n /\ n - 1 < n
      BY <2>3
    <2>5. <<n - 1, n>> \in OpToRel(<, Nat)
      BY <2>4 DEF OpToRel
    <2>6. n - 1 \in T
      BY <2>2, <2>4, <2>5
    <2> QED BY <2>4, <2>6
  <1> QED BY <1>1

\* The beginnings, up to n, of the function that starts with a and goes on with
\* step.
Beginnings(S, a, step, n) ==
    {g \in [0..n -> S] : g[0] = a /\ \A i \in 1..n : g[i] = step[i][g[i - 1]]}

LEMMA BeginningsExist ==
  ASSUME NEW S, NEW a \in S, NEW step \in [Nat -> [S -> S]], NEW n \in Nat
  PROVE  Beginnings(S, a, step, n) # {}
  <1> DEFINE T == {m \in Nat : Beginnings(S, a, step, m) # {}}
  <1>1. 0 \in T
    <2>1. [i \in 0..0 |-> a] \in Beginnings(S, a, step, 0)
      BY DEF Beginnings
    <2> QED BY <2>1
  <1>2. ASSUME NEW m \in T PROVE m + 1 \in T
    <2>0. m \in Nat
      OBVIOUS
    <2>1. PICK g : g \in Beginnings(S, a, step, m)
      OBVIOUS
    <2> DEFINE h == [i \in 0..(m + 1) |-> IF i = m + 1 THEN step[m + 1][g[m]] ELSE g[i]]
    <2>2. g \in [0..m -> S] /\ g[0] = a /\ \A i \in 1..m : g[i] = step[i][g[i - 1]]
      BY <2>1 DEF Beginnings
    <2>3. step[m + 1][g[m]] \in S
      <3>1. m \in 0..m /\ m + 1 \in Nat
        BY <2>0
      <3> QED BY <2>2, <3>1
    <2>4. h \in [0..(m + 1) -> S]
      <3>1. ASSUME NEW i \in 0..(m + 1) PROVE h[i] \in S
        <4>1. CASE i = m + 1
          BY <2>3, <4>1
        <4>2. CASE i # m + 1
          <5>1. i \in 0..m
            BY <2>0, <4>2
          <5> QED BY <2>2, <4>2, <5>1
        <4> QED BY <4>1, <4>2
      <3> QED BY <3>1
    <2>5. h[0] = a
      BY <2>0, <2>2
    <2>6. ASSUME NEW i \in 1..(m + 1) PROVE h[i] = step[i][h[i - 1]]
      <3>1. h[i - 1] = g[i - 1]
        BY <2>0
      <3>2. CASE i = m + 1
        BY <2>0, <3>1, <3>2
      <3>3. CASE i # m + 1
        <4>1. i \in 1..m /\ i \in 0..(m + 1)
          BY <2>0, <3>3
        <4> QED BY <2>2, <3>1, <3>3, <4>1
      <3> QED BY <3>2, <3>3
    <2>7. h \in Beginnings(S, a, step, m + 1)
      BY <2>4, <2>5, <2>6 DEF Beginnings
    <2> QED BY <2>0, <2>7
  <1>3. T = Nat
    <2> HIDE DEF T
    <2>1. T \in SUBSET Nat
      BY DEF T
    <2> QED BY <1>1, <1>2, <2>1, NatSetInduction
  <1> QED BY <1>3

LEMMA BeginningsAgree ==
  ASSUME NEW S, NEW a, NEW step, NEW m \in Nat, NEW n \in Nat,
         NEW g \in Beginnings(S, a, step, m), NEW h \in Beginnings(S, a, step, n),
         NEW k \in Nat, k <= m, k <= n
  PROVE  g[k] = h[k]
  <1> DEFINE T == {i \in Nat : i <= m /\ i <= n => g[i] = h[i]}
  <1>1. 0 \in T
    BY DEF Beginnings
  <1>2. ASSUME NEW i \in T PROVE i + 1 \in T
    <2>1. i \in Nat /\ i + 1 \in Nat /\ (i + 1) - 1 = i
      OBVIOUS
    <2>2. SUFFICES ASSUME i + 1 <= m, i + 1 <= n PROVE g[i + 1] = h[i + 1]
      BY <2>1
    <2>3. i + 1 \in 1..m /\ i + 1 \in 1..n /\ i <= m /\ i <= n
      BY <2>1, <2>2
    <2>4. g[i] = h[i]
      BY <2>3
    <2>5. g[i + 1] = step[i + 1][g[i]] /\ h[i + 1] = step[i + 1][h[i]]
      BY <2>1, <2>3 DEF Beginnings
    <2> QED BY <2>4, <2>5
  <1>3. T = Nat
    <2> HIDE DEF T
    <2>1. T \in SUBSET Nat
      BY DEF T
    <2> QED BY <1>1, <1>2, <2>1, NatSetInduction
  <1> QED BY <1>3

Recurses(f, a, step) == f = [n \in Nat |-> IF n = 0 THEN a ELSE step[n][f[n - 1]]]

\* A function can be defined by recursion over the natural numbers.
LEMMA RecursionOverNat ==
  ASSUME NEW S, NEW a \in S, NEW step \in [Nat -> [S -> S]]
  PROVE  \E f \in [Nat -> S] : Recurses(f, a, step)
  <1> DEFINE begin == [n \in Nat |-> CHOOSE g : g \in Beginnings(S, a, step, n)]
             f == [n \in Nat |-> begin[n][n]]
  <1>1. ASSUME NEW n \in Nat PROVE begin[n] \in Beginnings(S, a, step, n)
    BY BeginningsExist
  <1> HIDE DEF begin
  <1>2. ASSUME NEW n \in Nat
        PROVE  /\ begin[n][n] \in S
               /\ begin[n][n] = IF n = 0 THEN a ELSE step[n][f[n - 1]]
    <2>1. begin[n] \in [0..n -> S] /\ begin[n][0] = a
      BY <1>1 DEF Beginnings
    <2>2. begin[n][n] \in S
      BY <2>1
    <2>3. CASE n = 0
      BY <2>1, <2>2, <2>3
    <2>4. CASE n # 0
      <3>1. n - 1 \in Nat /\ n \in 1..n /\ n - 1 <= n /\ n - 1 <= n - 1
        BY <2>4
      <3>2. begin[n][n] = step[n][begin[n][n - 1]]
        BY <1>1, <3>1 DEF Beginnings
      <3>3. begin[n][n - 1] = begin[n - 1][n - 1]
        BY <1>1, <3>1, BeginningsAgree
      <3> QED BY <2>2, <2>4, <3>1, <3>2, <3>3
    <2> QED BY <2>3, <2>4
  <1>3. f \in [Nat -> S]
    BY <1>2
  <1>4. Recurses(f, a, step)
    BY <1>2 DEF Recurses
  <1> QED BY <1>3, <1>4

-----------------------------------------------------------------------------
(***************************************************************************)
(* Node details and their aggregates.                                      *)
(***************************************************************************)
LEMMA Constants ==
  /\ MaxRun \in Nat /\ MaxAttempt \in Nat \ {0} /\ RetentionDays \in Nat
  /\ MaxItems \in Nat /\ MaxBytes \in Nat /\ Runs \in SUBSET (Nat \ {0})
  /\ Attempts \in SUBSET (Nat \ {0}) /\ RunIds \in SUBSET Nat /\ 0 \notin Runs /\ 0 \notin Attempts
  /\ \A r \in Runs : Versions(r) \subseteq Nat \ {0}
  /\ IsFiniteSet(Nodes) /\ Nodes \in SUBSET Nat /\ Cardinality(Nodes) \in Nat
  /\ Outcomes \subseteq {"SUCCEEDED", "FAILED"}
  <1>1. Runs \in SUBSET (Nat \ {0}) /\ Attempts \in SUBSET (Nat \ {0}) /\ RunIds \in SUBSET Nat
    BY WorkflowProgressAssumption DEF Runs, Attempts, RunIds
  <1>2. IsFiniteSet(Nodes) /\ Nodes = 1..Cardinality(Nodes)
    BY WorkflowProgressAssumption
  <1>3. Cardinality(Nodes) \in Nat
    BY <1>2, FS_CardinalityType
  <1>4. Nodes \in SUBSET Nat
    <2> DEFINE k == Cardinality(Nodes)
    <2>1. k \in Nat => 1..k \subseteq Nat
      OBVIOUS
    <2> QED BY <1>2, <1>3, <2>1
  <1> QED BY <1>1, <1>2, <1>3, <1>4, WorkflowProgressAssumption

LEMMA RowsFacts ==
  ASSUME NEW rows \in Rows
  PROVE  /\ DOMAIN rows \in SUBSET Nodes /\ rows \in [DOMAIN rows -> NodeState]
         /\ IsFiniteSet(DOMAIN rows) /\ Cardinality(DOMAIN rows) \in Nat
  <1>1. DOMAIN rows \in SUBSET Nodes /\ rows \in [DOMAIN rows -> NodeState]
    BY DEF Rows
  <1> QED BY <1>1, Constants, FS_Subset, FS_CardinalityType

LEMMA RowsIntro ==
  ASSUME NEW D \in SUBSET Nodes, NEW rows \in [D -> NodeState]
  PROVE  rows \in Rows /\ DOMAIN rows = D
  BY DEF Rows

LEMMA SucceededType ==
  ASSUME NEW rows \in Rows
  PROVE  /\ IsFiniteSet({n \in DOMAIN rows : rows[n] = "SUCCEEDED"})
         /\ Succeeded(rows) \in Nat /\ Succeeded(rows) <= Cardinality(DOMAIN rows)
         /\ Bytes(rows) \in Nat /\ Bytes(rows) = Cardinality(DOMAIN rows) + Succeeded(rows)
  <1> DEFINE done == {n \in DOMAIN rows : rows[n] = "SUCCEEDED"}
  <1>1. done \in SUBSET DOMAIN rows
    OBVIOUS
  <1>2. IsFiniteSet(done) /\ Cardinality(done) \in Nat /\ Cardinality(done) <= Cardinality(DOMAIN rows)
    BY <1>1, RowsFacts, FS_Subset, FS_CardinalityType
  <1>3. Succeeded(rows) = Cardinality(done)
    BY DEF Succeeded
  <1>4. Cardinality(DOMAIN rows) \in Nat
    BY RowsFacts
  <1> QED BY <1>2, <1>3, <1>4 DEF Bytes

\* A node that has not succeeded is running.
LEMMA RunningType ==
  ASSUME NEW rows \in Rows
  PROVE  Running(rows) = Cardinality(DOMAIN rows) - Succeeded(rows) /\ Running(rows) \in Nat
  <1> DEFINE done == {n \in DOMAIN rows : rows[n] = "SUCCEEDED"}
             open == {n \in DOMAIN rows : rows[n] = "RUNNING"}
  <1>1. rows \in [DOMAIN rows -> NodeState] /\ IsFiniteSet(DOMAIN rows)
    BY RowsFacts
  <1>2. open = DOMAIN rows \ done /\ DOMAIN rows \cap done = done
    BY <1>1 DEF NodeState
  <1>3. Cardinality(DOMAIN rows \ done) = Cardinality(DOMAIN rows) - Cardinality(DOMAIN rows \cap done)
    BY <1>1, FS_Difference
  <1>4. Running(rows) = Cardinality(open) /\ Succeeded(rows) = Cardinality(done)
    BY DEF Running, Succeeded
  <1>5. Cardinality(DOMAIN rows) \in Nat /\ Succeeded(rows) \in Nat /\ Succeeded(rows) <= Cardinality(DOMAIN rows)
    BY RowsFacts, SucceededType
  <1> HIDE DEF done, open
  <1> QED BY <1>2, <1>3, <1>4, <1>5

\* The rows outside of some nodes and the rows of these nodes make up the whole.
LEMMA SplitRows ==
  ASSUME NEW rows \in Rows, NEW nodes
  PROVE  LET kept == [n \in DOMAIN rows \ nodes |-> rows[n]]
             gone == [n \in DOMAIN rows \cap nodes |-> rows[n]]
         IN /\ kept \in Rows /\ DOMAIN kept = DOMAIN rows \ nodes
            /\ gone \in Rows
            /\ Cardinality(DOMAIN kept) = Cardinality(DOMAIN rows) - Cardinality(DOMAIN gone)
            /\ Succeeded(kept) = Succeeded(rows) - Succeeded(gone)
            /\ Running(kept) = Running(rows) - Running(gone)
            /\ Bytes(kept) = Bytes(rows) - Bytes(gone)
  <1> DEFINE kept == [n \in DOMAIN rows \ nodes |-> rows[n]]
             gone == [n \in DOMAIN rows \cap nodes |-> rows[n]]
             Done(f) == {n \in DOMAIN f : f[n] = "SUCCEEDED"}
  <1>1. rows \in [DOMAIN rows -> NodeState] /\ DOMAIN rows \in SUBSET Nodes
    BY RowsFacts
  <1>2. kept \in [DOMAIN rows \ nodes -> NodeState] /\ gone \in [DOMAIN rows \cap nodes -> NodeState]
    BY <1>1
  <1>3. kept \in Rows /\ DOMAIN kept = DOMAIN rows \ nodes /\ gone \in Rows
    <2>1. DOMAIN rows \ nodes \in SUBSET Nodes /\ DOMAIN rows \cap nodes \in SUBSET Nodes
      BY <1>1
    <2> QED BY <1>2, <2>1, RowsIntro
  <1>4. Cardinality(DOMAIN kept) = Cardinality(DOMAIN rows) - Cardinality(DOMAIN gone)
    BY <1>3, RowsFacts, FS_Difference
  <1>5. Done(kept) = Done(rows) \ nodes /\ Done(gone) = Done(rows) \cap nodes
    OBVIOUS
  <1>6. IsFiniteSet(Done(rows))
    BY SucceededType
  <1>7. Cardinality(Done(rows) \ nodes) = Cardinality(Done(rows)) - Cardinality(Done(rows) \cap nodes)
    BY <1>6, FS_Difference
  <1>8. Succeeded(kept) = Succeeded(rows) - Succeeded(gone)
    BY <1>5, <1>7 DEF Succeeded
  <1>9. Bytes(kept) = Bytes(rows) - Bytes(gone)
    <2> HIDE DEF kept, gone
    <2>1. /\ Cardinality(DOMAIN rows) \in Nat /\ Cardinality(DOMAIN gone) \in Nat
          /\ Succeeded(rows) \in Nat /\ Succeeded(gone) \in Nat
      BY <1>3, RowsFacts, SucceededType
    <2> QED BY <1>4, <1>8, <2>1 DEF Bytes
  <1>10. Running(kept) = Running(rows) - Running(gone)
    <2> HIDE DEF kept, gone
    <2>1. /\ Running(kept) = Cardinality(DOMAIN kept) - Succeeded(kept)
          /\ Running(rows) = Cardinality(DOMAIN rows) - Succeeded(rows)
          /\ Running(gone) = Cardinality(DOMAIN gone) - Succeeded(gone)
      BY <1>3, RunningType
    <2>2. /\ Cardinality(DOMAIN rows) \in Nat /\ Cardinality(DOMAIN gone) \in Nat
          /\ Succeeded(rows) \in Nat /\ Succeeded(gone) \in Nat
      BY <1>3, RowsFacts, SucceededType
    <2> QED BY <1>4, <1>8, <2>1, <2>2
  <1> QED BY <1>3, <1>4, <1>8, <1>9, <1>10

LEMMA AddRow ==
  ASSUME NEW rows \in Rows, NEW n \in Nodes \ DOMAIN rows, NEW state \in NodeState
  PROVE  LET more == [m \in DOMAIN rows \cup {n} |-> IF m = n THEN state ELSE rows[m]]
             one == IF state = "SUCCEEDED" THEN 1 ELSE 0
             open == IF state = "RUNNING" THEN 1 ELSE 0
         IN /\ more \in Rows /\ DOMAIN more = DOMAIN rows \cup {n}
            /\ Cardinality(DOMAIN more) = Cardinality(DOMAIN rows) + 1
            /\ Succeeded(more) = Succeeded(rows) + one
            /\ Running(more) = Running(rows) + open
            /\ Bytes(more) = Bytes(rows) + RecordSize(state)
  <1> DEFINE more == [m \in DOMAIN rows \cup {n} |-> IF m = n THEN state ELSE rows[m]]
             one == IF state = "SUCCEEDED" THEN 1 ELSE 0
             open == IF state = "RUNNING" THEN 1 ELSE 0
             Done(f) == {m \in DOMAIN f : f[m] = "SUCCEEDED"}
  <1>1. rows \in [DOMAIN rows -> NodeState] /\ DOMAIN rows \in SUBSET Nodes
    BY RowsFacts
  <1>2. more \in [DOMAIN rows \cup {n} -> NodeState]
    BY <1>1
  <1>3. more \in Rows /\ DOMAIN more = DOMAIN rows \cup {n}
    BY <1>1, <1>2, RowsIntro
  <1>4. Cardinality(DOMAIN more) = Cardinality(DOMAIN rows) + 1
    BY <1>3, RowsFacts, FS_AddElement
  <1>5. Done(more) = IF state = "SUCCEEDED" THEN Done(rows) \cup {n} ELSE Done(rows)
    OBVIOUS
  <1>6. IsFiniteSet(Done(rows)) /\ n \notin Done(rows)
    BY SucceededType
  <1>7. Cardinality(Done(rows) \cup {n}) = Cardinality(Done(rows)) + 1
    BY <1>6, FS_AddElement
  <1>8. Succeeded(more) = Succeeded(rows) + one
    <2>1. Succeeded(rows) \in Nat
      BY SucceededType
    <2>2. Succeeded(more) = Cardinality(Done(more)) /\ Succeeded(rows) = Cardinality(Done(rows))
      BY DEF Succeeded
    <2> HIDE DEF Done, more
    <2>3. CASE state = "SUCCEEDED"
      BY <1>5, <1>7, <2>2, <2>3
    <2>4. CASE state # "SUCCEEDED"
      BY <1>5, <2>1, <2>2, <2>4
    <2> QED BY <2>3, <2>4
  <1>9. Bytes(more) = Bytes(rows) + RecordSize(state)
    <2> HIDE DEF more
    <2>1. Cardinality(DOMAIN rows) \in Nat /\ Succeeded(rows) \in Nat
      BY RowsFacts, SucceededType
    <2> QED BY <1>4, <1>8, <2>1 DEF Bytes, RecordSize
  <1>10. Running(more) = Running(rows) + open
    <2> HIDE DEF more
    <2>1. /\ Running(more) = Cardinality(DOMAIN more) - Succeeded(more)
          /\ Running(rows) = Cardinality(DOMAIN rows) - Succeeded(rows)
      BY <1>3, RunningType
    <2>2. Cardinality(DOMAIN rows) \in Nat /\ Succeeded(rows) \in Nat
      BY RowsFacts, SucceededType
    <2>3. one + open = 1 /\ one \in Nat /\ open \in Nat
      BY DEF NodeState
    <2> HIDE DEF one, open
    <2> QED BY <1>4, <1>8, <2>1, <2>2, <2>3
  <1> QED BY <1>3, <1>4, <1>8, <1>9, <1>10

\* t has the rest of s: everything but rows and aggregates.
Rest(s, t) ==
    /\ t.exists = s.exists /\ t.detail = s.detail /\ t.expires = s.expires
    /\ t.current = s.current /\ t.pending = s.pending /\ t.pages = s.pages

LEMMA RestTransitive ==
  ASSUME NEW s, NEW t, NEW u, Rest(s, t), Rest(t, u)
  PROVE  Rest(s, u)
  BY DEF Rest

LEMMA DropRowsCounted ==
  ASSUME NEW s \in StorageRow, NEW nodes, Counted(s)
  PROVE  LET t == DropRows(s, nodes)
         IN /\ t \in StorageRow /\ Counted(t) /\ Rest(s, t)
            /\ t.rows = [n \in DOMAIN s.rows \ nodes |-> s.rows[n]]
            /\ DOMAIN t.rows = DOMAIN s.rows \ nodes
  <1> DEFINE kept == [n \in DOMAIN s.rows \ nodes |-> s.rows[n]]
             gone == [n \in DOMAIN s.rows \cap nodes |-> s.rows[n]]
             count == s.count - Cardinality(DOMAIN gone)
             bytes == s.bytes - Bytes(gone)
             running == s.running - Running(gone)
             succeeded == s.succeeded - Succeeded(gone)
             t == [s EXCEPT !.rows = kept, !.count = count, !.bytes = bytes, !.running = running,
                            !.succeeded = succeeded]
  <1>0. /\ s.rows \in Rows /\ s.count \in Int /\ s.bytes \in Int
        /\ s.running \in Int /\ s.succeeded \in Int
    BY DEF StorageRow
  <1>1. DropRows(s, nodes) = t
    BY DEF DropRows, StorageRow
  <1>2. /\ kept \in Rows /\ DOMAIN kept = DOMAIN s.rows \ nodes
        /\ gone \in Rows
        /\ Cardinality(DOMAIN kept) = Cardinality(DOMAIN s.rows) - Cardinality(DOMAIN gone)
        /\ Succeeded(kept) = Succeeded(s.rows) - Succeeded(gone)
        /\ Running(kept) = Running(s.rows) - Running(gone)
        /\ Bytes(kept) = Bytes(s.rows) - Bytes(gone)
    BY <1>0, SplitRows
  <1> HIDE DEF kept, gone
  <1>3. /\ Cardinality(DOMAIN gone) \in Nat /\ Running(gone) \in Nat
        /\ Succeeded(gone) \in Nat /\ Bytes(gone) \in Nat
    BY <1>2, RowsFacts, SucceededType, RunningType
  <1>4. count \in Int /\ bytes \in Int /\ running \in Int /\ succeeded \in Int
    BY <1>0, <1>3
  <1>5. /\ count = Cardinality(DOMAIN kept) /\ bytes = Bytes(kept)
        /\ running = Running(kept) /\ succeeded = Succeeded(kept)
    BY <1>2 DEF Counted
  <1>6. count <= MaxItems /\ bytes <= MaxBytes
    BY <1>0, <1>3, Constants DEF Counted
  <1> HIDE DEF count, bytes, running, succeeded
  <1>7. /\ t \in StorageRow /\ Rest(s, t)
        /\ t.rows = kept /\ t.count = count /\ t.bytes = bytes
        /\ t.running = running /\ t.succeeded = succeeded
    <2>1. t = [s EXCEPT !.rows = kept, !.count = count, !.bytes = bytes, !.running = running,
                        !.succeeded = succeeded]
      OBVIOUS
    <2> HIDE DEF t
    <2> QED BY <1>2, <1>4, <2>1 DEF StorageRow, Rest
  <1> HIDE DEF t
  <1>8. Counted(t)
    BY <1>5, <1>6, <1>7 DEF Counted
  <1> QED BY <1>1, <1>2, <1>7, <1>8 DEF kept

LEMMA AdmitCounted ==
  ASSUME NEW s \in StorageRow, NEW n \in Nodes, NEW state \in NodeState, Counted(s)
  PROVE  LET t == Admit(s, n, state)
         IN /\ t \in StorageRow /\ Counted(t) /\ Rest(s, t)
            /\ DOMAIN t.rows \subseteq DOMAIN s.rows \cup {n}
  <1> DEFINE base == DropRows(s, {n})
             bytes == base.bytes + RecordSize(state)
             one == IF state = "SUCCEEDED" THEN 1 ELSE 0
             open == IF state = "RUNNING" THEN 1 ELSE 0
             more == [m \in DOMAIN base.rows \cup {n} |-> IF m = n THEN state ELSE base.rows[m]]
             t == [base EXCEPT !.rows = more, !.count = base.count + 1, !.bytes = bytes,
                               !.running = base.running + open, !.succeeded = base.succeeded + one]
  <1>1. /\ base \in StorageRow /\ Counted(base) /\ Rest(s, base)
        /\ DOMAIN base.rows = DOMAIN s.rows \ {n}
    BY DropRowsCounted
  <1>2. /\ base.rows \in Rows /\ base.count \in Int /\ base.bytes \in Int
        /\ base.running \in Int /\ base.succeeded \in Int
        /\ RecordSize(state) \in Int /\ one \in Int /\ open \in Int
    BY <1>1 DEF StorageRow, RecordSize
  <1>3. CASE n \in DOMAIN s.rows /\ s.rows[n] = state
    <2>1. Admit(s, n, state) = s
      BY <1>3 DEF Admit
    <2> QED BY <2>1 DEF Rest
  <1>4. CASE ~(n \in DOMAIN s.rows /\ s.rows[n] = state) /\ (base.count + 1 > MaxItems \/ bytes > MaxBytes)
    <2>1. Admit(s, n, state) = base
      BY <1>4 DEF Admit
    <2> QED BY <1>1, <2>1
  <1>5. CASE /\ ~(n \in DOMAIN s.rows /\ s.rows[n] = state)
             /\ ~(base.count + 1 > MaxItems \/ bytes > MaxBytes)
    <2>0. Admit(s, n, state) = t
      BY <1>1, <1>5 DEF Admit, StorageRow
    <2> HIDE DEF base
    <2>1. n \in Nodes \ DOMAIN base.rows
      BY <1>1
    <2>2. /\ more \in Rows /\ DOMAIN more = DOMAIN base.rows \cup {n}
          /\ Cardinality(DOMAIN more) = Cardinality(DOMAIN base.rows) + 1
          /\ Succeeded(more) = Succeeded(base.rows) + one
          /\ Running(more) = Running(base.rows) + open
          /\ Bytes(more) = Bytes(base.rows) + RecordSize(state)
      BY <1>2, <2>1, AddRow
    <2> HIDE DEF more, one, open
    <2> DEFINE c == base.count + 1
               b == base.running + open
               d == base.succeeded + one
    <2>3. c \in Int /\ bytes \in Int /\ b \in Int /\ d \in Int
      BY <1>2
    <2>4. /\ c = Cardinality(DOMAIN more) /\ bytes = Bytes(more)
          /\ b = Running(more) /\ d = Succeeded(more)
      BY <1>1, <2>2 DEF Counted
    <2>5. c <= MaxItems /\ bytes <= MaxBytes
      BY <1>5, <2>3, Constants
    <2> HIDE DEF c, bytes, b, d
    <2>6. t = [base EXCEPT !.rows = more, !.count = c, !.bytes = bytes, !.running = b, !.succeeded = d]
      BY DEF c, b, d
    <2> HIDE DEF t
    <2>7. /\ t \in StorageRow /\ Rest(base, t)
          /\ t.rows = more /\ t.count = c /\ t.bytes = bytes
          /\ t.running = b /\ t.succeeded = d
      BY <1>1, <2>2, <2>3, <2>6 DEF StorageRow, Rest
    <2>8. Counted(t)
      BY <2>4, <2>5, <2>7 DEF Counted
    <2>9. Rest(s, t)
      BY <1>1, <2>7, RestTransitive
    <2> QED BY <1>1, <2>0, <2>2, <2>7, <2>8, <2>9
  <1> QED BY <1>3, <1>4, <1>5

\* Merging keeps aggregates and rows together, within the limits, and touches
\* nothing else; what is left are rows that stayed and records supplied.
LEMMA MergeCounted ==
  ASSUME NEW s \in StorageRow, Counted(s), NEW removals, NEW records \in Rows
  PROVE  LET t == Merge(s, removals, records)
         IN /\ t \in StorageRow /\ Counted(t) /\ Rest(s, t)
            /\ DOMAIN t.rows \subseteq (DOMAIN s.rows \ removals) \cup DOMAIN records
  <1> DEFINE D == (DOMAIN s.rows \ removals) \cup DOMAIN records
             S == {t \in StorageRow : Counted(t) /\ Rest(s, t) /\ DOMAIN t.rows \subseteq D}
             a == DropRows(s, removals)
             step == [n \in Nat |-> [t \in S |-> IF n \in DOMAIN records THEN Admit(t, n, records[n]) ELSE t]]
             merged[n \in Nat] ==
               IF n = 0 THEN DropRows(s, removals)
               ELSE IF n \in DOMAIN records THEN Admit(merged[n - 1], n, records[n])
               ELSE merged[n - 1]
  <1>1. Merge(s, removals, records) = merged[Cardinality(Nodes)]
    BY DEF Merge
  <1>2. merged = CHOOSE f : f = [n \in Nat |-> IF n = 0 THEN DropRows(s, removals)
               ELSE IF n \in DOMAIN records THEN Admit(f[n - 1], n, records[n])
               ELSE f[n - 1]]
    OBVIOUS
  <1> HIDE DEF merged
  <1>3. a \in S
    BY DropRowsCounted
  <1>4. ASSUME NEW n \in Nat, NEW t \in S, n \in DOMAIN records PROVE Admit(t, n, records[n]) \in S
    <2>1. n \in Nodes /\ records[n] \in NodeState
      BY <1>4, RowsFacts
    <2> DEFINE u == Admit(t, n, records[n])
    <2>2. u \in StorageRow /\ Counted(u) /\ Rest(t, u) /\ DOMAIN u.rows \subseteq DOMAIN t.rows \cup {n}
      BY <2>1, AdmitCounted
    <2> HIDE DEF u
    <2>3. Rest(s, u)
      BY <2>2, RestTransitive
    <2>4. u \in S
      BY <1>4, <2>2, <2>3
    <2> QED BY <2>4 DEF u
  <1>5. step \in [Nat -> [S -> S]]
    <2> HIDE DEF S
    <2>1. ASSUME NEW n \in Nat
          PROVE  [t \in S |-> IF n \in DOMAIN records THEN Admit(t, n, records[n]) ELSE t] \in [S -> S]
      BY <1>4
    <2> QED BY <2>1
  <1> HIDE DEF S
  <1>6. PICK g \in [Nat -> S] : g = [n \in Nat |-> IF n = 0 THEN a ELSE step[n][g[n - 1]]]
    <2> HIDE DEF step, a
    <2>1. PICK f \in [Nat -> S] : Recurses(f, a, step)
      BY <1>3, <1>5, RecursionOverNat
    <2> QED BY <2>1 DEF Recurses
  <1>7. g = [n \in Nat |-> IF n = 0 THEN DropRows(s, removals)
               ELSE IF n \in DOMAIN records THEN Admit(g[n - 1], n, records[n])
               ELSE g[n - 1]]
    <2>1. ASSUME NEW n \in Nat
          PROVE  g[n] = IF n = 0 THEN DropRows(s, removals)
                        ELSE IF n \in DOMAIN records THEN Admit(g[n - 1], n, records[n])
                        ELSE g[n - 1]
      <3>1. CASE n = 0
        BY <1>6, <3>1
      <3>2. CASE n # 0
        <4>1. n - 1 \in Nat
          BY <3>2
        <4>2. g[n - 1] \in S
          BY <1>6, <4>1
        <4>3. g[n] = step[n][g[n - 1]]
          BY <1>6, <3>2
        <4> QED BY <3>2, <4>2, <4>3
      <3> QED BY <3>1, <3>2
    <2>2. DOMAIN g = Nat
      BY <1>6
    <2> QED BY <1>6, <2>1, <2>2
  <1>8. merged = [n \in Nat |-> IF n = 0 THEN DropRows(s, removals)
               ELSE IF n \in DOMAIN records THEN Admit(merged[n - 1], n, records[n])
               ELSE merged[n - 1]]
    BY <1>2, <1>7
  <1>9. \A n \in Nat : merged[n] \in S
    <2> DEFINE T == {n \in Nat : merged[n] \in S}
    <2>1. 0 \in T
      BY <1>3, <1>8
    <2>2. ASSUME NEW n \in T PROVE n + 1 \in T
      <3>1. n \in Nat /\ n + 1 \in Nat /\ n + 1 # 0 /\ (n + 1) - 1 = n /\ merged[n] \in S
        OBVIOUS
      <3>2. merged[n + 1] = IF n + 1 \in DOMAIN records THEN Admit(merged[n], n + 1, records[n + 1])
                            ELSE merged[n]
        BY <1>8, <3>1
      <3> QED BY <1>4, <3>1, <3>2
    <2>3. T = Nat
      <3> HIDE DEF T
      <3>1. T \in SUBSET Nat
        BY DEF T
      <3> QED BY <2>1, <2>2, <3>1, NatSetInduction
    <2> QED BY <2>3
  <1>10. merged[Cardinality(Nodes)] \in S
    BY <1>9, Constants
  <1> QED BY <1>1, <1>10 DEF S

-----------------------------------------------------------------------------
(***************************************************************************)
(* What each operation makes of a storage row.                             *)
(***************************************************************************)

\* t has the detail of s, and its deadline; its candidate and its pages may differ.
SameDetail(s, t) ==
    /\ t.detail = s.detail /\ t.rows = s.rows /\ t.count = s.count
    /\ t.bytes = s.bytes /\ t.running = s.running /\ t.succeeded = s.succeeded /\ t.current = s.current
    /\ s.exists => t.exists

\* What a staging, a deletion and a stamp make of a row.
StagedRow(r, s, v) == [s EXCEPT !.exists = TRUE, !.pending = v, !.pages = s.pages \cup Topologies[r][v]]
TrimmedRow(s, v, pages) == [s EXCEPT !.pending = v, !.pages = pages]
StampedRow(s, x) == [s EXCEPT !.expires = x]

LEMMA TopologyNodes ==
  ASSUME NEW r \in Runs, NEW v \in Versions(r) \cup {0}
  PROVE  NodesOf(r, v) \in SUBSET Nodes /\ (v # 0 => NodesOf(r, v) = Topologies[r][v])
  <1>1. CASE v = 0
    BY <1>1 DEF NodesOf
  <1>2. CASE v # 0
    <2>1. v \in DOMAIN Topologies[r]
      BY <1>2 DEF Versions
    <2>2. Topologies[r][v] \in Range(Topologies[r])
      BY <2>1 DEF Range
    <2>3. Topologies[r][v] \subseteq Nodes
      BY <2>2 DEF Nodes
    <2> QED BY <1>2, <2>3 DEF NodesOf
  <1> QED BY <1>1, <1>2

LEMMA TopologySize ==
  ASSUME NEW r \in Runs, NEW v \in Versions(r)
  PROVE  Cardinality(Topologies[r][v]) \in Nat
  <1>1. v # 0 /\ v \in Versions(r) \cup {0}
    BY Constants
  <1>2. Topologies[r][v] \in SUBSET Nodes
    BY <1>1, TopologyNodes
  <1> QED BY <1>2, Constants, FS_Subset, FS_CardinalityType

LEMMA Linked ==
  ASSUME NEW r \in Runs, NEW s
  PROVE  LinkedPages(r, s) = NodesOf(r, s.current) \cup NodesOf(r, s.pending)
  BY DEF LinkedPages, NodesOf

LEMMA NoStorageGood ==
  ASSUME NEW r \in Runs
  PROVE  NoStorage \in StorageRow /\ GoodRow(r, NoStorage) /\ NoStorage.detail = 0
  <1>1. NoRows \in Rows /\ DOMAIN NoRows = {}
    <2>1. NoRows \in [{} -> NodeState]
      BY DEF NoRows
    <2> QED BY <2>1, RowsIntro
  <1>2. Cardinality({}) = 0
    BY FS_EmptySet
  <1>3. Running(NoRows) = 0 /\ Succeeded(NoRows) = 0 /\ Bytes(NoRows) = 0
    <2>1. {n \in DOMAIN NoRows : NoRows[n] = "SUCCEEDED"} = {}
      BY <1>1
    <2>2. Succeeded(NoRows) = 0
      BY <1>2, <2>1 DEF Succeeded
    <2>3. Running(NoRows) = 0
      BY <1>1, <1>2, <2>2, RunningType
    <2> QED BY <1>1, <1>2, <2>2, <2>3 DEF Bytes
  <1>4. NoStorage \in StorageRow
    BY <1>1 DEF NoStorage, StorageRow
  <1>5. Counted(NoStorage)
    BY <1>1, <1>2, <1>3, Constants DEF NoStorage, Counted
  <1> QED BY <1>1, <1>4, <1>5 DEF GoodRow, NoStorage, NodesOf

LEMMA StagedGood ==
  ASSUME NEW r \in Runs, NEW s \in StorageRow, GoodRow(r, s), NEW v \in Versions(r), NEW t,
         t = StagedRow(r, s, v)
  PROVE  t \in StorageRow /\ GoodRow(r, t) /\ SameDetail(s, t) /\ t.expires = s.expires
  <1>1. v \in Nat \ {0} /\ Topologies[r][v] \in SUBSET Nodes /\ NodesOf(r, v) = Topologies[r][v]
    BY Constants, TopologyNodes
  <1>2. t \in StorageRow
    BY <1>1 DEF StorageRow, StagedRow
  <1>3. /\ SameDetail(s, t) /\ t.expires = s.expires
        /\ t.exists /\ t.pending = v /\ t.pages = s.pages \cup Topologies[r][v]
    BY DEF StorageRow, SameDetail, StagedRow, TrimmedRow, StampedRow
  <1>4. Counted(t)
    BY <1>3 DEF SameDetail, Counted, GoodRow
  <1> QED BY <1>1, <1>2, <1>3, <1>4 DEF GoodRow, SameDetail

\* A row whose candidate and pages shrink to what stays linked.
LEMMA TrimmedGood ==
  ASSUME NEW r \in Runs, NEW s \in StorageRow, GoodRow(r, s), NEW t,
         NEW v \in {s.pending, 0}, NEW pages \in SUBSET s.pages,
         t = TrimmedRow(s, v, pages),
         s.pages \cap (NodesOf(r, s.current) \cup NodesOf(r, v)) \subseteq pages
  PROVE  t \in StorageRow /\ GoodRow(r, t) /\ SameDetail(s, t) /\ t.expires = s.expires
  <1>0. v \in Nat /\ pages \in SUBSET Nodes
    BY DEF StorageRow
  <1>1. t \in StorageRow
    BY <1>0 DEF StorageRow, TrimmedRow
  <1>2. /\ SameDetail(s, t) /\ t.expires = s.expires /\ t.exists = s.exists
        /\ t.pending = v /\ t.pages = pages
    BY DEF StorageRow, SameDetail, StagedRow, TrimmedRow, StampedRow
  <1>3. Counted(t)
    BY <1>2 DEF SameDetail, Counted, GoodRow
  <1>4. NodesOf(r, v) \subseteq s.pages
    BY DEF GoodRow, NodesOf
  <1> QED BY <1>1, <1>2, <1>3, <1>4 DEF GoodRow, SameDetail

LEMMA StampedGood ==
  ASSUME NEW r \in Runs, NEW s \in StorageRow, GoodRow(r, s), NEW x \in Nat, NEW t,
         t = StampedRow(s, x)
  PROVE  t \in StorageRow /\ GoodRow(r, t) /\ SameDetail(s, t) /\ t.expires = x
  <1>1. t \in StorageRow
    BY DEF StorageRow, StampedRow
  <1>2. /\ SameDetail(s, t) /\ t.expires = x /\ t.exists = s.exists
        /\ t.pending = s.pending /\ t.pages = s.pages
    BY DEF StorageRow, SameDetail, StagedRow, TrimmedRow, StampedRow
  <1>3. Counted(t)
    BY <1>2 DEF SameDetail, Counted, GoodRow
  <1> QED BY <1>1, <1>2, <1>3 DEF GoodRow, SameDetail

IsPublished(r, v, state, t) ==
    /\ t \in StorageRow /\ GoodRow(r, t) /\ t.exists = storage[r].exists /\ t.current = v
    /\ t.detail # 0 /\ t.detail \in {storage[r].detail, storage[r].detail + 1}
    /\ t.detail = storage[r].detail => t.rows = storage[r].rows
    /\ t.expires = IF state \in Terminal THEN clock + RetentionDays ELSE 0

\* A publication: aggregates, topology and pages fit together again, and the detail
\* revision tells whether the rows have changed.
LEMMA PublishedGood ==
  ASSUME RowsInv, NEW r \in Runs, NEW v \in Versions(r), v \in {storage[r].current, storage[r].pending},
         storage[r].exists, NEW removals, NEW records \in Rows, DOMAIN records \subseteq Topologies[r][v], NEW state,
         NEW next, next = Published(r, v, removals, records, state)
  PROVE  IsPublished(r, v, state, next)
  <1> DEFINE s == storage[r]
             m == Merge(s, removals \cup TopologyRemovals(r, v), records)
             revision == IF m.rows # s.rows \/ s.detail = 0 THEN s.detail + 1 ELSE s.detail
             expires == IF state \in Terminal THEN clock + RetentionDays ELSE 0
             pending == IF m.pending = v THEN 0 ELSE m.pending
             u == [m EXCEPT !.detail = revision, !.expires = expires, !.current = v, !.pending = pending]
             t == [u EXCEPT !.pages = u.pages \cap LinkedPages(r, u)]
  <1>1. next = t
    BY DEF Published, DropOrphanPages
  <1>2. s \in StorageRow /\ GoodRow(r, s) /\ Counted(s) /\ clock \in Nat /\ s.exists
    BY DEF RowsInv, TypeOK, StorageTypes, GoodRow
  <1>3. /\ m \in StorageRow /\ Counted(m) /\ Rest(s, m)
        /\ DOMAIN m.rows \subseteq (DOMAIN s.rows \ (removals \cup TopologyRemovals(r, v))) \cup DOMAIN records
    BY <1>2, MergeCounted
  <1>4. v \in Nat \ {0} /\ NodesOf(r, v) = Topologies[r][v]
    BY Constants, TopologyNodes
  <1>5. DOMAIN m.rows \subseteq NodesOf(r, v)
    <2>1. CASE s.current \in {0, v}
      BY <1>2, <1>3, <1>4, <2>1 DEF GoodRow, NodesOf
    <2>2. CASE s.current \notin {0, v}
      <3>1. TopologyRemovals(r, v) = Topologies[r][s.current] \ Topologies[r][v]
        BY <2>2 DEF TopologyRemovals
      <3>2. NodesOf(r, s.current) = Topologies[r][s.current]
        BY <2>2 DEF NodesOf
      <3> QED BY <1>2, <1>3, <1>4, <3>1, <3>2 DEF GoodRow
    <2> QED BY <2>1, <2>2
  <1> HIDE DEF m
  <1>6. m.pending = s.pending /\ m.pages = s.pages /\ m.exists = s.exists
    BY <1>3 DEF Rest
  <1>7. revision \in Nat /\ revision # 0 /\ revision \in {s.detail, s.detail + 1}
        /\ (revision = s.detail => m.rows = s.rows)
    <2>1. s.detail \in Nat
      BY <1>2 DEF StorageRow
    <2> QED BY <2>1
  <1>8. expires \in Nat
    BY <1>2, Constants
  <1>9. pending \in Nat /\ pending \in Versions(r) \cup {0} /\ pending \in {s.pending, 0}
    BY <1>2, <1>3, <1>6 DEF StorageRow, GoodRow
  <1>10. NodesOf(r, v) \cup NodesOf(r, pending) \subseteq s.pages
    <2>1. NodesOf(r, v) \subseteq s.pages
      BY <1>2 DEF GoodRow
    <2>2. NodesOf(r, pending) \subseteq s.pages
      BY <1>2, <1>9 DEF GoodRow, NodesOf
    <2> QED BY <2>1, <2>2
  <1> HIDE DEF revision, expires, pending, s
  <1>11. /\ u \in StorageRow /\ u.detail = revision /\ u.expires = expires /\ u.current = v
         /\ u.pending = pending /\ u.rows = m.rows /\ u.count = m.count /\ u.bytes = m.bytes
         /\ u.running = m.running /\ u.succeeded = m.succeeded /\ u.exists = m.exists /\ u.pages = m.pages
    BY <1>3, <1>4, <1>7, <1>8, <1>9 DEF StorageRow
  <1> HIDE DEF u
  <1>12. LinkedPages(r, u) = NodesOf(r, v) \cup NodesOf(r, pending)
    BY <1>11, Linked
  <1>13. /\ t \in StorageRow /\ t.detail = revision /\ t.expires = expires /\ t.current = v
         /\ t.pending = pending /\ t.rows = m.rows /\ t.count = m.count /\ t.bytes = m.bytes
         /\ t.running = m.running /\ t.succeeded = m.succeeded /\ t.exists = m.exists
         /\ t.pages = u.pages \cap LinkedPages(r, u)
    BY <1>11 DEF StorageRow
  <1> HIDE DEF t
  <1>14. Counted(t)
    BY <1>3, <1>13 DEF Counted
  <1>15. t.pages = NodesOf(r, v) \cup NodesOf(r, pending)
    BY <1>6, <1>10, <1>11, <1>12, <1>13
  <1>16. GoodRow(r, t)
    BY <1>2, <1>4, <1>5, <1>6, <1>7, <1>9, <1>13, <1>14, <1>15 DEF GoodRow
  <1> QED BY <1>1, <1>6, <1>7, <1>13, <1>16 DEF expires, s, IsPublished

-----------------------------------------------------------------------------
(***************************************************************************)
(* The steps of coordinators, cleanup and readers, seen from the rows.     *)
(***************************************************************************)
GoodRows == \A r \in Runs : GoodRow(r, storage[r])

\* No step of this kind touches detail or deadlines.
KeepsDetail ==
    \A q \in Runs : SameDetail(storage[q], storage'[q]) /\ storage'[q].expires = storage[q].expires

\* Only the row of run r changes.
OneRow(r) == \A q \in Runs \ {r} : storage'[q] = storage[q]

LEMMA OneRowStep ==
  ASSUME StorageTypes, GoodRows, NEW r \in Runs, NEW t \in StorageRow, GoodRow(r, t),
         storage' = [storage EXCEPT ![r] = t]
  PROVE  StorageTypes' /\ GoodRows' /\ storage'[r] = t /\ OneRow(r)
  <1>1. StorageTypes' /\ storage'[r] = t /\ OneRow(r)
    BY DEF StorageTypes, OneRow
  <1>2. ASSUME NEW q \in Runs PROVE GoodRow(q, storage'[q])
    BY <1>1 DEF OneRow, GoodRows
  <1> QED BY <1>1, <1>2 DEF GoodRows

LEMMA SameDetailRefl == \A s : SameDetail(s, s)
  BY DEF SameDetail

LEMMA OneRowKeeps ==
  ASSUME NEW r \in Runs, OneRow(r),
         SameDetail(storage[r], storage'[r]), storage'[r].expires = storage[r].expires
  PROVE  KeepsDetail
  BY SameDetailRefl DEF OneRow, KeepsDetail

LEMMA SameStorage ==
  ASSUME StorageTypes, GoodRows, UNCHANGED storage
  PROVE  StorageTypes' /\ GoodRows' /\ KeepsDetail
  BY SameDetailRefl DEF StorageTypes, GoodRows, KeepsDetail

\* The coordinator of r moves to k.
LEMMA CoordinatorMoves ==
  ASSUME RowsInv, NEW r \in Runs, NEW k \in CoordinatorState,
         k.pc \in {"checked", "writing", "staged", "open", "discard"} => k.version \in Versions(r),
         coord' = [coord EXCEPT ![r] = k]
  PROVE  coord' \in [Runs -> CoordinatorState] /\ \A q \in Runs : VersionKnown(q)'
  BY DEF RowsInv, TypeOK, ProcessTypes, VersionKnown

LEMMA CoordinatorAtType ==
  \A pc \in {"idle", "fallback", "closed"} :
      CoordinatorAt(pc) \in CoordinatorState /\ CoordinatorAt(pc).pc = pc
  BY DEF CoordinatorAt, CoordinatorState

\* The parts of RowsInv after a step.
LEMMA RowsInvIntro ==
  ASSUME TaskTypes', RunTypes', StorageTypes', ProcessTypes', (clock \in Nat \ {0})', GoodRows',
         \A q \in Runs : VersionKnown(q)'
  PROVE  RowsInv'
  BY DEF RowsInv, TypeOK, GoodRows

LEMMA RowsInvParts ==
  ASSUME RowsInv
  PROVE  /\ TaskTypes /\ RunTypes /\ StorageTypes /\ ProcessTypes /\ clock \in Nat \ {0} /\ GoodRows
         /\ \A q \in Runs : VersionKnown(q)
  BY DEF RowsInv, TypeOK, GoodRows

\* A step that changes only coordinators and storage.
LEMMA CoordinatorRows ==
  ASSUME RowsInv, coord' \in [Runs -> CoordinatorState], \A q \in Runs : VersionKnown(q)',
         StorageTypes', GoodRows', UNCHANGED <<archive, sequence, owner, cleaner, reader, clock>>,
         exec' \in TaskRow
  PROVE  RowsInv'
  <1>1. TaskTypes' /\ RunTypes' /\ ProcessTypes' /\ (clock \in Nat \ {0})'
    BY RowsInvParts DEF TaskTypes, RunTypes, ProcessTypes
  <1> QED BY <1>1, RowsInvIntro

LEMMA StageBeginRows ==
  ASSUME RowsInv, NEW r \in Runs, NEW v \in Versions(r), StageBegin(r, v)
  PROVE  RowsInv' /\ KeepsDetail
  <1> DEFINE k == IF ExactRun(r) THEN [coord[r] EXCEPT !.pc = "checked", !.version = v]
                  ELSE CoordinatorAt("fallback")
  <1>1. coord' = [coord EXCEPT ![r] = k]
    BY DEF StageBegin
  <1>2. v \in Nat
    BY Constants
  <1>3. k \in CoordinatorState /\ k.pc \in {"checked", "fallback"} /\ (k.pc = "checked" => k.version = v)
    <2>1. [coord[r] EXCEPT !.pc = "checked", !.version = v] \in CoordinatorState
      BY <1>2, RowsInvParts DEF ProcessTypes, CoordinatorState
    <2> QED BY <2>1, CoordinatorAtType DEF CoordinatorState
  <1> HIDE DEF k
  <1>4. coord' \in [Runs -> CoordinatorState] /\ \A q \in Runs : VersionKnown(q)'
    BY <1>1, <1>3, CoordinatorMoves
  <1>5. StorageTypes' /\ GoodRows' /\ KeepsDetail
    BY RowsInvParts, SameStorage DEF StageBegin
  <1> QED BY <1>4, <1>5, RowsInvParts, CoordinatorRows DEF StageBegin, TaskTypes

LEMMA StageWriteRows ==
  ASSUME RowsInv, NEW r \in Runs, StageWrite(r)
  PROVE  RowsInv' /\ KeepsDetail
  <1>0. coord[r] \in CoordinatorState /\ coord[r].pc = "checked" /\ coord[r].version \in Versions(r)
    BY RowsInvParts DEF ProcessTypes, VersionKnown, StageWrite
  <1>1. PICK verdict \in {"staged", "writing", "fallback"} :
          coord' = [coord EXCEPT ![r] = IF verdict = "fallback" THEN CoordinatorAt(verdict)
                                        ELSE [coord[r] EXCEPT !.pc = verdict]]
    BY DEF StageWrite
  <1> DEFINE k == IF verdict = "fallback" THEN CoordinatorAt(verdict) ELSE [coord[r] EXCEPT !.pc = verdict]
  <1>2. k \in CoordinatorState /\ (k.pc # "fallback" => k.version = coord[r].version)
    <2>1. CASE verdict = "fallback"
      BY <2>1, CoordinatorAtType
    <2>2. CASE verdict # "fallback"
      BY <1>0, <2>2 DEF CoordinatorState
    <2> QED BY <2>1, <2>2
  <1>3. coord' = [coord EXCEPT ![r] = k]
    BY <1>1
  <1> HIDE DEF k
  <1>4. coord' \in [Runs -> CoordinatorState] /\ \A q \in Runs : VersionKnown(q)'
    BY <1>0, <1>2, <1>3, CoordinatorMoves
  <1>5. StorageTypes' /\ GoodRows' /\ KeepsDetail
    BY RowsInvParts, SameStorage DEF StageWrite
  <1> QED BY <1>4, <1>5, RowsInvParts, CoordinatorRows DEF StageWrite, TaskTypes

LEMMA StageCommitRows ==
  ASSUME RowsInv, NEW r \in Runs, StageCommit(r)
  PROVE  RowsInv' /\ KeepsDetail
  <1>0. coord[r] \in CoordinatorState /\ coord[r].pc = "writing" /\ coord[r].version \in Versions(r)
    BY RowsInvParts DEF ProcessTypes, VersionKnown, StageCommit
  <1> DEFINE v == coord[r].version
             k == [coord[r] EXCEPT !.pc = "staged"]
             s == storage[r]
             t == StagedRow(r, s, v)
  <1>1. k \in CoordinatorState /\ k.version = v
    BY <1>0 DEF CoordinatorState
  <1>2. coord' = [coord EXCEPT ![r] = k]
    BY RowsInvParts DEF StageCommit, ProcessTypes
  <1>3. s \in StorageRow /\ GoodRow(r, s)
    BY RowsInvParts DEF StorageTypes, GoodRows
  <1>4. storage' = [storage EXCEPT ![r] = t]
    BY <1>3, RowsInvParts DEF StageCommit, StorageTypes, StorageRow, StagedRow
  <1> HIDE DEF k, v
  <1>5. coord' \in [Runs -> CoordinatorState] /\ \A q \in Runs : VersionKnown(q)'
    BY <1>0, <1>1, <1>2, CoordinatorMoves DEF v
  <1>6. t \in StorageRow /\ GoodRow(r, t) /\ SameDetail(s, t) /\ t.expires = s.expires
    <2>1. v \in Versions(r)
      BY <1>0 DEF v
    <2> QED BY <1>3, <2>1, StagedGood
  <1> HIDE DEF t
  <1>7. StorageTypes' /\ GoodRows' /\ storage'[r] = t /\ OneRow(r)
    BY <1>4, <1>6, RowsInvParts, OneRowStep
  <1>8. KeepsDetail
    BY <1>6, <1>7, OneRowKeeps
  <1> QED BY <1>5, <1>7, <1>8, RowsInvParts, CoordinatorRows DEF StageCommit, TaskTypes

LEMMA DiscardRows ==
  ASSUME RowsInv, NEW r \in Runs, Discard(r)
  PROVE  RowsInv' /\ KeepsDetail
  <1>1. coord' = [coord EXCEPT ![r] = CoordinatorAt("fallback")]
    BY DEF Discard
  <1>2. coord' \in [Runs -> CoordinatorState] /\ \A q \in Runs : VersionKnown(q)'
    BY <1>1, CoordinatorAtType, CoordinatorMoves
  <1>3. StorageTypes' /\ GoodRows' /\ KeepsDetail
    <2> DEFINE s == storage[r]
               u == [s EXCEPT !.pending = 0]
               t == DropOrphanPages(r, u)
               pages == s.pages \cap (NodesOf(r, s.current) \cup NodesOf(r, 0))
    <2>1. CASE UNCHANGED storage
      BY <2>1, RowsInvParts, SameStorage
    <2>2. CASE storage' = [storage EXCEPT ![r] = t]
      <3>1. s \in StorageRow /\ GoodRow(r, s)
        BY RowsInvParts DEF StorageTypes, GoodRows
      <3>2. u.current = s.current /\ u.pending = 0 /\ u.pages = s.pages
        BY <3>1 DEF StorageRow
      <3>3. LinkedPages(r, u) = NodesOf(r, s.current) \cup NodesOf(r, 0)
        BY <3>2, Linked
      <3>4. t = TrimmedRow(s, 0, pages)
        BY <3>1, <3>2, <3>3 DEF DropOrphanPages, StorageRow, TrimmedRow
      <3> HIDE DEF t, s
      <3>5. t \in StorageRow /\ GoodRow(r, t) /\ SameDetail(s, t) /\ t.expires = s.expires
        <4>1. 0 \in {s.pending, 0} /\ pages \in SUBSET s.pages
          OBVIOUS
        <4> HIDE DEF pages
        <4>2. s.pages \cap (NodesOf(r, s.current) \cup NodesOf(r, 0)) \subseteq pages
          BY DEF pages
        <4> QED BY <3>1, <3>4, <4>1, <4>2, TrimmedGood
      <3>6. StorageTypes' /\ GoodRows' /\ storage'[r] = t /\ OneRow(r)
        BY <2>2, <3>5, RowsInvParts, OneRowStep
      <3> QED BY <3>5, <3>6, OneRowKeeps DEF s
    <2> QED BY <2>1, <2>2 DEF Discard
  <1> QED BY <1>2, <1>3, RowsInvParts, CoordinatorRows DEF Discard, TaskTypes

LEMMA NoSummaryType == NoSummary \in Summary /\ NoSummary.run = 0 /\ NoSummary.detail = 0
  BY DEF NoSummary, Summary, RunIds, SummaryState

\* A row of the task with a new summary.
WithSummary(sum) == [exec EXCEPT !.summary = sum]

LEMMA WithSummaryType ==
  ASSUME exec \in TaskRow, NEW sum \in Summary
  PROVE  /\ WithSummary(sum) \in TaskRow /\ WithSummary(sum).summary = sum
         /\ WithSummary(sum).state = exec.state /\ WithSummary(sum).attempt = exec.attempt
         /\ WithSummary(sum).run = exec.run /\ WithSummary(sum).finished = exec.finished
  BY DEF WithSummary, TaskRow

LEMMA PublishedSummaryType ==
  ASSUME NEW r \in Runs, NEW s \in StorageRow, s.current \in Versions(r),
         NEW state \in Outcomes \cup {"RUNNING"}, NEW rev \in Nat, NEW done \in Nat, clock \in Nat
  PROVE  LET sum == PublishedSummary(r, s, state, rev, done)
         IN /\ sum \in Summary /\ sum.run = r /\ sum.state = state /\ sum.topology = s.current
            /\ sum.detail = s.detail /\ sum.count = s.count
            /\ ~sum.lastObserved /\ sum.expires = s.expires
  <1>1. r \in RunIds /\ state \in SummaryState
    BY Constants DEF RunIds, SummaryState, Terminal
  <1>2. /\ s.current \in Nat /\ s.detail \in Nat /\ s.count \in Int /\ s.succeeded \in Int /\ s.expires \in Nat
    BY DEF StorageRow
  <1>3. (IF state \in Terminal THEN clock ELSE 0) \in Nat
    OBVIOUS
  <1>4. Cardinality(Topologies[r][s.current]) \in Nat
    <2>1. PICK v \in Versions(r) : v = s.current
      OBVIOUS
    <2> QED BY <2>1, TopologySize
  <1> DEFINE discovered == Cardinality(Topologies[r][s.current])
             running == discovered - done
  <1>5. running \in Int /\ (s.count = discovered) \in BOOLEAN
    BY <1>4
  <1> HIDE DEF discovered, running
  <1>6. PublishedSummary(r, s, state, rev, done) =
          [run |-> r, rev |-> rev, state |-> state, topology |-> s.current,
           detail |-> s.detail, count |-> s.count, running |-> running,
           succeeded |-> done, complete |-> s.count = discovered, lastObserved |-> FALSE,
           finished |-> IF state \in Terminal THEN clock ELSE 0, expires |-> s.expires]
    BY DEF PublishedSummary, discovered, running
  <1> QED BY <1>1, <1>2, <1>3, <1>5, <1>6 DEF Summary

\* What an accepted publication does.
Publication(r, state) ==
    LET s == storage[r]  t == storage'[r] IN
    /\ ExactRun(r) /\ OneRow(r)
    /\ s.exists /\ t.exists /\ t.detail # 0 /\ t.detail \in {s.detail, s.detail + 1}
    /\ t.detail = s.detail => t.rows = s.rows
    /\ t.expires = IF state \in Terminal THEN clock + RetentionDays ELSE 0
    /\ t.current \in Versions(r)
    /\ \E rev \in Nat, done \in Nat :
          LET sum == PublishedSummary(r, t, state, rev, done)
          IN exec' = WithSummary(sum) /\ SummaryAdmits(t, sum)

LEMMA PublishRows ==
  ASSUME RowsInv, NEW r \in Runs, NEW state \in Outcomes \cup {"RUNNING"}, NEW done \in Nat, NEW removals,
         NEW records \in Rows, DOMAIN records \subseteq Topologies[r][coord[r].version],
         Publish(r, state, done, records, removals)
  PROVE  RowsInv' /\ ((KeepsDetail /\ UNCHANGED exec) \/ Publication(r, state))
  <1> DEFINE s == storage[r]
             v == coord[r].version
             next == Published(r, v, removals, records, state)
             rev == coord[r].rev + 1
             summary == PublishedSummary(r, next, state, rev, done)
  <1>0. /\ coord[r] \in CoordinatorState /\ coord[r].pc \in {"staged", "open"} /\ v \in Versions(r)
        /\ v \in Nat /\ rev \in Nat
    BY RowsInvParts DEF ProcessTypes, VersionKnown, Publish, CoordinatorState
  <1>1. /\ coord' \in [Runs -> CoordinatorState] /\ \A q \in Runs : VersionKnown(q)'
    <2> DEFINE open == [coord[r] EXCEPT !.pc = "open", !.rev = rev]
               discard == [coord[r] EXCEPT !.pc = "discard"]
    <2>1. /\ open \in CoordinatorState /\ open.version = v
          /\ discard \in CoordinatorState /\ discard.version = v
      BY <1>0 DEF CoordinatorState
    <2>2. coord' \in {[coord EXCEPT ![r] = CoordinatorAt("closed")], [coord EXCEPT ![r] = open],
                      [coord EXCEPT ![r] = discard]}
      <3>1. [coord[r] EXCEPT !.pc = "open", !.rev = @ + 1] = open
        BY <1>0 DEF CoordinatorState
      <3>2. \/ coord' = [coord EXCEPT ![r] = IF state \in Terminal THEN CoordinatorAt("closed")
                                           ELSE [coord[r] EXCEPT !.pc = "open", !.rev = @ + 1]]
            \/ coord' = [coord EXCEPT ![r] = discard]
        BY DEF Publish
      <3> HIDE DEF open, discard
      <3> QED BY <3>1, <3>2
    <2> HIDE DEF open, discard
    <2>3. CASE coord' = [coord EXCEPT ![r] = CoordinatorAt("closed")]
      BY <2>3, CoordinatorAtType, CoordinatorMoves
    <2>4. CASE coord' = [coord EXCEPT ![r] = open]
      BY <1>0, <2>1, <2>4, CoordinatorMoves
    <2>5. CASE coord' = [coord EXCEPT ![r] = discard]
      BY <1>0, <2>1, <2>5, CoordinatorMoves
    <2> QED BY <2>2, <2>3, <2>4, <2>5
  <1>2. UNCHANGED <<archive, sequence, owner, cleaner, reader, clock>>
    BY DEF Publish
  <1>3. CASE UNCHANGED <<storage, exec>>
    <2>1. StorageTypes' /\ GoodRows' /\ KeepsDetail
      BY <1>3, RowsInvParts, SameStorage
    <2>2. exec' \in TaskRow
      BY <1>3, RowsInvParts DEF TaskTypes
    <2>3. RowsInv'
      BY <1>1, <1>2, <2>1, <2>2, CoordinatorRows
    <2> QED BY <1>3, <2>1, <2>3
  <1>4. CASE /\ ExactRun(r) /\ s.exists /\ v \in {s.current, s.pending}
             /\ SummaryAdmits(next, summary)
             /\ storage' = [storage EXCEPT ![r] = next]
             /\ exec' = [exec EXCEPT !.summary = summary]
    <2>1. /\ next \in StorageRow /\ GoodRow(r, next) /\ next.exists = s.exists /\ next.current = v
          /\ next.detail # 0 /\ next.detail \in {s.detail, s.detail + 1}
          /\ next.detail = s.detail => next.rows = s.rows
          /\ next.expires = IF state \in Terminal THEN clock + RetentionDays ELSE 0
      <3>1. PICK x \in Versions(r) : x = coord[r].version
        BY <1>0
      <3>2. DOMAIN records \subseteq Topologies[r][x] /\ x \in {storage[r].current, storage[r].pending}
        BY <1>4, <3>1
      <3>3. next = Published(r, x, removals, records, state)
        BY <3>1
      <3> HIDE DEF next
      <3>4. PICK t : t = next
        OBVIOUS
      <3>5. t = Published(r, x, removals, records, state)
        BY <3>3, <3>4
      <3>6. storage[r].exists
        BY <1>4
      <3>7. IsPublished(r, x, state, t)
        BY <3>1, <3>2, <3>5, <3>6, PublishedGood
      <3> QED BY <3>1, <3>4, <3>7 DEF IsPublished
    <2> HIDE DEF next
    <2>2. StorageTypes' /\ GoodRows' /\ storage'[r] = next /\ OneRow(r)
      BY <1>4, <2>1, RowsInvParts, OneRowStep
    <2>3. summary \in Summary
      <3>1. next.current \in Versions(r) /\ clock \in Nat
        BY <1>0, <2>1, RowsInvParts
      <3> QED BY <1>0, <2>1, <3>1, PublishedSummaryType
    <2>4. exec' = WithSummary(summary)
      BY <1>4 DEF WithSummary
    <2>5. exec' \in TaskRow
      BY <2>3, <2>4, RowsInvParts, WithSummaryType DEF TaskTypes
    <2>6. RowsInv'
      BY <1>1, <1>2, <2>2, <2>5, CoordinatorRows
    <2>7. Publication(r, state)
      BY <1>0, <1>4, <2>1, <2>2, <2>4 DEF Publication
    <2> QED BY <2>6, <2>7
  <1>5. \/ UNCHANGED <<storage, exec>>
        \/ /\ ExactRun(r) /\ s.exists /\ v \in {s.current, s.pending}
           /\ SummaryAdmits(next, summary)
           /\ storage' = [storage EXCEPT ![r] = next]
           /\ exec' = [exec EXCEPT !.summary = summary]
    BY DEF Publish
  <1> QED BY <1>3, <1>4, <1>5

\* The summary without pointers that a coordinator falls back to.
Unavailable(r, state) == [NoSummary EXCEPT !.run = r, !.rev = 1, !.state = state, !.finished = clock]

LEMMA PublishUnavailableRows ==
  ASSUME RowsInv, NEW r \in Runs, NEW state \in Outcomes, PublishUnavailable(r, state)
  PROVE  /\ RowsInv' /\ KeepsDetail
         /\ exec' \in {exec, WithSummary(Unavailable(r, state))}
         /\ exec' # exec => ExactRun(r)
         /\ Unavailable(r, state) \in Summary
         /\ Unavailable(r, state).run = r /\ Unavailable(r, state).detail = 0
  <1>1. /\ Unavailable(r, state) \in Summary
        /\ Unavailable(r, state).run = r /\ Unavailable(r, state).detail = 0
    <2>1. r \in RunIds /\ state \in SummaryState /\ clock \in Nat
      BY RowsInvParts, Constants DEF RunIds, SummaryState, Terminal
    <2> QED BY <2>1, NoSummaryType DEF Unavailable, Summary, NoSummary
  <1>2. exec' \in {exec, WithSummary(Unavailable(r, state))} /\ (exec' # exec => ExactRun(r))
    BY DEF PublishUnavailable, Unavailable, WithSummary
  <1>3. exec' \in TaskRow
    BY <1>1, <1>2, RowsInvParts, WithSummaryType DEF TaskTypes
  <1>4. coord' = [coord EXCEPT ![r] = CoordinatorAt("closed")]
    BY DEF PublishUnavailable
  <1>5. coord' \in [Runs -> CoordinatorState] /\ \A q \in Runs : VersionKnown(q)'
    BY <1>4, CoordinatorAtType, CoordinatorMoves
  <1>6. StorageTypes' /\ GoodRows' /\ KeepsDetail
    BY RowsInvParts, SameStorage DEF PublishUnavailable
  <1>7. RowsInv'
    BY <1>3, <1>5, <1>6, CoordinatorRows DEF PublishUnavailable
  <1> QED BY <1>1, <1>2, <1>6, <1>7

LEMMA SameCoordinators ==
  ASSUME RowsInv, UNCHANGED coord
  PROVE  \A q \in Runs : VersionKnown(q)'
  BY DEF RowsInv, VersionKnown

LEMMA CleanupSelectRows ==
  ASSUME RowsInv, NEW class \in {"expired", "pending", "pages", "empty"}, CleanupSelect(class)
  PROVE  RowsInv' /\ KeepsDetail
  <1>1. Candidates(class) \subseteq Runs \X Nat
    <2>1. \A r \in Runs : storage[r].pending \in Nat
      BY RowsInvParts DEF StorageTypes, StorageRow
    <2>2. Nodes \subseteq Nat
      BY Constants
    <2>3. CASE class = "expired"
      BY <2>3 DEF Candidates
    <2>4. CASE class = "pending"
      BY <2>1, <2>4 DEF Candidates
    <2>5. CASE class = "pages"
      BY <2>2, <2>5 DEF Candidates
    <2>6. CASE class = "empty"
      BY <2>6 DEF Candidates
    <2> QED BY <2>3, <2>4, <2>5, <2>6
  <1>2. PICK batch \in SUBSET Candidates(class) : cleaner' = [class |-> class, batch |-> batch]
    BY DEF CleanupSelect
  <1>3. cleaner' \in CleanerState /\ cleaner'.class # "none"
    BY <1>1, <1>2 DEF CleanerState
  <1>4. ProcessTypes'
    BY <1>3, RowsInvParts DEF ProcessTypes, CleanupSelect
  <1>5. StorageTypes' /\ GoodRows' /\ KeepsDetail
    BY RowsInvParts, SameStorage DEF CleanupSelect
  <1>6. TaskTypes' /\ RunTypes' /\ (clock \in Nat \ {0})'
    BY RowsInvParts DEF CleanupSelect, TaskTypes, RunTypes
  <1>7. \A q \in Runs : VersionKnown(q)'
    BY SameCoordinators DEF CleanupSelect
  <1> QED BY <1>4, <1>5, <1>6, <1>7, RowsInvIntro

\* The row of run r is taken away.
Reset(r) == storage'[r] = NoStorage /\ OneRow(r)

LEMMA ResetRows ==
  ASSUME RowsInv, NEW r \in Runs, storage' = [storage EXCEPT ![r] = NoStorage]
  PROVE  StorageTypes' /\ GoodRows' /\ Reset(r)
  BY RowsInvParts, NoStorageGood, OneRowStep DEF Reset

LEMMA CleanupProcessRows ==
  ASSUME RowsInv, NEW item \in cleaner.batch, CleanupProcess(item)
  PROVE  /\ RowsInv'
         /\ \/ KeepsDetail
            \/ \E r \in Runs : Reset(r) /\ (ExpiredRun(r) \/ EmptyRun(r))
  <1>0. /\ cleaner \in CleanerState /\ cleaner.class \in {"expired", "pending", "pages", "empty"}
        /\ item \in Runs \X Nat
    BY RowsInvParts DEF ProcessTypes, CleanerState
  <1> DEFINE r == item[1]
             n == item[2]
             s == storage[r]
  <1>1. r \in Runs /\ n \in Nat
    BY <1>0
  <1>2. s \in StorageRow /\ GoodRow(r, s)
    BY <1>1, RowsInvParts DEF StorageTypes, GoodRows
  <1>3. storage' \in {storage, [storage EXCEPT ![r] = Cleaned(r, n)]}
    BY DEF CleanupProcess
  <1>4. /\ StorageTypes' /\ GoodRows'
        /\ KeepsDetail \/ \E q \in Runs : Reset(q) /\ (ExpiredRun(q) \/ EmptyRun(q))
    <2>1. CASE UNCHANGED storage
      BY <2>1, RowsInvParts, SameStorage
    <2>2. ASSUME storage' = [storage EXCEPT ![r] = s] PROVE UNCHANGED storage
      BY <1>1, <2>2, RowsInvParts DEF StorageTypes
    <2>3. CASE storage' = [storage EXCEPT ![r] = Cleaned(r, n)] /\ cleaner.class \in {"expired", "empty"}
      <3>1. \/ Cleaned(r, n) = s
            \/ Cleaned(r, n) = NoStorage /\ (ExpiredRun(r) \/ EmptyRun(r))
        BY <2>3 DEF Cleaned
      <3> HIDE DEF r, n
      <3> QED BY <1>1, <2>1, <2>2, <2>3, <3>1, ResetRows
    <2>4. CASE storage' = [storage EXCEPT ![r] = Cleaned(r, n)] /\ cleaner.class = "pending"
      <3>1. Cleaned(r, n) = s \/ Cleaned(r, n) = TrimmedRow(s, 0, s.pages)
        BY <1>2, <2>4 DEF Cleaned, TrimmedRow, StorageRow
      <3>2. CASE Cleaned(r, n) = TrimmedRow(s, 0, s.pages)
        <4> DEFINE t == TrimmedRow(s, 0, s.pages)
        <4> HIDE DEF r, n, s
        <4>1. /\ 0 \in {s.pending, 0} /\ s.pages \in SUBSET s.pages
              /\ s.pages \cap (NodesOf(r, s.current) \cup NodesOf(r, 0)) \subseteq s.pages
          OBVIOUS
        <4>2. t \in StorageRow /\ GoodRow(r, t) /\ SameDetail(s, t) /\ t.expires = s.expires
          BY <1>1, <1>2, <4>1, TrimmedGood
        <4> HIDE DEF t
        <4>3. StorageTypes' /\ GoodRows' /\ storage'[r] = t /\ OneRow(r)
          BY <1>1, <2>4, <3>2, <4>2, RowsInvParts, OneRowStep DEF t
        <4> QED BY <1>1, <4>2, <4>3, OneRowKeeps DEF s
      <3> QED BY <2>1, <2>2, <2>4, <3>1, <3>2
    <2>5. CASE storage' = [storage EXCEPT ![r] = Cleaned(r, n)] /\ cleaner.class = "pages"
      <3>1. \/ Cleaned(r, n) = s
            \/ Cleaned(r, n) = TrimmedRow(s, s.pending, s.pages \ {n}) /\ OrphanPage(r, n)
        BY <1>2, <2>5 DEF Cleaned, TrimmedRow, StorageRow
      <3>2. CASE Cleaned(r, n) = TrimmedRow(s, s.pending, s.pages \ {n}) /\ OrphanPage(r, n)
        <4> DEFINE pages == s.pages \ {n}
                   t == TrimmedRow(s, s.pending, pages)
        <4>0. n \notin NodesOf(r, s.current) \cup NodesOf(r, s.pending)
          BY <1>1, <3>2, Linked DEF OrphanPage
        <4> HIDE DEF r, n, s
        <4>1. /\ s.pending \in {s.pending, 0} /\ pages \in SUBSET s.pages
              /\ s.pages \cap (NodesOf(r, s.current) \cup NodesOf(r, s.pending)) \subseteq pages
          BY <4>0
        <4> HIDE DEF pages
        <4>2. t \in StorageRow /\ GoodRow(r, t) /\ SameDetail(s, t) /\ t.expires = s.expires
          BY <1>1, <1>2, <4>1, TrimmedGood
        <4> HIDE DEF t
        <4>3. StorageTypes' /\ GoodRows' /\ storage'[r] = t /\ OneRow(r)
          BY <1>1, <2>5, <3>2, <4>2, RowsInvParts, OneRowStep DEF t, pages
        <4> QED BY <1>1, <4>2, <4>3, OneRowKeeps DEF s
      <3> QED BY <2>1, <2>2, <2>5, <3>1, <3>2
    <2> QED BY <1>0, <1>3, <2>1, <2>3, <2>4, <2>5
  <1>5. ProcessTypes'
    <2>1. cleaner' \in CleanerState /\ (cleaner'.batch # {} => cleaner'.class # "none")
      <3> DEFINE rest == cleaner.batch \ {item}
      <3>1. cleaner' = IF rest = {} THEN NoBatch ELSE [cleaner EXCEPT !.batch = rest]
        BY DEF CleanupProcess
      <3>2. NoBatch \in CleanerState /\ NoBatch.batch = {}
        BY DEF NoBatch, CleanerState
      <3>3. [cleaner EXCEPT !.batch = rest] \in CleanerState /\ [cleaner EXCEPT !.batch = rest].class # "none"
        BY <1>0 DEF CleanerState
      <3> QED BY <3>1, <3>2, <3>3
    <2> QED BY <2>1, RowsInvParts DEF ProcessTypes, CleanupProcess
  <1>6. TaskTypes' /\ RunTypes' /\ (clock \in Nat \ {0})'
    BY RowsInvParts DEF CleanupProcess, TaskTypes, RunTypes
  <1>7. \A q \in Runs : VersionKnown(q)'
    BY SameCoordinators DEF CleanupProcess
  <1> QED BY <1>4, <1>5, <1>6, <1>7, RowsInvIntro

LEMMA ReadSummaryType ==
  ASSUME RowsInv, NEW a \in Attempts
  PROVE  ReadSummary(a) \in Summary
  BY RowsInvParts DEF TaskTypes, TaskRow, ReadSummary

\* The next page of a walk that has got some rows of s.
Page(got, rows) ==
    LET left == {m \in DOMAIN rows : \A k \in DOMAIN got : k < m}
    IN {m \in left : \A k \in left : m <= k}

\* The rows the walk then has.
Longer(got, rows) ==
    [m \in DOMAIN got \cup Page(got, rows) |-> IF m \in Page(got, rows) THEN rows[m] ELSE got[m]]

LEMMA LongerType ==
  ASSUME NEW got \in Rows, NEW rows \in Rows
  PROVE  /\ Longer(got, rows) \in Rows /\ Page(got, rows) \subseteq DOMAIN rows
         /\ DOMAIN Longer(got, rows) = DOMAIN got \cup Page(got, rows)
  <1>1. Page(got, rows) \subseteq DOMAIN rows
    BY DEF Page
  <1>2. /\ DOMAIN got \in SUBSET Nodes /\ got \in [DOMAIN got -> NodeState]
        /\ DOMAIN rows \in SUBSET Nodes /\ rows \in [DOMAIN rows -> NodeState]
    BY RowsFacts
  <1>3. DOMAIN got \cup Page(got, rows) \in SUBSET Nodes
    BY <1>1, <1>2
  <1>4. Longer(got, rows) \in [DOMAIN got \cup Page(got, rows) -> NodeState]
    BY <1>1, <1>2 DEF Longer
  <1> QED BY <1>1, <1>3, <1>4, RowsIntro

\* The rows a reader of attempt a finds.
FoundRows(a) == (IF ReadSummary(a).run = 0 THEN NoStorage ELSE storage[ReadSummary(a).run]).rows

LEMMA FoundRowsType ==
  ASSUME RowsInv, NEW a \in Attempts
  PROVE  FoundRows(a) \in Rows
  <1>1. ReadSummary(a).run \in RunIds
    BY ReadSummaryType DEF Summary
  <1>2. CASE ReadSummary(a).run = 0
    <2>1. NoRows \in [{} -> NodeState]
      BY DEF NoRows
    <2>2. NoRows \in Rows
      BY <2>1, RowsIntro
    <2> QED BY <1>2, <2>2 DEF FoundRows, NoStorage
  <1>3. CASE ReadSummary(a).run # 0
    <2>1. ReadSummary(a).run \in Runs
      BY <1>1, <1>3 DEF RunIds
    <2> QED BY <1>3, <2>1, RowsInvParts DEF FoundRows, StorageTypes, StorageRow
  <1> QED BY <1>2, <1>3

LEMMA AnswerGot ==
  ASSUME NEW a, NEW at
  PROVE  Answer(a, at).got = Longer(reader.got, FoundRows(a))
  BY DEF Answer, Longer, Page, FoundRows

LEMMA ReadPageRows ==
  ASSUME RowsInv, NEW a \in Attempts, NEW at, ReadPage(a, at)
  PROVE  RowsInv' /\ KeepsDetail
  <1>1. Answer(a, at).got \in Rows
    <2>1. PICK got \in Rows : got = reader.got
      BY RowsInvParts DEF ProcessTypes, ReaderState
    <2>2. PICK rows \in Rows : rows = FoundRows(a)
      BY FoundRowsType
    <2>3. Longer(got, rows) \in Rows
      BY <2>1, <2>2, LongerType
    <2>4. Answer(a, at).got = Longer(reader.got, FoundRows(a))
      BY AnswerGot
    <2> QED BY <2>1, <2>2, <2>3, <2>4
  <1>2. reader' \in ReaderState
    <2> DEFINE sum == ReadSummary(a)
               got == Answer(a, at).got
               next == [attempt |-> a, run |-> sum.run, rev |-> sum.rev,
                        topology |-> sum.topology, detail |-> sum.detail, got |-> got]
    <2>1. sum \in Summary
      BY ReadSummaryType
    <2>2. sum.run \in RunIds /\ sum.rev \in Nat /\ sum.topology \in Nat /\ sum.detail \in Nat
      BY <2>1 DEF Summary
    <2>3. reader' \in {NoCursor, next}
      BY DEF ReadPage
    <2> HIDE DEF sum, got
    <2>4. next \in ReaderState
      BY <1>1, <2>2 DEF ReaderState, got
    <2>5. NoCursor \in ReaderState
      <3>1. NoRows \in [{} -> NodeState]
        BY DEF NoRows
      <3>2. NoRows \in Rows
        BY <3>1, RowsIntro
      <3> QED BY <3>2 DEF NoCursor, ReaderState, RunIds
    <2> QED BY <2>3, <2>4, <2>5
  <1>3. ProcessTypes'
    BY <1>2, RowsInvParts DEF ProcessTypes, ReadPage
  <1>4. StorageTypes' /\ GoodRows' /\ KeepsDetail
    BY RowsInvParts, SameStorage DEF ReadPage
  <1>5. TaskTypes' /\ RunTypes' /\ (clock \in Nat \ {0})'
    BY RowsInvParts DEF ReadPage, TaskTypes, RunTypes
  <1>6. \A q \in Runs : VersionKnown(q)'
    BY SameCoordinators DEF ReadPage
  <1> QED BY <1>3, <1>4, <1>5, <1>6, RowsInvIntro

-----------------------------------------------------------------------------
(***************************************************************************)
(* The steps of the task lifecycle, seen from the rows.                    *)
(***************************************************************************)
LEMMA LifecycleRows ==
  ASSUME RowsInv, TaskTypes', RunTypes', StorageTypes', GoodRows',
         UNCHANGED <<coord, cleaner, reader, clock>>
  PROVE  RowsInv'
  <1>1. ProcessTypes' /\ (clock \in Nat \ {0})'
    BY RowsInvParts DEF ProcessTypes
  <1>2. \A q \in Runs : VersionKnown(q)'
    BY SameCoordinators
  <1> QED BY <1>1, <1>2, RowsInvIntro

LEMMA ClaimRows ==
  ASSUME RowsInv, Claim
  PROVE  /\ RowsInv' /\ KeepsDetail
         /\ exec'.state = "RUNNING" /\ exec'.attempt = exec.attempt
         /\ exec'.run = 0 /\ exec'.summary = NoSummary
  <1>1. exec' \in TaskRow
    BY RowsInvParts, NoSummaryType DEF Claim, TaskTypes, TaskRow, RunIds
  <1>2. /\ exec'.state = "RUNNING" /\ exec'.attempt = exec.attempt
        /\ exec'.run = 0 /\ exec'.summary = NoSummary
    BY RowsInvParts DEF Claim, TaskTypes, TaskRow
  <1>3. StorageTypes' /\ GoodRows' /\ KeepsDetail
    BY RowsInvParts, SameStorage DEF Claim
  <1>4. RowsInv'
    BY <1>1, <1>3, RowsInvParts, LifecycleRows DEF Claim, TaskTypes, RunTypes
  <1> QED BY <1>2, <1>3, <1>4

LEMMA RequestCancelRows ==
  ASSUME RowsInv, RequestCancel
  PROVE  /\ RowsInv' /\ KeepsDetail
         /\ exec'.state = "CANCELLING" /\ exec'.attempt = exec.attempt
         /\ exec'.run = exec.run /\ exec'.summary = exec.summary
  <1>1. exec' \in TaskRow
    BY RowsInvParts DEF RequestCancel, TaskTypes, TaskRow
  <1>2. /\ exec'.state = "CANCELLING" /\ exec'.attempt = exec.attempt
        /\ exec'.run = exec.run /\ exec'.summary = exec.summary
    BY RowsInvParts DEF RequestCancel, TaskTypes, TaskRow
  <1>3. StorageTypes' /\ GoodRows' /\ KeepsDetail
    BY RowsInvParts, SameStorage DEF RequestCancel
  <1>4. RowsInv'
    BY <1>1, <1>3, RowsInvParts, LifecycleRows DEF RequestCancel, TaskTypes, RunTypes
  <1> QED BY <1>2, <1>3, <1>4

LEMMA TickRows ==
  ASSUME RowsInv, Tick
  PROVE  RowsInv' /\ KeepsDetail
  <1>1. StorageTypes' /\ GoodRows' /\ KeepsDetail
    BY RowsInvParts, SameStorage DEF Tick
  <1>2. TaskTypes' /\ RunTypes' /\ ProcessTypes' /\ (clock \in Nat \ {0})'
    BY RowsInvParts DEF Tick, TaskTypes, RunTypes, ProcessTypes
  <1>3. \A q \in Runs : VersionKnown(q)'
    BY SameCoordinators DEF Tick
  <1> QED BY <1>1, <1>2, <1>3, RowsInvIntro

\* What activating run r makes of the task row.
ActivatedRow(r) == [exec EXCEPT !.run = r, !.summary = NoSummary]

LEMMA ActivatedRowType ==
  ASSUME exec \in TaskRow, NEW r \in Runs
  PROVE  /\ ActivatedRow(r) \in TaskRow /\ ActivatedRow(r).run = r
         /\ ActivatedRow(r).summary = NoSummary /\ ActivatedRow(r).state = exec.state
         /\ ActivatedRow(r).attempt = exec.attempt /\ ActivatedRow(r).finished = exec.finished
  BY NoSummaryType DEF ActivatedRow, TaskRow, RunIds

LEMMA AllocateRows ==
  ASSUME RowsInv, Allocate
  PROVE  /\ RowsInv' /\ sequence + 1 \in Runs /\ exec' = ActivatedRow(sequence + 1)
         /\ sequence' = sequence + 1
         /\ owner' = [owner EXCEPT ![sequence + 1] = exec.attempt]
         /\ \/ KeepsDetail /\ ~(exec.run \notin {0, sequence + 1} /\ owner[exec.run] = exec.attempt)
            \/ exec.run \in Runs /\ exec.run # sequence + 1 /\ Reset(exec.run)
  <1>1. sequence \in Nat /\ sequence + 1 \in Runs /\ sequence' = sequence + 1
    BY RowsInvParts, Constants DEF Allocate, RunTypes, RunIds, Runs
  <1>2. exec' = ActivatedRow(sequence + 1)
    BY DEF Allocate, Activate, ActivatedRow
  <1>3. PICK r \in Runs : r = sequence + 1
    BY <1>1
  <1>4. exec' \in TaskRow
    BY <1>2, <1>3, RowsInvParts, ActivatedRowType DEF TaskTypes
  <1>5. TaskTypes'
    BY <1>4, RowsInvParts DEF TaskTypes, Allocate
  <1>6. owner' = [owner EXCEPT ![sequence + 1] = exec.attempt]
    BY DEF Allocate
  <1>7. RunTypes'
    BY <1>1, <1>6, RowsInvParts DEF RunTypes, TaskTypes, TaskRow, RunIds
  <1>8. /\ StorageTypes' /\ GoodRows'
        /\ \/ KeepsDetail /\ ~(exec.run \notin {0, sequence + 1} /\ owner[exec.run] = exec.attempt)
           \/ exec.run \in Runs /\ exec.run # sequence + 1 /\ Reset(exec.run)
    <2>1. CASE exec.run \notin {0, sequence + 1} /\ owner[exec.run] = exec.attempt
      <3>1. exec.run \in Runs
        BY <2>1, RowsInvParts DEF TaskTypes, TaskRow, RunIds
      <3>2. storage' = [storage EXCEPT ![exec.run] = NoStorage]
        BY <2>1 DEF Allocate, Activate
      <3>3. StorageTypes' /\ GoodRows' /\ Reset(exec.run)
        <4>1. PICK q \in Runs : q = exec.run
          BY <3>1
        <4>2. storage' = [storage EXCEPT ![q] = NoStorage]
          BY <3>2, <4>1
        <4>3. StorageTypes' /\ GoodRows' /\ Reset(q)
          BY <4>1, <4>2, ResetRows
        <4> QED BY <4>1, <4>3
      <3> QED BY <2>1, <3>1, <3>3
    <2>2. CASE ~(exec.run \notin {0, sequence + 1} /\ owner[exec.run] = exec.attempt)
      <3>1. UNCHANGED storage
        BY <2>2 DEF Allocate, Activate
      <3> QED BY <2>2, <3>1, RowsInvParts, SameStorage
    <2> QED BY <2>1, <2>2
  <1>9. UNCHANGED <<coord, cleaner, reader, clock>>
    BY DEF Allocate
  <1>10. RowsInv'
    BY <1>5, <1>7, <1>8, <1>9, LifecycleRows
  <1> QED BY <1>1, <1>2, <1>6, <1>8, <1>10

LEMMA ReclaimRows ==
  ASSUME RowsInv, NEW r \in Runs, Reclaim(r)
  PROVE  RowsInv' /\ KeepsDetail /\ exec' = ActivatedRow(r) /\ exec.run = r
  <1>1. exec.run = r /\ exec' = ActivatedRow(r) /\ UNCHANGED storage
    BY DEF Reclaim, ExactRun, Activate, ActivatedRow
  <1>2. exec' \in TaskRow
    BY <1>1, RowsInvParts, ActivatedRowType DEF TaskTypes
  <1>3. StorageTypes' /\ GoodRows' /\ KeepsDetail
    BY <1>1, RowsInvParts, SameStorage
  <1>4. coord' \in [Runs -> CoordinatorState] /\ \A q \in Runs : VersionKnown(q)'
    <2>1. CASE UNCHANGED coord
      BY <2>1, RowsInvParts DEF ProcessTypes, VersionKnown
    <2>2. CASE coord' = [coord EXCEPT ![r] = CoordinatorAt("idle")]
      BY <2>2, CoordinatorAtType, CoordinatorMoves
    <2> QED BY <2>1, <2>2 DEF Reclaim
  <1>5. RowsInv'
    BY <1>2, <1>3, <1>4, CoordinatorRows DEF Reclaim
  <1> QED BY <1>1, <1>3, <1>5

\* The summaries sum and t count the same states, with the same marks.
SameStates(sum, t) ==
    /\ t.running = sum.running /\ t.succeeded = sum.succeeded
    /\ t.complete = sum.complete /\ t.lastObserved = sum.lastObserved

\* What the summary t kept of an ended attempt e says.
Derived(e, t) ==
    /\ t \in Summary
    /\ e.summary.run = 0 \/ e.run = 0 => t = NoSummary
    /\ e.summary.run # 0 /\ e.run # 0 =>
          /\ t.run = e.summary.run /\ t.topology = e.summary.topology
          /\ t.detail = e.summary.detail /\ t.count = e.summary.count
          /\ t.state = e.state
          /\ t.detail = 0 \/ e.finished <= t.finished
          /\ Coherent(e.summary) => Coherent(t)
          /\ Coherent(e.summary) /\ t.detail # 0
                => SameStates(e.summary, t) \/ (t.lastObserved /\ ~t.complete)
          /\ t = e.summary \/ (t.detail # 0 /\ e.finished # 0 => t.expires # 0)
          /\ e.summary.state = e.state /\ (e.summary.detail = 0 \/ e.finished <= e.summary.finished)
                => t = e.summary

LEMMA AttemptSummaryDerived ==
  ASSUME NEW e \in TaskRow, e.state \in Terminal
  PROVE  Derived(e, AttemptSummary(e))
  <1> DEFINE sum == e.summary
             at == Later(e.finished, sum.finished)
             success == e.state = "SUCCEEDED"
             unreported == success /\ sum.state # "SUCCEEDED" /\ sum.detail # 0
             running == IF success THEN 0 ELSE sum.running
             succeeded == IF success THEN sum.running + sum.succeeded ELSE sum.succeeded
             complete == sum.complete /\ ~unreported
             seen == sum.lastObserved \/ unreported
             expires == IF sum.detail # 0 THEN at + RetentionDays ELSE sum.expires
             rev == sum.rev + 1
             t == [sum EXCEPT !.rev = rev, !.state = e.state, !.finished = at, !.running = running,
                              !.succeeded = succeeded, !.complete = complete,
                              !.lastObserved = seen, !.expires = expires]
  <1>1. /\ sum \in Summary /\ sum.finished \in Nat /\ e.finished \in Nat /\ sum.rev \in Nat
        /\ sum.lastObserved \in BOOLEAN /\ sum.complete \in BOOLEAN
        /\ sum.running \in Int /\ sum.succeeded \in Int /\ sum.expires \in Nat
    BY DEF TaskRow, Summary
  <1>2. at \in Nat /\ e.finished <= at
    BY <1>1 DEF Later
  <1>3. CASE sum.run = 0 \/ e.run = 0
    <2>1. AttemptSummary(e) = NoSummary
      BY <1>3 DEF AttemptSummary
    <2> QED BY <1>3, <2>1, NoSummaryType DEF Derived
  <1>4. CASE /\ sum.run # 0 /\ e.run # 0
             /\ sum.state = e.state /\ (sum.detail = 0 \/ e.finished <= sum.finished)
    <2>1. AttemptSummary(e) = sum
      BY <1>4 DEF AttemptSummary
    <2> QED BY <1>1, <1>4, <2>1 DEF Derived, SameStates
  <1>5. CASE /\ sum.run # 0 /\ e.run # 0
             /\ ~(sum.state = e.state /\ (sum.detail = 0 \/ e.finished <= sum.finished))
    <2>1. AttemptSummary(e) = t
      BY <1>1, <1>5 DEF AttemptSummary, Summary
    <2>2. /\ seen \in BOOLEAN /\ complete \in BOOLEAN /\ running \in Int /\ succeeded \in Int
          /\ expires \in Nat /\ rev \in Nat
      <3>1. running \in Int /\ succeeded \in Int /\ expires \in Nat /\ rev \in Nat
        BY <1>1, <1>2, Constants
      <3>2. seen \in BOOLEAN /\ complete \in BOOLEAN
        BY <1>1
      <3> QED BY <3>1, <3>2
    <2>3. e.state \in SummaryState
      BY DEF SummaryState
    <2>4. sum.detail # 0 /\ e.finished # 0 => expires # 0
      <3>1. RetentionDays \in Nat
        BY Constants
      <3>2. e.finished # 0 => at + RetentionDays # 0
        <4> HIDE DEF at
        <4> QED BY <1>1, <1>2, <3>1
      <3> QED BY <3>2
    <2>5. Coherent(sum) => (success => running = 0) /\ (seen => ~complete)
      BY <1>1 DEF Coherent
    <2>6. Coherent(sum) /\ ~(seen /\ ~complete) /\ sum.detail # 0 =>
              running = sum.running /\ succeeded = sum.succeeded /\ complete = sum.complete
              /\ seen = sum.lastObserved
      <3>1. CASE ~success
        BY <1>1, <3>1
      <3>2. CASE unreported
        BY <3>2
      <3>3. CASE success /\ ~unreported
        BY <1>1, <3>3 DEF Coherent
      <3> QED BY <3>1, <3>2, <3>3
    <2> HIDE DEF sum, at, success, seen, complete, running, succeeded, expires, rev
    <2>7. /\ t \in Summary /\ t.run = sum.run /\ t.topology = sum.topology /\ t.detail = sum.detail
          /\ t.count = sum.count /\ t.state = e.state /\ t.finished = at /\ t.running = running
          /\ t.succeeded = succeeded /\ t.complete = complete
          /\ t.lastObserved = seen /\ t.expires = expires
      BY <1>1, <1>2, <2>2, <2>3 DEF Summary
    <2> HIDE DEF t
    <2>8. Coherent(sum) => Coherent(t)
      BY <2>5, <2>7 DEF Coherent, success
    <2>9. Coherent(sum) /\ t.detail # 0 => SameStates(sum, t) \/ (t.lastObserved /\ ~t.complete)
      BY <2>6, <2>7 DEF SameStates
    <2> QED BY <1>2, <1>5, <2>1, <2>4, <2>7, <2>8, <2>9 DEF Derived, sum
  <1> QED BY <1>3, <1>4, <1>5

\* The deadline the rows s of the ended attempt e get from its summary t.
StampedExpires(s, e, t) ==
    IF ~s.exists THEN s.expires
    ELSE IF t.run # 0
         THEN IF t.detail # 0 /\ s.detail = t.detail THEN t.expires ELSE s.expires
         ELSE IF s.detail # 0 THEN e.finished + RetentionDays ELSE s.expires

\* Only the deadline of the attempt's run changes.
Stamping(e, t) ==
    \A q \in Runs :
        /\ SameDetail(storage[q], storage'[q])
        /\ storage'[q].expires =
             IF q = e.run THEN StampedExpires(storage[q], e, t) ELSE storage[q].expires

LEMMA StampRows ==
  ASSUME RowsInv, NEW e \in TaskRow, NEW t \in Summary, storage' = Stamp(storage, e, t)
  PROVE  StorageTypes' /\ GoodRows' /\ Stamping(e, t)
  <1>1. CASE e.run = 0
    <2>1. UNCHANGED storage
      BY <1>1 DEF Stamp
    <2>2. StorageTypes' /\ GoodRows' /\ KeepsDetail
      BY <2>1, RowsInvParts, SameStorage
    <2>3. \A q \in Runs : q # e.run
      BY <1>1, Constants
    <2> QED BY <2>2, <2>3 DEF KeepsDetail, Stamping
  <1>2. CASE e.run # 0
    <2>1. PICK r \in Runs : r = e.run
      BY <1>2 DEF TaskRow, RunIds
    <2>2. PICK s \in StorageRow : s = storage[r]
      BY <2>1, RowsInvParts DEF StorageTypes
    <2>3. GoodRow(r, s)
      BY <2>1, <2>2, RowsInvParts DEF GoodRows
    <2>4. PICK x \in Nat : x = StampedExpires(s, e, t)
      <3>1. s.expires \in Nat /\ t.expires \in Nat /\ e.finished + RetentionDays \in Nat
        BY <2>2, Constants DEF StorageRow, Summary, TaskRow
      <3> QED BY <3>1 DEF StampedExpires
    <2>5. PICK u : u = StampedRow(s, x)
      OBVIOUS
    <2>6. u \in StorageRow /\ GoodRow(r, u) /\ SameDetail(s, u) /\ u.expires = x
      BY <2>1, <2>2, <2>3, <2>4, <2>5, StampedGood
    <2>7. storage' = [storage EXCEPT ![r] = u]
      <3>1. storage \in [Runs -> StorageRow] /\ storage[r] = s /\ StampedRow(s, s.expires) = s
        BY <2>2, RowsInvParts DEF StorageTypes, StampedRow, StorageRow
      <3>2. storage = [storage EXCEPT ![r] = s]
        BY <3>1
      <3>3. [storage EXCEPT ![r].expires = x] = [storage EXCEPT ![r] = u]
        BY <2>5, <3>1 DEF StampedRow
      <3>4. storage' = [storage EXCEPT ![r].expires = x] \/ (storage' = storage /\ x = s.expires)
        BY <1>2, <2>1, <2>2, <2>4 DEF Stamp, StampedExpires
      <3> QED BY <2>5, <3>1, <3>2, <3>3, <3>4
    <2>8. StorageTypes' /\ GoodRows' /\ storage'[r] = u /\ OneRow(r)
      BY <2>1, <2>6, <2>7, RowsInvParts, OneRowStep
    <2>9. ASSUME NEW q \in Runs
          PROVE  /\ SameDetail(storage[q], storage'[q])
                 /\ storage'[q].expires =
                      IF q = e.run THEN StampedExpires(storage[q], e, t) ELSE storage[q].expires
      <3>1. CASE q = r
        BY <2>1, <2>2, <2>4, <2>6, <2>8, <3>1
      <3>2. CASE q # r
        BY <2>1, <2>8, <3>2, SameDetailRefl DEF OneRow
      <3> QED BY <3>1, <3>2
    <2> QED BY <2>8, <2>9 DEF Stamping
  <1> QED BY <1>1, <1>2

\* The task row that follows the end e of an attempt.
RequeuedRow(e) ==
    [state |-> "QUEUED", attempt |-> e.attempt + 1, run |-> 0, summary |-> NoSummary, finished |-> 0]
EndedRow(e, t) == [e EXCEPT !.summary = t]

\* What recording the end e of an attempt does.
Recording(e, t, requeue) ==
    /\ Derived(e, t) /\ Stamping(e, t)
    /\ archive' = [archive EXCEPT ![e.attempt] = IF t.run # 0 THEN t ELSE @]
    /\ exec' = IF requeue THEN RequeuedRow(e) ELSE EndedRow(e, IF t.run # 0 THEN t ELSE e.summary)
    /\ exec' \in TaskRow
    /\ UNCHANGED <<sequence, owner, coord, cleaner, reader, clock>>

LEMMA RecordAttemptRows ==
  ASSUME RowsInv, NEW e \in TaskRow, e.state \in Terminal, NEW requeue \in BOOLEAN,
         requeue => e.attempt < MaxAttempt, RecordAttempt(e, requeue)
  PROVE  RowsInv' /\ \E t \in Summary : Recording(e, t, requeue)
  <1>1. PICK t : t = AttemptSummary(e)
    OBVIOUS
  <1>2. Derived(e, t) /\ t \in Summary
    BY <1>1, AttemptSummaryDerived DEF Derived
  <1>3. /\ storage' = Stamp(storage, e, t)
        /\ archive' = [archive EXCEPT ![e.attempt] = IF t.run # 0 THEN t ELSE @]
        /\ UNCHANGED <<sequence, owner, coord, cleaner, reader, clock>>
    BY <1>1 DEF RecordAttempt
  <1>4. exec' = IF requeue THEN RequeuedRow(e) ELSE EndedRow(e, IF t.run # 0 THEN t ELSE e.summary)
    BY <1>1 DEF RecordAttempt, RequeuedRow, EndedRow
  <1>5. StorageTypes' /\ GoodRows' /\ Stamping(e, t)
    BY <1>2, <1>3, StampRows
  <1>6. exec' \in TaskRow
    <2>1. e.attempt \in Attempts /\ (requeue => e.attempt + 1 \in Attempts)
      BY Constants DEF TaskRow, Attempts
    <2>2. requeue => RequeuedRow(e) \in TaskRow
      BY <2>1, NoSummaryType DEF RequeuedRow, TaskRow, RunIds
    <2>3. EndedRow(e, IF t.run # 0 THEN t ELSE e.summary) \in TaskRow
      BY <1>2 DEF EndedRow, TaskRow
    <2> QED BY <1>4, <2>2, <2>3
  <1>7. TaskTypes' /\ RunTypes'
    <2>1. archive \in [Attempts -> Summary] /\ e.attempt \in Attempts
      BY RowsInvParts DEF TaskTypes, TaskRow
    <2>2. archive' \in [Attempts -> Summary]
      BY <1>2, <1>3, <2>1
    <2> QED BY <1>3, <1>6, <2>2, RowsInvParts DEF TaskTypes, RunTypes
  <1>8. RowsInv'
    BY <1>3, <1>5, <1>7, LifecycleRows
  <1> QED BY <1>2, <1>3, <1>4, <1>5, <1>6, <1>8 DEF Recording

\* The row e an ending step of the current attempt records.
Ending(e, requeue) ==
    /\ e.state \in Terminal /\ e.attempt = exec.attempt /\ e.run = exec.run
    /\ e.summary = exec.summary
    /\ \/ exec.state \in {"RUNNING", "CANCELLING"} /\ e.finished = clock
       \/ exec.state \in Terminal /\ requeue /\ e = exec

\* A step that ends the current attempt.
EndStep ==
    \E e \in TaskRow, t \in Summary, requeue \in BOOLEAN :
        Ending(e, requeue) /\ Recording(e, t, requeue)

\* The task row with an outcome.
OutcomeRow(state) == [exec EXCEPT !.state = state, !.finished = clock]

LEMMA OutcomeRows ==
  ASSUME RowsInv, exec.state \in {"RUNNING", "CANCELLING"}, NEW state \in Terminal,
         NEW requeue \in BOOLEAN, requeue => exec.attempt < MaxAttempt,
         RecordAttempt(OutcomeRow(state), requeue)
  PROVE  RowsInv' /\ EndStep
  <1>1. PICK e : e = OutcomeRow(state)
    OBVIOUS
  <1>2. /\ e \in TaskRow /\ e.state = state /\ e.finished = clock /\ e.attempt = exec.attempt
        /\ e.run = exec.run /\ e.summary = exec.summary
    BY <1>1, RowsInvParts DEF OutcomeRow, TaskTypes, TaskRow
  <1>3. RecordAttempt(e, requeue)
    BY <1>1
  <1>4. RowsInv' /\ \E t \in Summary : Recording(e, t, requeue)
    BY <1>2, <1>3, RecordAttemptRows
  <1> QED BY <1>2, <1>4 DEF EndStep, Ending

LEMMA EndRows ==
  ASSUME RowsInv,
         \/ \E state \in Outcomes \cup {"LOST"} : Finish(state)
         \/ FailAndRetry \/ Cancel \/ RequestRetry
  PROVE  RowsInv' /\ EndStep
  <1>1. ASSUME NEW state, Finish(state) PROVE RowsInv' /\ EndStep
    <2>1. /\ state \in Terminal /\ exec.state = "RUNNING"
          /\ RecordAttempt(OutcomeRow(state), FALSE)
      BY <1>1 DEF Finish, Terminal, OutcomeRow
    <2> QED BY <2>1, OutcomeRows
  <1>2. CASE FailAndRetry
    <2>1. /\ "FAILED" \in Terminal /\ exec.state = "RUNNING" /\ exec.attempt < MaxAttempt
          /\ RecordAttempt(OutcomeRow("FAILED"), TRUE)
      BY <1>2 DEF FailAndRetry, Terminal, OutcomeRow
    <2> QED BY <2>1, OutcomeRows
  <1>3. CASE Cancel
    <2>1. /\ "CANCELLED" \in Terminal /\ exec.state = "CANCELLING"
          /\ RecordAttempt(OutcomeRow("CANCELLED"), FALSE)
      BY <1>3 DEF Cancel, Terminal, OutcomeRow
    <2> QED BY <2>1, OutcomeRows
  <1>4. CASE RequestRetry
    <2>1. PICK e \in TaskRow : e = exec
      BY RowsInvParts DEF TaskTypes
    <2>2. e.state \in Terminal /\ e.attempt < MaxAttempt /\ RecordAttempt(e, TRUE)
      BY <1>4, <2>1 DEF RequestRetry
    <2>3. RowsInv' /\ \E t \in Summary : Recording(e, t, TRUE)
      BY <2>1, <2>2, RecordAttemptRows
    <2>4. Ending(e, TRUE)
      BY <2>1, <2>2 DEF Ending
    <2> QED BY <2>1, <2>3, <2>4 DEF EndStep
  <1> QED BY <1>1, <1>2, <1>3, <1>4

-----------------------------------------------------------------------------
(***************************************************************************)
(* Every step keeps the rows good, and is of one of these kinds.           *)
(***************************************************************************)
SameTask == UNCHANGED <<exec, archive, sequence, owner, clock>>
SameRuns == UNCHANGED <<archive, sequence, owner, reader, clock>>

\* Staging, discard, selection of candidates, deletion of what nothing links, and
\* a page read: nothing a summary or another reader depends on changes.
QuietStep == KeepsDetail /\ SameTask /\ UNCHANGED reader
ReadStep ==
    /\ KeepsDetail /\ SameTask
    /\ \E a \in ReadAttempts \cap 1..exec.attempt, at \in 1..clock : ReadPage(a, at)
PublishStep ==
    /\ SameRuns
    /\ \E r \in Runs, state \in Outcomes \cup {"RUNNING"} : Publication(r, state)
FallbackStep ==
    /\ SameRuns /\ KeepsDetail
    /\ \E r \in Runs, state \in Outcomes :
          /\ ExactRun(r) /\ exec' = WithSummary(Unavailable(r, state))
          /\ Unavailable(r, state) \in Summary
          /\ Unavailable(r, state).run = r /\ Unavailable(r, state).detail = 0
CleanStep ==
    /\ SameTask /\ UNCHANGED reader
    /\ \E r \in Runs : Reset(r) /\ (ExpiredRun(r) \/ EmptyRun(r))
ClaimStep ==
    /\ SameRuns /\ KeepsDetail
    /\ exec.state = "QUEUED" /\ exec'.state = "RUNNING" /\ exec'.attempt = exec.attempt
    /\ exec'.run = 0 /\ exec'.summary = NoSummary
ReclaimStep == SameRuns /\ KeepsDetail /\ \E r \in Runs : ExactRun(r) /\ exec' = ActivatedRow(r)
CancelStep ==
    /\ SameRuns /\ KeepsDetail
    /\ exec.state = "RUNNING" /\ exec'.state = "CANCELLING" /\ exec'.attempt = exec.attempt
    /\ exec'.run = exec.run /\ exec'.summary = exec.summary
AllocateStep ==
    /\ exec.state = "RUNNING" /\ sequence + 1 \in Runs /\ exec' = ActivatedRow(sequence + 1)
    /\ sequence' = sequence + 1 /\ owner' = [owner EXCEPT ![sequence + 1] = exec.attempt]
    /\ \/ KeepsDetail /\ ~(exec.run \notin {0, sequence + 1} /\ owner[exec.run] = exec.attempt)
       \/ exec.run \in Runs /\ exec.run # sequence + 1 /\ Reset(exec.run)
    /\ UNCHANGED <<archive, reader, clock>>
TickStep ==
    KeepsDetail /\ clock' = clock + 1 /\ UNCHANGED <<exec, archive, sequence, owner, reader>>

Step ==
    \/ QuietStep \/ ReadStep \/ PublishStep \/ FallbackStep \/ CleanStep \/ ClaimStep
    \/ ReclaimStep \/ CancelStep \/ AllocateStep \/ EndStep \/ TickStep

LEMMA CoordinatorSteps ==
  ASSUME RowsInv, NEW r \in Runs, Coordinator(r)
  PROVE  RowsInv' /\ Step
  <1>1. ASSUME NEW v \in Versions(r), StageBegin(r, v) PROVE RowsInv' /\ QuietStep
    BY <1>1, StageBeginRows DEF StageBegin, QuietStep, SameTask
  <1>2. CASE StageWrite(r)
    BY <1>2, StageWriteRows DEF StageWrite, QuietStep, SameTask, Step
  <1>3. CASE StageCommit(r)
    BY <1>3, StageCommitRows DEF StageCommit, QuietStep, SameTask, Step
  <1>4. CASE Discard(r)
    BY <1>4, DiscardRows DEF Discard, QuietStep, SameTask, Step
  <1>5. ASSUME NEW state \in Outcomes, PublishUnavailable(r, state) PROVE RowsInv' /\ Step
    <2>1. /\ RowsInv' /\ KeepsDetail
          /\ exec' \in {exec, WithSummary(Unavailable(r, state))}
          /\ exec' # exec => ExactRun(r)
          /\ Unavailable(r, state) \in Summary
          /\ Unavailable(r, state).run = r /\ Unavailable(r, state).detail = 0
      BY <1>5, PublishUnavailableRows
    <2>2. UNCHANGED <<archive, sequence, owner, reader, clock>>
      BY <1>5 DEF PublishUnavailable
    <2>3. CASE exec' = exec
      BY <2>1, <2>2, <2>3 DEF QuietStep, SameTask, Step
    <2>4. CASE exec' # exec
      BY <2>1, <2>2, <2>4 DEF FallbackStep, SameRuns, Step
    <2> QED BY <2>3, <2>4
  <1>6. ASSUME coord[r].pc \in {"staged", "open"},
               NEW supplied \in SUBSET Topologies[r][coord[r].version],
               NEW state \in Outcomes \cup {"RUNNING"}, NEW observed \in NodeState,
               NEW done \in Nat, NEW removals,
               Publish(r, state, done, [n \in supplied |-> observed], removals)
        PROVE  RowsInv' /\ Step
    <2>1. PICK records : records = [n \in supplied |-> observed]
      OBVIOUS
    <2>2. supplied \in SUBSET Nodes
      <3>1. PICK v \in Versions(r) : v = coord[r].version
        BY <1>6, RowsInvParts DEF VersionKnown
      <3>2. v # 0 /\ v \in Versions(r) \cup {0}
        BY <3>1, Constants
      <3>3. Topologies[r][v] \in SUBSET Nodes
        BY <3>2, TopologyNodes
      <3> QED BY <1>6, <3>1, <3>3
    <2>3. records \in [supplied -> NodeState]
      BY <2>1
    <2>4. records \in Rows /\ DOMAIN records = supplied
      BY <2>2, <2>3, RowsIntro
    <2>5. Publish(r, state, done, records, removals)
      BY <1>6, <2>1
    <2>6. RowsInv' /\ ((KeepsDetail /\ UNCHANGED exec) \/ Publication(r, state))
      BY <2>4, <2>5, PublishRows
    <2>7. UNCHANGED <<archive, sequence, owner, reader, clock>>
      BY <2>5 DEF Publish
    <2>8. CASE KeepsDetail /\ UNCHANGED exec
      BY <2>6, <2>7, <2>8 DEF QuietStep, SameTask, Step
    <2>9. CASE Publication(r, state)
      BY <2>6, <2>7, <2>9 DEF PublishStep, SameRuns, Step
    <2> QED BY <2>6, <2>8, <2>9
  <1>7. CASE /\ coord[r].pc \in {"staged", "open"}
             /\ \E supplied \in SUBSET Topologies[r][coord[r].version], state \in Outcomes \cup {"RUNNING"} :
                  \E observed \in IF supplied = {} THEN {"RUNNING"} ELSE NodeState,
                     done \in 0..Cardinality(Topologies[r][coord[r].version]),
                     removals \in {{}, DOMAIN storage[r].rows \ supplied} :
                        Publish(r, state, done, [n \in supplied |-> observed], removals)
    <2>1. PICK supplied \in SUBSET Topologies[r][coord[r].version], state \in Outcomes \cup {"RUNNING"} :
             \E observed \in IF supplied = {} THEN {"RUNNING"} ELSE NodeState,
                done \in 0..Cardinality(Topologies[r][coord[r].version]),
                removals \in {{}, DOMAIN storage[r].rows \ supplied} :
                   Publish(r, state, done, [n \in supplied |-> observed], removals)
      BY <1>7
    <2>2. 0..Cardinality(Topologies[r][coord[r].version]) \subseteq Nat
      <3>1. PICK v \in Versions(r) : v = coord[r].version
        BY <1>7, RowsInvParts DEF VersionKnown
      <3>2. Cardinality(Topologies[r][v]) \in Nat
        BY TopologySize
      <3> QED BY <3>1, <3>2
    <2>3. \E observed \in NodeState, done \in Nat : \E removals :
             Publish(r, state, done, [n \in supplied |-> observed], removals)
      BY <2>1, <2>2 DEF NodeState
    <2> QED BY <1>6, <1>7, <2>1, <2>3
  <1> QED BY <1>1, <1>2, <1>3, <1>4, <1>5, <1>7 DEF Coordinator, Step

LEMMA NextSteps ==
  ASSUME RowsInv, Next
  PROVE  RowsInv' /\ Step
  <1>1. CASE \E r \in Runs : Coordinator(r)
    BY <1>1, CoordinatorSteps
  <1>2. CASE Claim
    BY <1>2, ClaimRows DEF Claim, ClaimStep, SameRuns, Step
  <1>3. CASE Allocate
    <2>1. exec.state = "RUNNING" /\ UNCHANGED <<archive, reader, clock>>
      BY <1>3 DEF Allocate
    <2> QED BY <1>3, <2>1, AllocateRows DEF AllocateStep, Step
  <1>4. ASSUME NEW r \in Runs, Reclaim(r) PROVE RowsInv' /\ Step
    <2>1. ExactRun(r) /\ UNCHANGED <<archive, sequence, owner, reader, clock>>
      BY <1>4 DEF Reclaim
    <2>2. RowsInv' /\ KeepsDetail /\ exec' = ActivatedRow(r)
      BY <1>4, ReclaimRows
    <2> QED BY <2>1, <2>2 DEF ReclaimStep, SameRuns, Step
  <1>5. CASE RequestCancel
    BY <1>5, RequestCancelRows DEF RequestCancel, CancelStep, SameRuns, Step
  <1>6. CASE \/ \E state \in Outcomes \cup {"LOST"} : Finish(state)
             \/ FailAndRetry \/ Cancel \/ RequestRetry
    BY <1>6, EndRows DEF Step
  <1>7. CASE \E class \in {"expired", "pending", "pages", "empty"} : CleanupSelect(class)
    BY <1>7, CleanupSelectRows DEF CleanupSelect, QuietStep, SameTask, Step
  <1>8. ASSUME NEW item \in cleaner.batch, CleanupProcess(item) PROVE RowsInv' /\ Step
    <2>1. SameTask /\ UNCHANGED reader
      BY <1>8 DEF CleanupProcess, SameTask
    <2>2. /\ RowsInv'
          /\ \/ KeepsDetail
             \/ \E r \in Runs : Reset(r) /\ (ExpiredRun(r) \/ EmptyRun(r))
      BY <1>8, CleanupProcessRows
    <2> QED BY <2>1, <2>2 DEF QuietStep, CleanStep, Step
  <1>9. ASSUME NEW a \in ReadAttempts \cap 1..exec.attempt, NEW at \in 1..clock, ReadPage(a, at)
        PROVE  RowsInv' /\ Step
    <2>1. a \in Attempts
      BY WorkflowProgressAssumption DEF Attempts
    <2>2. RowsInv' /\ KeepsDetail
      BY <1>9, <2>1, ReadPageRows
    <2>3. SameTask
      BY <1>9 DEF ReadPage, SameTask
    <2>4. ReadStep
      BY <1>9, <2>2, <2>3 DEF ReadStep
    <2> QED BY <2>2, <2>4 DEF Step
  <1>10. CASE Tick
    BY <1>10, TickRows DEF Tick, TickStep, Step
  <1> QED BY <1>1, <1>2, <1>3, <1>4, <1>5, <1>6, <1>7, <1>8, <1>9, <1>10
          DEF Next, Lifecycle, Cleanup, Reader

LEMMA StutteringSteps ==
  ASSUME RowsInv, UNCHANGED vars
  PROVE  RowsInv' /\ QuietStep
  <1>1. StorageTypes' /\ GoodRows' /\ KeepsDetail
    BY RowsInvParts, SameStorage DEF vars
  <1>2. TaskTypes' /\ RunTypes'
    BY RowsInvParts DEF vars, TaskTypes, RunTypes
  <1>3. RowsInv'
    BY <1>1, <1>2, LifecycleRows DEF vars
  <1> QED BY <1>1, <1>3 DEF QuietStep, SameTask, vars

-----------------------------------------------------------------------------
(***************************************************************************)
(* The initial state.                                                      *)
(***************************************************************************)
LEMMA InitialInv ==
  ASSUME Init
  PROVE  Inv
  <1>1. TaskTypes /\ RunTypes
    BY Constants, NoSummaryType DEF Init, TaskTypes, TaskRow, RunTypes, RunIds, Attempts
  <1>2. StorageTypes
    BY NoStorageGood DEF Init, StorageTypes
  <1>3. ProcessTypes
    <2>1. coord \in [Runs -> CoordinatorState]
      BY CoordinatorAtType DEF Init
    <2>2. cleaner \in CleanerState /\ cleaner.batch = {}
      BY DEF Init, NoBatch, CleanerState
    <2>3. NoRows \in [{} -> NodeState]
      BY DEF NoRows
    <2>4. NoRows \in Rows
      BY <2>3, RowsIntro
    <2>5. reader \in ReaderState
      BY <2>4 DEF Init, NoCursor, ReaderState, RunIds
    <2> QED BY <2>1, <2>2, <2>5 DEF ProcessTypes
  <1>4. ASSUME NEW r \in Runs
        PROVE  /\ VersionKnown(r) /\ GoodRow(r, storage[r]) /\ storage[r].detail = 0
               /\ owner[r] = 0
    BY NoStorageGood, CoordinatorAtType DEF Init, VersionKnown
  <1>5. RowsInv
    BY <1>1, <1>2, <1>3, <1>4 DEF RowsInv, TypeOK, Init
  <1>6. /\ exec.state = "QUEUED" /\ exec.attempt = 1 /\ exec.run = 0 /\ exec.summary = NoSummary
        /\ sequence = 0
    BY DEF Init
  <1>7. \A a \in Attempts : archive[a] = NoSummary
    BY DEF Init, Attempts
  <1>8. Identities
    <2>1. \A r \in Runs : ~(r <= sequence)
      BY <1>6, Constants
    <2> QED BY <1>4, <1>6, <2>1, NoSummaryType DEF Identities
  <1>9. Archived
    BY <1>6, <1>7, NoSummaryType, Constants DEF Archived, Terminal, Attempts
  <1>10. Settled
    BY <1>6 DEF Settled, Terminal
  <1>11. \A a \in Attempts : Backed(a)
    BY <1>6, <1>7, NoSummaryType DEF Backed, ReadSummary, HasDeadline
  <1>12. StaleDetailHasDeadline
    BY <1>4 DEF StaleDetailHasDeadline
  <1>13. Walking
    BY DEF Init, Walking, NoCursor
  <1> QED BY <1>5, <1>8, <1>9, <1>10, <1>11, <1>12, <1>13 DEF Inv, SummaryInv

-----------------------------------------------------------------------------
(***************************************************************************)
(* Summaries and the detail they point at.                                 *)
(***************************************************************************)
RowKept(q) == SameDetail(storage[q], storage'[q]) /\ storage'[q].expires = storage[q].expires

LEMMA CountsAddUp ==
  ASSUME NEW s \in StorageRow, Counted(s)
  PROVE  s.running + s.succeeded = s.count
  <1>1. s.rows \in Rows
    BY DEF StorageRow
  <1>2. /\ Running(s.rows) = Cardinality(DOMAIN s.rows) - Succeeded(s.rows)
        /\ Cardinality(DOMAIN s.rows) \in Nat /\ Succeeded(s.rows) \in Nat
    BY <1>1, RowsFacts, SucceededType, RunningType
  <1> QED BY <1>2 DEF Counted

LEMMA PresentKept ==
  ASSUME NEW sum, RowKept(sum.run), Present(sum)
  PROVE  Present(sum)'
  BY DEF RowKept, Present, EpochPresent, EpochConsistent, StatesFit, StatesEqual, Coherent, SameDetail

LEMMA GoneKept ==
  ASSUME RowsInv, RowsInv', NEW sum \in Summary, SameDetail(storage[sum.run], storage'[sum.run]),
         clock <= clock', Gone(sum)
  PROVE  Gone(sum)'
  <1>1. clock \in Nat /\ clock' \in Nat /\ sum.expires \in Nat
    BY DEF RowsInv, TypeOK, Summary
  <1>2. storage'[sum.run].detail = 0
    BY DEF Gone, SameDetail
  <1> QED BY <1>1, <1>2 DEF Gone

\* The summary sum is the one attempt a can be asked for.
SummaryOf(a, sum) ==
    /\ sum = ReadSummary(a)
    /\ sum.run = 0 => sum = NoSummary
    /\ sum.run # 0 => sum.run \in Runs /\ owner[sum.run] = a
    /\ a > exec.attempt => sum = NoSummary
    /\ HasDeadline(sum)
    /\ sum.detail # 0 => sum.run \in Runs /\ (Present(sum) \/ (Gone(sum) /\ Over(a)))

LEMMA OwnSummary ==
  ASSUME RowsInv, SummaryInv, NEW a \in Attempts
  PROVE  \E sum \in Summary : SummaryOf(a, sum)
  <1>1. PICK sum \in Summary : sum = ReadSummary(a)
    BY ReadSummaryType
  <1>2. sum.run = 0 => sum = NoSummary
    BY <1>1 DEF SummaryInv, Identities, Archived, ReadSummary
  <1>3. sum.run # 0 => sum.run \in Runs /\ owner[sum.run] = a
    <2>1. sum.run \in RunIds
      BY <1>1 DEF Summary
    <2> QED BY <1>1, <2>1 DEF SummaryInv, Identities, Archived, ReadSummary, RunIds
  <1>4. a > exec.attempt => sum = NoSummary
    <2>1. a \in Nat /\ exec.attempt \in Nat
      BY RowsInvParts, Constants DEF TaskTypes, TaskRow
    <2> QED BY <1>1, <2>1 DEF SummaryInv, Archived, ReadSummary
  <1>5. /\ HasDeadline(sum)
        /\ sum.detail # 0 => sum.run # 0 /\ (Present(sum) \/ (Gone(sum) /\ Over(a)))
    BY <1>1 DEF SummaryInv, Backed
  <1> QED BY <1>1, <1>2, <1>3, <1>4, <1>5 DEF SummaryOf

LEMMA BackedIntro ==
  ASSUME NEW a, NEW sum, sum = ReadSummary(a)', HasDeadline(sum),
         sum.detail # 0 => sum.run # 0 /\ (Present(sum)' \/ (Gone(sum)' /\ Over(a)'))
  PROVE  Backed(a)'
  BY DEF Backed

LEMMA BackedKept ==
  ASSUME RowsInv, RowsInv', NEW a \in Attempts, NEW sum \in Summary, SummaryOf(a, sum),
         sum = ReadSummary(a)', sum.run \in Runs => RowKept(sum.run), clock <= clock',
         Over(a) => Over(a)'
  PROVE  Backed(a)'
  <1>1. /\ HasDeadline(sum)
        /\ sum.detail # 0 => sum.run \in Runs /\ (Present(sum) \/ (Gone(sum) /\ Over(a)))
    BY DEF SummaryOf
  <1>2. ASSUME sum.detail # 0
        PROVE  sum.run # 0 /\ (Present(sum)' \/ (Gone(sum)' /\ Over(a)'))
    <2>1. sum.run \in Runs /\ sum.run # 0 /\ RowKept(sum.run)
      BY <1>1, <1>2, Constants
    <2>2. CASE Present(sum)
      BY <2>1, <2>2, PresentKept
    <2>3. CASE Gone(sum) /\ Over(a)
      <3>1. Gone(sum)'
        BY <2>1, <2>3, GoneKept DEF RowKept
      <3> QED BY <2>1, <2>3, <3>1
    <2> QED BY <1>1, <1>2, <2>2, <2>3
  <1> QED BY <1>1, <1>2, BackedIntro

LEMMA BackedEmpty ==
  ASSUME NEW a, NEW sum, sum = ReadSummary(a)', sum.detail = 0
  PROVE  Backed(a)'
  <1>1. HasDeadline(sum)
    BY DEF HasDeadline
  <1> QED BY <1>1, BackedIntro

\* Steps that leave task and runs alone: quiet ones, reads and the clock.
LEMMA SummaryAlone ==
  ASSUME RowsInv, RowsInv', SummaryInv, KeepsDetail, clock <= clock',
         UNCHANGED <<exec, archive, sequence, owner>>
  PROVE  SummaryInv'
  <1>1. Identities'
    BY DEF SummaryInv, Identities, KeepsDetail, SameDetail
  <1>2. Archived' /\ Settled'
    BY DEF SummaryInv, Archived, Settled
  <1>3. ASSUME NEW a \in Attempts PROVE Backed(a)'
    <2>1. PICK sum \in Summary : SummaryOf(a, sum)
      BY OwnSummary
    <2>2. sum = ReadSummary(a)' /\ (Over(a) => Over(a)')
      BY <2>1 DEF SummaryOf, ReadSummary, Over
    <2>3. sum.run \in Runs => RowKept(sum.run)
      BY DEF KeepsDetail, RowKept
    <2> QED BY <2>1, <2>2, <2>3, BackedKept
  <1> QED BY <1>1, <1>2, <1>3 DEF SummaryInv

LEMMA SummaryCleaned ==
  ASSUME RowsInv, RowsInv', SummaryInv, CleanStep
  PROVE  SummaryInv'
  <1>1. PICK r \in Runs : Reset(r) /\ (ExpiredRun(r) \/ EmptyRun(r))
    BY DEF CleanStep
  <1>2. UNCHANGED <<exec, archive, sequence, owner, clock>>
    BY DEF CleanStep, SameTask
  <1>3. storage'[r].detail = 0 /\ \A q \in Runs \ {r} : storage'[q] = storage[q]
    BY <1>1, NoStorageGood DEF Reset, OneRow
  <1>4. Identities'
    BY <1>2, <1>3 DEF SummaryInv, Identities
  <1>5. Archived' /\ Settled'
    BY <1>2 DEF SummaryInv, Archived, Settled
  <1>6. ASSUME NEW a \in Attempts PROVE Backed(a)'
    <2>1. PICK sum \in Summary : SummaryOf(a, sum)
      BY OwnSummary
    <2>2. sum = ReadSummary(a)' /\ (Over(a) => Over(a)') /\ clock <= clock'
      <3>1. clock \in Nat
        BY RowsInvParts
      <3> QED BY <1>2, <2>1, <3>1 DEF SummaryOf, ReadSummary, Over
    <2>3. CASE sum.run # r
      <3>1. sum.run \in Runs => RowKept(sum.run)
        BY <1>3, <2>3, SameDetailRefl DEF RowKept
      <3> QED BY <2>1, <2>2, <3>1, BackedKept
    <2>4. CASE sum.run = r
      <3>1. ASSUME sum.detail # 0 PROVE sum.run # 0 /\ Gone(sum)' /\ Over(a)'
        <4>1. Present(sum) \/ (Gone(sum) /\ Over(a))
          BY <2>1, <3>1 DEF SummaryOf
        <4>2. CASE Gone(sum) /\ Over(a)
          BY <1>2, <1>3, <2>2, <2>4, <4>2, Constants DEF Gone
        <4>3. CASE Present(sum)
          <5>1. storage[r].detail # 0 /\ storage[r].expires = sum.expires
            BY <2>4, <3>1, <4>3 DEF Present, EpochPresent
          <5>2. ExpiredRun(r)
            BY <1>1, <5>1 DEF EmptyRun
          <5>3. sum.expires # 0 /\ sum.expires <= clock /\ ~ActiveCurrent(r)
            BY <5>1, <5>2 DEF ExpiredRun
          <5>4. Gone(sum)'
            BY <1>2, <1>3, <2>4, <5>3 DEF Gone
          <5>5. Over(a)
            <6>1. owner[r] = a
              BY <2>1, <2>4, Constants DEF SummaryOf
            <6>2. CASE a = exec.attempt
              <7>1. exec.summary.run = r
                BY <2>1, <2>4, <6>2 DEF SummaryOf, ReadSummary
              <7>2. exec.run = r
                BY <7>1, Constants DEF SummaryInv, Identities
              <7> QED BY <5>3, <6>1, <6>2, <7>2 DEF ActiveCurrent, Over
            <6> QED BY <6>2 DEF Over
          <5> QED BY <2>2, <2>4, <5>4, <5>5, Constants
        <4> QED BY <4>1, <4>2, <4>3
      <3>2. HasDeadline(sum)
        BY <2>1 DEF SummaryOf
      <3> QED BY <2>2, <3>1, <3>2, BackedIntro
    <2> QED BY <2>3, <2>4
  <1> QED BY <1>4, <1>5, <1>6 DEF SummaryInv

\* A step of the current attempt, which stays current: the other attempts keep
\* summary and detail if only rows of its runs are touched.
LEMMA OtherAttempts ==
  ASSUME RowsInv, RowsInv', SummaryInv, exec'.attempt = exec.attempt, UNCHANGED <<archive, clock>>,
         \A q \in Runs : owner[q] # exec.attempt => RowKept(q),
         NEW a \in Attempts, a # exec.attempt
  PROVE  Backed(a)'
  <1>1. PICK sum \in Summary : SummaryOf(a, sum)
    BY OwnSummary
  <1>2. sum = ReadSummary(a)' /\ Over(a)'
    BY <1>1 DEF SummaryOf, ReadSummary, Over
  <1>3. sum.run \in Runs => RowKept(sum.run)
    BY <1>1, Constants DEF SummaryOf
  <1>4. clock <= clock'
    BY RowsInvParts
  <1> QED BY <1>1, <1>2, <1>3, <1>4, BackedKept

LEMMA SummaryPublished ==
  ASSUME RowsInv, RowsInv', SummaryInv, PublishStep
  PROVE  SummaryInv'
  <1>1. PICK r \in Runs, state \in Outcomes \cup {"RUNNING"} : Publication(r, state)
    BY DEF PublishStep
  <1>2. UNCHANGED <<archive, sequence, owner, clock>>
    BY DEF PublishStep, SameRuns
  <1>3. PICK t \in StorageRow : t = storage'[r]
    BY DEF RowsInv, TypeOK, StorageTypes
  <1>4. PICK rev \in Nat, done \in Nat :
          /\ exec' = WithSummary(PublishedSummary(r, t, state, rev, done))
          /\ SummaryAdmits(t, PublishedSummary(r, t, state, rev, done))
    BY <1>1, <1>3 DEF Publication
  <1>5. PICK sum : sum = PublishedSummary(r, t, state, rev, done)
    OBVIOUS
  <1>6. clock \in Nat \ {0} /\ exec \in TaskRow /\ exec.attempt \in Attempts
    BY RowsInvParts DEF TaskTypes, TaskRow
  <1>7. /\ sum \in Summary /\ sum.run = r /\ sum.state = state /\ sum.topology = t.current
        /\ sum.detail = t.detail /\ sum.count = t.count
        /\ ~sum.lastObserved /\ sum.expires = t.expires
    <2>1. t.current \in Versions(r)
      BY <1>1, <1>3 DEF Publication
    <2> QED BY <1>3, <1>4, <1>5, <1>6, <2>1, PublishedSummaryType
  <1>8. /\ exec'.summary = sum /\ exec'.state = exec.state /\ exec'.attempt = exec.attempt
        /\ exec'.run = exec.run
    BY <1>4, <1>5, <1>6, <1>7, WithSummaryType
  <1>9. /\ exec.state = "RUNNING" /\ exec.run = r /\ owner[r] = exec.attempt
        /\ OneRow(r) /\ t.exists /\ t.detail # 0
        /\ t.expires = IF state \in Terminal THEN clock + RetentionDays ELSE 0
    BY <1>1, <1>3 DEF Publication, ExactRun
  <1>10. r # 0 /\ owner[r] # 0 /\ exec.state \notin Terminal
    BY <1>6, <1>9, Constants DEF Terminal
  <1>11. Identities'
    <2>1. \A q \in Runs : storage'[q].detail # 0 => owner[q] # 0
      BY <1>9, <1>10 DEF SummaryInv, Identities, OneRow
    <2> QED BY <1>2, <1>7, <1>8, <1>9, <1>10, <2>1 DEF SummaryInv, Identities
  <1>12. Archived' /\ Settled'
    BY <1>2, <1>8, <1>10 DEF SummaryInv, Archived, Settled
  <1>13. ASSUME NEW a \in Attempts PROVE Backed(a)'
    <2>1. CASE a # exec.attempt
      <3>1. \A q \in Runs : owner[q] # exec.attempt => RowKept(q)
        BY <1>9, SameDetailRefl DEF OneRow, RowKept
      <3> QED BY <1>2, <1>8, <2>1, <3>1, OtherAttempts
    <2>2. CASE a = exec.attempt
      <3>1. sum = ReadSummary(a)'
        BY <1>8, <2>2 DEF ReadSummary
      <3>2. HasDeadline(sum)
        <4>1. clock + RetentionDays # 0
          BY <1>6, Constants
        <4> QED BY <1>7, <1>9, <4>1 DEF HasDeadline
      <3>3. Present(sum)'
        <4>1. t.running + t.succeeded = t.count
          <5>1. GoodRow(r, t)
            BY <1>3 DEF RowsInv
          <5> QED BY <1>3, <5>1, CountsAddUp DEF GoodRow
        <4>2. SummaryAdmits(t, sum)
          BY <1>4, <1>5
        <4>3. Coherent(sum)
          BY <1>7, <4>2 DEF SummaryAdmits, Coherent
        <4>4. StatesFit(t, sum) /\ (sum.complete => StatesEqual(t, sum))
          BY <4>2 DEF SummaryAdmits
        <4>5. EpochPresent(sum)'
          BY <1>3, <1>7, <1>9 DEF EpochPresent
        <4>6. EpochConsistent(sum)'
          BY <1>3, <1>7, <4>1, <4>4 DEF EpochConsistent, StatesFit, StatesEqual
        <4> QED BY <1>3, <1>7, <4>3, <4>5, <4>6 DEF Present, Coherent
      <3> QED BY <1>7, <1>10, <3>1, <3>2, <3>3, BackedIntro
    <2> QED BY <2>1, <2>2
  <1> QED BY <1>11, <1>12, <1>13 DEF Inv, SummaryInv

\* Fallback, claim, reclaim and cancellation request: the task row moves, its run
\* stays or is none, and its summary stays or has no pointers.
MoveStep ==
    /\ SameRuns /\ KeepsDetail
    /\ exec.state \notin Terminal /\ exec'.state \in {"RUNNING", "CANCELLING"}
    /\ exec'.attempt = exec.attempt
    /\ exec'.run = exec.run
    /\ \/ exec'.summary = exec.summary
       \/ /\ exec'.summary.detail = 0 /\ exec'.summary.run \in {0, exec.run}
          /\ exec'.summary.run = 0 => exec'.summary = NoSummary

LEMMA Moves ==
  ASSUME RowsInv, SummaryInv, FallbackStep \/ ClaimStep \/ ReclaimStep \/ CancelStep
  PROVE  MoveStep
  <1>1. exec \in TaskRow
    BY RowsInvParts DEF TaskTypes
  <1>2. CASE FallbackStep
    <2>1. PICK r \in Runs, state \in Outcomes :
            /\ ExactRun(r) /\ exec' = WithSummary(Unavailable(r, state))
            /\ Unavailable(r, state) \in Summary
            /\ Unavailable(r, state).run = r /\ Unavailable(r, state).detail = 0
      BY <1>2 DEF FallbackStep
    <2>2. PICK sum \in Summary : sum = Unavailable(r, state)
      BY <2>1
    <2>3. /\ exec'.summary = sum /\ exec'.state = exec.state /\ exec'.attempt = exec.attempt
          /\ exec'.run = exec.run
      BY <1>1, <2>1, <2>2, WithSummaryType
    <2>4. exec.state = "RUNNING" /\ exec.run = r /\ r # 0
      BY <2>1, Constants DEF ExactRun
    <2> QED BY <1>2, <2>1, <2>2, <2>3, <2>4 DEF MoveStep, FallbackStep, Terminal
  <1>3. CASE ClaimStep
    BY <1>3, NoSummaryType DEF ClaimStep, MoveStep, SummaryInv, Identities, Terminal
  <1>4. CASE ReclaimStep
    <2>1. PICK r \in Runs : ExactRun(r) /\ exec' = ActivatedRow(r)
      BY <1>4 DEF ReclaimStep
    <2>2. /\ exec'.run = r /\ exec'.summary = NoSummary /\ exec'.state = exec.state
          /\ exec'.attempt = exec.attempt
      BY <1>1, <2>1, ActivatedRowType
    <2>3. exec.state = "RUNNING" /\ exec.run = r
      BY <2>1 DEF ExactRun
    <2> QED BY <1>4, <2>2, <2>3, NoSummaryType DEF MoveStep, ReclaimStep, Terminal
  <1>5. CASE CancelStep
    BY <1>5 DEF CancelStep, MoveStep, Terminal
  <1> QED BY <1>2, <1>3, <1>4, <1>5

LEMMA SummaryMoved ==
  ASSUME RowsInv, RowsInv', SummaryInv, MoveStep
  PROVE  SummaryInv'
  <1>1. /\ UNCHANGED <<archive, sequence, owner, clock>> /\ KeepsDetail
        /\ exec.state \notin Terminal /\ exec'.state \in {"RUNNING", "CANCELLING"}
        /\ exec'.attempt = exec.attempt /\ exec'.run = exec.run
    BY DEF MoveStep, SameRuns
  <1>2. exec'.state \notin Terminal /\ exec'.state # "QUEUED"
    BY <1>1 DEF Terminal
  <1>3. Identities'
    <2>1. \A q \in Runs : storage'[q].detail # 0 => owner[q] # 0
      BY <1>1 DEF SummaryInv, Identities, KeepsDetail, SameDetail
    <2>2. /\ exec'.summary.run \in {0, exec'.run}
          /\ exec'.summary.run = 0 => exec'.summary = NoSummary
      BY <1>1 DEF MoveStep, SummaryInv, Identities
    <2> QED BY <1>1, <1>2, <2>1, <2>2 DEF SummaryInv, Identities
  <1>4. Archived' /\ Settled'
    BY <1>1, <1>2 DEF SummaryInv, Archived, Settled
  <1>5. ASSUME NEW a \in Attempts PROVE Backed(a)'
    <2>0. \A q \in Runs : RowKept(q)
      BY <1>1 DEF KeepsDetail, RowKept
    <2>1. CASE a # exec.attempt
      BY <1>1, <2>0, <2>1, OtherAttempts
    <2>2. CASE a = exec.attempt /\ exec'.summary = exec.summary
      <3>1. PICK sum \in Summary : SummaryOf(a, sum)
        BY OwnSummary
      <3>2. sum = ReadSummary(a)' /\ ~Over(a)
        BY <1>1, <2>2, <3>1 DEF SummaryOf, ReadSummary, Over
      <3>3. clock <= clock'
        BY <1>1, RowsInvParts
      <3> QED BY <2>0, <3>1, <3>2, <3>3, BackedKept
    <2>3. CASE a = exec.attempt /\ exec'.summary.detail = 0
      <3>1. PICK sum : sum = ReadSummary(a)'
        OBVIOUS
      <3>2. sum.detail = 0
        BY <1>1, <2>3, <3>1 DEF ReadSummary
      <3> QED BY <3>1, <3>2, BackedEmpty
    <2> QED BY <2>1, <2>2, <2>3 DEF MoveStep
  <1> QED BY <1>3, <1>4, <1>5 DEF SummaryInv

LEMMA SummaryAllocated ==
  ASSUME RowsInv, RowsInv', SummaryInv, AllocateStep
  PROVE  /\ SummaryInv'
         /\ exec.run # 0 => storage'[exec.run].detail = 0 /\ exec.run # sequence + 1
         /\ \A q \in Runs : q # exec.run => RowKept(q)
  <1>1. PICK n \in Runs : n = sequence + 1
    BY DEF AllocateStep
  <1>2. /\ exec \in TaskRow /\ exec.attempt \in Attempts /\ exec.attempt # 0
        /\ owner \in [Runs -> Attempts \cup {0}] /\ sequence \in Nat
    BY RowsInvParts, Constants DEF TaskTypes, TaskRow, RunTypes
  <1>3. /\ exec'.run = n /\ exec'.summary = NoSummary /\ exec'.state = exec.state
        /\ exec'.attempt = exec.attempt
    BY <1>1, <1>2, ActivatedRowType DEF AllocateStep
  <1>4. /\ exec.state = "RUNNING" /\ exec.state \notin Terminal /\ sequence' = n
        /\ UNCHANGED <<archive, clock>> /\ owner'[n] = exec.attempt
        /\ \A q \in Runs \ {n} : owner'[q] = owner[q]
    BY <1>1, <1>2 DEF AllocateStep, Terminal
  <1>5. owner[n] = 0 /\ n # 0
    <2>1. ~(n <= sequence)
      BY <1>1, <1>2
    <2> QED BY <2>1, Constants DEF SummaryInv, Identities
  <1>6. exec.run # 0 => exec.run \in Runs /\ owner[exec.run] = exec.attempt /\ exec.run # n
    BY <1>2, <1>5 DEF SummaryInv, Identities, TaskRow, RunIds
  <1>7. /\ exec.run # 0 => storage'[exec.run].detail = 0
        /\ \A q \in Runs : q # exec.run => RowKept(q)
    <2>1. CASE KeepsDetail /\ exec.run = 0
      BY <2>1 DEF KeepsDetail, RowKept
    <2>2. CASE exec.run \in Runs /\ Reset(exec.run)
      BY <2>2, NoStorageGood, SameDetailRefl DEF Reset, OneRow, RowKept
    <2> QED BY <1>1, <1>6, <2>1, <2>2 DEF AllocateStep
  <1>8. Identities'
    <2>1. \A q \in Runs : owner'[q] # 0 <=> q <= sequence'
      <3>1. ASSUME NEW q \in Runs PROVE owner'[q] # 0 <=> q <= n
        <4>1. CASE q = n
          BY <1>2, <1>4, <4>1, Constants
        <4>2. CASE q # n
          <5>1. q \in Nat /\ n \in Nat
            BY Constants
          <5>2. q <= n <=> q <= sequence
            BY <1>1, <1>2, <4>2, <5>1
          <5> QED BY <1>4, <4>2, <5>2 DEF SummaryInv, Identities
        <4> QED BY <4>1, <4>2
      <3> QED BY <1>4, <3>1
    <2>2. ASSUME NEW q \in Runs, storage'[q].detail # 0 PROVE owner'[q] # 0
      <3>1. storage[q].detail # 0
        BY <1>6, <1>7, <2>2, Constants DEF RowKept, SameDetail
      <3> QED BY <1>2, <1>4, <3>1 DEF SummaryInv, Identities
    <2> QED BY <1>3, <1>4, <1>5, <2>1, <2>2, NoSummaryType DEF Identities
  <1>9. Archived'
    <2>1. ASSUME NEW a \in Attempts, archive[a].run # 0 PROVE owner'[archive[a].run] = a
      <3>1. archive[a].run \in Runs /\ owner[archive[a].run] = a /\ a # 0
        BY <2>1, RowsInvParts, Constants DEF SummaryInv, Archived, TaskTypes, Summary, RunIds
      <3> QED BY <1>4, <1>5, <3>1
    <2> QED BY <1>3, <1>4, <2>1 DEF SummaryInv, Archived
  <1>10. Settled'
    BY <1>3, <1>4 DEF Settled
  <1>11. ASSUME NEW a \in Attempts PROVE Backed(a)'
    <2>1. CASE a # exec.attempt
      <3>1. \A q \in Runs : owner[q] # exec.attempt => RowKept(q)
        BY <1>6, <1>7, Constants
      <3> QED BY <1>3, <1>4, <2>1, <3>1, OtherAttempts
    <2>2. CASE a = exec.attempt
      <3>1. NoSummary = ReadSummary(a)'
        BY <1>3, <2>2 DEF ReadSummary
      <3> QED BY <3>1, NoSummaryType, BackedEmpty
    <2> QED BY <2>1, <2>2
  <1> QED BY <1>1, <1>6, <1>7, <1>8, <1>9, <1>10, <1>11 DEF SummaryInv

\* What the end of an attempt leaves: the archive and, unless the task is queued
\* again, the task row have its summary t.
Ended(e, t, requeue) ==
    /\ Ending(e, requeue) /\ Derived(e, t) /\ Stamping(e, t)
    /\ archive' = [archive EXCEPT ![exec.attempt] = t]
    /\ IF requeue
       THEN /\ exec'.state = "QUEUED" /\ exec'.attempt = exec.attempt + 1
            /\ exec'.run = 0 /\ exec'.summary = NoSummary
       ELSE /\ exec'.state = e.state /\ exec'.attempt = exec.attempt /\ exec'.run = exec.run
            /\ exec'.summary = t /\ exec'.finished = e.finished
    /\ t.run = exec.summary.run /\ t.detail = exec.summary.detail
    /\ t.run \in {0, exec.run} /\ (t.run = 0 => t = NoSummary)
    /\ exec.state \in Terminal => t = exec.summary
    /\ e.finished \in Nat \ {0}
    /\ UNCHANGED <<sequence, owner, reader, clock>>

LEMMA EndedStep ==
  ASSUME RowsInv, SummaryInv, EndStep
  PROVE  \E e \in TaskRow, t \in Summary, requeue \in BOOLEAN : Ended(e, t, requeue)
  <1>1. PICK e \in TaskRow, t \in Summary, requeue \in BOOLEAN :
          Ending(e, requeue) /\ Recording(e, t, requeue)
    BY DEF EndStep
  <1>2. /\ e.attempt = exec.attempt /\ e.run = exec.run /\ e.summary = exec.summary
        /\ exec.state \in Terminal => e = exec /\ requeue
        /\ exec.state \notin Terminal => e.finished = clock
    BY <1>1 DEF Ending, Terminal
  <1>3. /\ Derived(e, t) /\ Stamping(e, t)
        /\ archive' = [archive EXCEPT ![e.attempt] = IF t.run # 0 THEN t ELSE @]
        /\ exec' = IF requeue THEN RequeuedRow(e) ELSE EndedRow(e, IF t.run # 0 THEN t ELSE e.summary)
        /\ UNCHANGED <<sequence, owner, reader, clock>>
    BY <1>1 DEF Recording
  <1>4. /\ exec.summary.run \in {0, exec.run}
        /\ exec.summary.run = 0 => exec.summary = NoSummary
        /\ archive[exec.attempt] = IF exec.state \in Terminal THEN exec.summary ELSE NoSummary
    BY DEF SummaryInv, Identities, Archived
  <1>5. /\ t.run = exec.summary.run /\ t.detail = exec.summary.detail
        /\ t.run = 0 => t = NoSummary /\ exec.summary = NoSummary
    <2>1. CASE exec.summary.run = 0
      BY <1>2, <1>3, <1>4, <2>1, NoSummaryType DEF Derived
    <2>2. CASE exec.summary.run # 0
      BY <1>2, <1>3, <1>4, <2>2 DEF Derived
    <2> QED BY <2>1, <2>2
  <1>6. exec.state \in Terminal => t = exec.summary
    <2>1. CASE exec.summary.run = 0
      BY <1>4, <1>5, <2>1
    <2>2. CASE exec.summary.run # 0
      BY <1>2, <1>3, <1>4, <2>2 DEF Derived, SummaryInv, Settled
    <2> QED BY <2>1, <2>2
  <1>7. archive' = [archive EXCEPT ![exec.attempt] = t]
    <2>1. t.run = 0 => archive[exec.attempt] = t
      BY <1>4, <1>5
    <2> QED BY <1>2, <1>3, <2>1
  <1>8. IF requeue
        THEN /\ exec'.state = "QUEUED" /\ exec'.attempt = exec.attempt + 1
             /\ exec'.run = 0 /\ exec'.summary = NoSummary
        ELSE /\ exec'.state = e.state /\ exec'.attempt = exec.attempt /\ exec'.run = exec.run
             /\ exec'.summary = t /\ exec'.finished = e.finished
    <2>1. CASE requeue
      BY <1>2, <1>3, <2>1 DEF RequeuedRow
    <2>2. CASE ~requeue
      <3>1. exec' = EndedRow(e, t)
        BY <1>2, <1>3, <1>5, <2>2
      <3> QED BY <1>2, <2>2, <3>1 DEF EndedRow, TaskRow
    <2> QED BY <2>1, <2>2
  <1>9. e.finished \in Nat \ {0}
    BY <1>2, RowsInvParts DEF SummaryInv, Settled, TaskRow
  <1> QED BY <1>1, <1>3, <1>4, <1>5, <1>6, <1>7, <1>8, <1>9 DEF Ended

LEMMA SummaryEnded ==
  ASSUME RowsInv, RowsInv', SummaryInv, NEW e \in TaskRow, NEW t \in Summary,
         NEW requeue \in BOOLEAN, Ended(e, t, requeue)
  PROVE  SummaryInv' /\ HasDeadline(t)
  <1>0. PICK now \in Attempts : now = exec.attempt
    BY RowsInvParts DEF TaskTypes, TaskRow
  <1>1. /\ exec \in TaskRow /\ now = exec.attempt /\ now \in Attempts /\ now \in Nat /\ now # 0
        /\ exec' \in TaskRow /\ exec'.attempt \in Attempts
        /\ archive \in [Attempts -> Summary] /\ clock \in Nat
    BY <1>0, RowsInvParts, Constants DEF TaskTypes, TaskRow, RowsInv, TypeOK
  <1>2. /\ archive'[now] = t /\ \A a \in Attempts : a # now => archive'[a] = archive[a]
        /\ UNCHANGED <<sequence, owner, clock>>
    BY <1>1 DEF Ended
  <1>3. /\ e.state \in Terminal /\ "QUEUED" \notin Terminal
    BY DEF Ended, Ending, Terminal
  <1>4. t.run # 0 => t.run = exec.run /\ t.run \in Runs /\ owner[t.run] = now
    BY <1>1 DEF Ended, SummaryInv, Identities, TaskRow, RunIds
  <1>5. requeue => now + 1 \in Attempts /\ archive[now + 1] = NoSummary
    <2>1. requeue => now + 1 \in Attempts /\ now + 1 > now
      BY <1>1 DEF Ended
    <2> QED BY <1>0, <2>1 DEF SummaryInv, Archived
  <1>6. Identities'
    <2>1. \A q \in Runs : storage'[q].detail # 0 => owner'[q] # 0
      BY <1>2 DEF Ended, Stamping, SameDetail, SummaryInv, Identities
    <2>2. \A q \in Runs : owner'[q] # 0 <=> q <= sequence'
      BY <1>2 DEF SummaryInv, Identities
    <2>3. CASE requeue
      <3>1. exec'.state = "QUEUED" /\ exec'.run = 0 /\ exec'.summary = NoSummary
        BY <2>3 DEF Ended
      <3> QED BY <2>1, <2>2, <3>1, NoSummaryType DEF Identities
    <2>4. CASE ~requeue
      <3>1. /\ exec'.state = e.state /\ exec'.attempt = now /\ exec'.run = exec.run
            /\ exec'.summary = t
        BY <1>0, <2>4 DEF Ended
      <3>2. t.run \in {0, exec.run} /\ (t.run = 0 => t = NoSummary)
        BY DEF Ended
      <3>3. exec.run # 0 => owner'[exec.run] = now
        BY <1>0, <1>2 DEF SummaryInv, Identities
      <3>4. e.state # "QUEUED"
        BY <1>3
      <3> QED BY <2>1, <2>2, <3>1, <3>2, <3>3, <3>4 DEF Identities
    <2> QED BY <2>3, <2>4
  <1>7. Archived'
    <2>1. ASSUME NEW a \in Attempts
          PROVE  /\ archive'[a].run = 0 => archive'[a] = NoSummary
                 /\ archive'[a].run # 0 => owner'[archive'[a].run] = a
                 /\ a > exec'.attempt => archive'[a] = NoSummary
      <3>1. CASE a = now
        <4>1. ~(a > exec'.attempt)
          BY <1>1, <3>1 DEF Ended
        <4> QED BY <1>2, <1>4, <3>1, <4>1 DEF Ended
      <3>2. CASE a # now
        <4>1. a > exec'.attempt => a > now
          <5>1. a \in Nat
            BY Constants
          <5> QED BY <1>1, <5>1 DEF Ended
        <4> QED BY <1>0, <1>2, <3>2, <4>1 DEF SummaryInv, Archived
      <3> QED BY <3>1, <3>2
    <2>2. archive'[exec'.attempt] = IF exec'.state \in Terminal THEN exec'.summary ELSE NoSummary
      <3>1. CASE requeue
        <4>1. exec'.state = "QUEUED" /\ exec'.attempt = now + 1
          BY <1>0, <3>1 DEF Ended
        <4>2. now + 1 # now
          BY <1>1
        <4> QED BY <1>2, <1>3, <1>5, <3>1, <4>1, <4>2
      <3>2. CASE ~requeue
        BY <1>0, <1>2, <1>3, <3>2 DEF Ended
      <3> QED BY <3>1, <3>2
    <2> QED BY <2>1, <2>2 DEF Archived
  <1>8. t.run # 0 => /\ t.state = e.state
                     /\ t.detail = 0 \/ e.finished <= t.finished
    BY <1>4 DEF Ended, Ending, Derived
  <1>9. Settled'
    <2>1. CASE requeue
      <3>1. exec'.state = "QUEUED"
        BY <2>1 DEF Ended
      <3> QED BY <1>3, <3>1 DEF Settled
    <2>2. CASE ~requeue
      <3>1. exec'.state = e.state /\ exec'.summary = t /\ exec'.finished = e.finished /\ e.finished # 0
        BY <2>2 DEF Ended
      <3> QED BY <1>8, <3>1 DEF Settled
    <2> QED BY <2>1, <2>2
  <1>10. PICK sum \in Summary : SummaryOf(now, sum)
    BY <1>1, OwnSummary
  <1>11. /\ sum = exec.summary /\ sum = e.summary /\ t.run = sum.run /\ t.detail = sum.detail
         /\ e.run = exec.run
    BY <1>0, <1>10 DEF SummaryOf, ReadSummary, Ended, Ending
  <1>12. HasDeadline(t)
    <2>1. CASE t = sum
      BY <1>10, <2>1 DEF SummaryOf
    <2>2. CASE t # sum
      <3>1. t.detail # 0 => t.run # 0 /\ t.run = exec.run
        BY <1>4, NoSummaryType DEF Ended
      <3>2. t.detail # 0 => t.expires # 0
        BY <1>11, <2>2, <3>1 DEF Ended, Derived
      <3> QED BY <3>2 DEF HasDeadline
    <2> QED BY <2>1, <2>2
  <1>13. Over(now)'
    <2>1. CASE requeue
      <3>1. exec'.attempt = now + 1
        BY <1>0, <2>1 DEF Ended
      <3> QED BY <1>1, <3>1 DEF Over
    <2>2. CASE ~requeue
      BY <1>3, <2>2 DEF Ended, Over
    <2> QED BY <2>1, <2>2
  <1>14. ASSUME t.detail # 0
         PROVE  t.run # 0 /\ (Present(t)' \/ (Gone(t)' /\ Over(now)'))
    <2>1. PICK r \in Runs : r = t.run
      BY <1>4, <1>14, NoSummaryType DEF Ended
    <2>2. r # 0 /\ t.run # 0 /\ r = exec.run /\ r = e.run /\ r = sum.run
      BY <1>4, <1>11, <2>1, Constants
    <2>3. PICK s \in StorageRow : s = storage[r]
      BY RowsInvParts DEF StorageTypes
    <2>4. /\ SameDetail(s, storage'[r]) /\ storage'[r].expires = StampedExpires(s, e, t)
      BY <2>2, <2>3 DEF Ended, Stamping
    <2>5. Present(sum) \/ (Gone(sum) /\ Over(now))
      BY <1>10, <1>11, <1>14 DEF SummaryOf
    <2>6. CASE Present(sum)
      <3>1. /\ s.exists /\ s.detail = sum.detail /\ s.current = sum.topology /\ s.count = sum.count
            /\ s.running + s.succeeded = s.count
            /\ sum.lastObserved \/ StatesFit(s, sum)
            /\ sum.complete => StatesEqual(s, sum)
            /\ Coherent(sum)
        BY <2>2, <2>3, <2>6 DEF Present, EpochPresent, EpochConsistent
      <3>2. /\ t.topology = sum.topology /\ t.count = sum.count
            /\ Coherent(t)
            /\ SameStates(sum, t) \/ (t.lastObserved /\ ~t.complete)
        BY <1>11, <1>14, <2>1, <2>2, <3>1 DEF Ended, Derived
      <3>3. /\ t.lastObserved \/ StatesFit(s, t)
            /\ t.complete => StatesEqual(s, t)
        BY <3>1, <3>2 DEF SameStates, StatesFit, StatesEqual
      <3>4. storage'[r].expires = t.expires
        BY <1>11, <1>14, <2>2, <2>4, <3>1, <2>1 DEF StampedExpires
      <3>5. EpochPresent(t)'
        BY <1>11, <2>1, <2>4, <3>1, <3>2 DEF EpochPresent, SameDetail
      <3>6. Present(t)'
        <4>1. EpochConsistent(t)'
          BY <1>11, <2>1, <2>4, <3>1, <3>2, <3>3 DEF EpochConsistent, StatesFit, StatesEqual, SameDetail
        <4> QED BY <1>11, <2>1, <3>2, <3>4, <3>5, <4>1 DEF Present, Coherent
      <3> QED BY <2>2, <3>6
    <2>7. CASE Gone(sum) /\ Over(now)
      <3>1. t = sum
        BY <1>0, <1>11, <2>7 DEF Over, Ended
      <3>2. Gone(t)'
        BY <1>2, <2>1, <2>3, <2>4, <2>7, <3>1 DEF Gone, SameDetail
      <3> QED BY <1>13, <2>2, <3>2
    <2> QED BY <2>5, <2>6, <2>7
  <1>15. ASSUME NEW a \in Attempts PROVE Backed(a)'
    <2>1. CASE a = now
      <3>1. t = ReadSummary(a)'
        <4>1. CASE requeue
          <5>1. exec'.attempt = now + 1
            BY <1>0, <4>1 DEF Ended
          <5> QED BY <1>1, <1>2, <2>1, <5>1 DEF ReadSummary
        <4>2. CASE ~requeue
          BY <1>0, <2>1, <4>2 DEF Ended, ReadSummary
        <4> QED BY <4>1, <4>2
      <3> QED BY <1>12, <1>14, <2>1, <3>1, BackedIntro
    <2>2. CASE a # now /\ requeue /\ a = now + 1
      <3>1. NoSummary = ReadSummary(a)'
        BY <1>0, <2>2 DEF Ended, ReadSummary
      <3> QED BY <3>1, NoSummaryType, BackedEmpty
    <2>3. CASE a # now /\ ~(requeue /\ a = now + 1)
      <3>1. PICK old \in Summary : SummaryOf(a, old)
        BY OwnSummary
      <3>2. a # exec'.attempt
        BY <1>0, <2>3 DEF Ended
      <3>3. old = ReadSummary(a)' /\ Over(a)'
        BY <1>0, <1>2, <2>3, <3>1, <3>2 DEF SummaryOf, ReadSummary, Over
      <3>4. old.run \in Runs => RowKept(old.run)
        <4>1. old.run \in Runs => old.run # exec.run
          BY <1>0, <2>3, <3>1, Constants DEF SummaryOf, SummaryInv, Identities
        <4> QED BY <1>11, <4>1 DEF Ended, Stamping, RowKept
      <3>5. clock <= clock'
        BY <1>1, <1>2
      <3> QED BY <3>1, <3>3, <3>4, <3>5, BackedKept
    <2> QED BY <2>1, <2>2, <2>3
  <1> QED BY <1>6, <1>7, <1>9, <1>12, <1>15 DEF SummaryInv

LEMMA SummarySteps ==
  ASSUME RowsInv, RowsInv', SummaryInv, Step
  PROVE  SummaryInv'
  <1>0. clock \in Nat
    BY RowsInvParts
  <1>1. CASE QuietStep \/ ReadStep \/ TickStep
    <2>1. KeepsDetail /\ clock <= clock' /\ UNCHANGED <<exec, archive, sequence, owner>>
      BY <1>0, <1>1 DEF QuietStep, ReadStep, TickStep, SameTask
    <2> QED BY <2>1, SummaryAlone
  <1>2. CASE PublishStep
    BY <1>2, SummaryPublished
  <1>3. CASE FallbackStep \/ ClaimStep \/ ReclaimStep \/ CancelStep
    BY <1>3, Moves, SummaryMoved
  <1>4. CASE CleanStep
    BY <1>4, SummaryCleaned
  <1>5. CASE AllocateStep
    BY <1>5, SummaryAllocated
  <1>6. CASE EndStep
    BY <1>6, EndedStep, SummaryEnded
  <1> QED BY <1>1, <1>2, <1>3, <1>4, <1>5, <1>6 DEF Step

-----------------------------------------------------------------------------
(***************************************************************************)
(* The deadline of detail that is no longer active.                        *)
(***************************************************************************)

\* Run r is no longer the one the task works on.
Inactive(r) == exec.run # r \/ exec.state \in Terminal

\* Its detail has a deadline, or the one excuse.
Dated(r) ==
    \/ storage[r].expires # 0
    \/ archive[owner[r]].run = r /\ archive[owner[r]].detail = 0

LEMMA DatedKept ==
  ASSUME NEW r \in Runs, RowKept(r), UNCHANGED archive, owner'[r] = owner[r],
         Inactive(r)' => Inactive(r), storage[r].detail # 0 /\ Inactive(r) => Dated(r)
  PROVE  storage'[r].detail # 0 /\ Inactive(r)' => Dated(r)'
  BY DEF RowKept, SameDetail, Dated

LEMMA StaleSteps ==
  ASSUME RowsInv, RowsInv', SummaryInv, StaleDetailHasDeadline, Step
  PROVE  StaleDetailHasDeadline'
  <1>1. \A r \in Runs : storage[r].detail # 0 /\ Inactive(r) => Dated(r)
    BY DEF StaleDetailHasDeadline, Inactive, Dated
  <1>2. SUFFICES ASSUME NEW r \in Runs
                 PROVE  storage'[r].detail # 0 /\ Inactive(r)' => Dated(r)'
    BY DEF StaleDetailHasDeadline, Inactive, Dated
  <1>3. CASE QuietStep \/ ReadStep \/ TickStep
    <2>1. KeepsDetail /\ UNCHANGED <<exec, archive, owner>>
      BY <1>3 DEF QuietStep, ReadStep, TickStep, SameTask
    <2>2. RowKept(r) /\ (Inactive(r)' => Inactive(r))
      BY <2>1 DEF KeepsDetail, RowKept, Inactive
    <2> QED BY <1>1, <2>1, <2>2, DatedKept
  <1>4. CASE PublishStep
    <2>1. PICK q \in Runs, state \in Outcomes \cup {"RUNNING"} : Publication(q, state)
      BY <1>4 DEF PublishStep
    <2>2. exec.state = "RUNNING" /\ exec.run = q /\ OneRow(q) /\ UNCHANGED <<archive, owner>>
      BY <1>4, <2>1 DEF Publication, ExactRun, PublishStep, SameRuns
    <2>3. exec'.run = exec.run /\ exec'.state = exec.state
      BY <2>1, RowsInvParts DEF Publication, WithSummary, TaskTypes, TaskRow
    <2>4. CASE r = q
      BY <2>2, <2>3, <2>4 DEF Inactive, Terminal
    <2>5. CASE r # q
      <3>1. RowKept(r) /\ (Inactive(r)' => Inactive(r))
        BY <2>2, <2>3, <2>5, SameDetailRefl DEF OneRow, RowKept, Inactive
      <3> QED BY <1>1, <2>2, <3>1, DatedKept
    <2> QED BY <2>4, <2>5
  <1>5. CASE FallbackStep \/ ClaimStep \/ ReclaimStep \/ CancelStep
    <2>1. MoveStep
      BY <1>5, Moves
    <2>2. /\ KeepsDetail /\ UNCHANGED <<archive, owner>> /\ exec'.run = exec.run
          /\ exec'.state \notin Terminal
      BY <2>1 DEF MoveStep, SameRuns, Terminal
    <2>3. RowKept(r) /\ (Inactive(r)' => Inactive(r))
      BY <2>2 DEF KeepsDetail, RowKept, Inactive
    <2> QED BY <1>1, <2>2, <2>3, DatedKept
  <1>6. CASE CleanStep
    <2>1. PICK q \in Runs : Reset(q)
      BY <1>6 DEF CleanStep
    <2>2. UNCHANGED <<exec, archive, owner>>
      BY <1>6 DEF CleanStep, SameTask
    <2>3. CASE r = q
      BY <2>1, <2>3, NoStorageGood DEF Reset
    <2>4. CASE r # q
      <3>1. RowKept(r) /\ (Inactive(r)' => Inactive(r))
        BY <2>1, <2>2, <2>4, SameDetailRefl DEF Reset, OneRow, RowKept, Inactive
      <3> QED BY <1>1, <2>2, <3>1, DatedKept
    <2> QED BY <2>3, <2>4
  <1>7. CASE AllocateStep
    <2>1. PICK n \in Runs : n = sequence + 1
      BY <1>7 DEF AllocateStep
    <2>2. /\ exec'.run = n /\ exec'.state = exec.state
      BY <1>7, <2>1, RowsInvParts, ActivatedRowType DEF AllocateStep, TaskTypes
    <2>3. exec.state \notin Terminal /\ UNCHANGED archive
      BY <1>7 DEF AllocateStep, Terminal
    <2>4. CASE r = n
      BY <2>2, <2>3, <2>4 DEF Inactive
    <2>5. CASE r # n /\ r = exec.run
      BY <1>7, <2>5, SummaryAllocated, Constants
    <2>6. CASE r # n /\ r # exec.run
      <3>1. RowKept(r)
        BY <1>7, <2>6, SummaryAllocated
      <3>2. owner'[r] = owner[r]
        BY <1>7, <2>1, <2>6, RowsInvParts DEF AllocateStep, RunTypes
      <3>3. Inactive(r)
        BY <2>6 DEF Inactive
      <3> QED BY <1>1, <2>3, <3>1, <3>2, <3>3, DatedKept
    <2> QED BY <2>4, <2>5, <2>6
  <1>8. CASE EndStep
    <2>1. PICK e \in TaskRow, t \in Summary, requeue \in BOOLEAN : Ended(e, t, requeue)
      BY <1>8, EndedStep
    <2>2. SUFFICES ASSUME storage'[r].detail # 0 PROVE Dated(r)'
      OBVIOUS
    <2>3. PICK s \in StorageRow : s = storage[r]
      BY RowsInvParts DEF StorageTypes
    <2>4. /\ SameDetail(s, storage'[r]) /\ s.detail # 0
          /\ storage'[r].expires = IF r = exec.run THEN StampedExpires(s, e, t) ELSE s.expires
      BY <2>1, <2>2, <2>3 DEF Ended, Ending, Stamping, SameDetail
    <2>5. s.exists
      BY <2>3, <2>4, RowsInvParts DEF GoodRows, GoodRow
    <2>6. /\ archive \in [Attempts -> Summary] /\ exec.attempt \in Attempts
          /\ archive' = [archive EXCEPT ![exec.attempt] = t] /\ UNCHANGED owner
      BY <2>1, RowsInvParts DEF Ended, TaskTypes, TaskRow
    <2>7. CASE r # exec.run
      <3>1. Dated(r) /\ storage'[r].expires = storage[r].expires
        BY <1>1, <2>3, <2>4, <2>7 DEF Inactive
      <3>2. CASE exec.state \in Terminal
        <4>1. archive' = archive
          BY <2>1, <2>6, <3>2 DEF Ended, SummaryInv, Archived
        <4> QED BY <2>6, <3>1, <4>1 DEF Dated
      <3>3. CASE exec.state \notin Terminal
        <4>1. archive[exec.attempt].run # r
          BY <3>3, NoSummaryType, Constants DEF SummaryInv, Archived
        <4>2. CASE owner[r] = exec.attempt
          BY <3>1, <4>1, <4>2 DEF Dated
        <4>3. CASE owner[r] # exec.attempt
          <5>1. archive'[owner[r]] = archive[owner[r]]
            <6>1. owner[r] \in Attempts
              BY <2>3, <2>4, RowsInvParts DEF RunTypes, SummaryInv, Identities
            <6> QED BY <2>6, <4>3, <6>1
          <5> QED BY <2>6, <3>1, <5>1 DEF Dated
        <4> QED BY <4>2, <4>3
      <3> QED BY <3>2, <3>3
    <2>8. CASE r = exec.run
      <3>0. owner[r] = exec.attempt /\ archive'[owner[r]] = t /\ owner'[r] = owner[r]
        BY <2>6, <2>8, Constants DEF SummaryInv, Identities
      <3>1. CASE t.run = 0
        <4>1. storage'[r].expires = e.finished + RetentionDays
          BY <2>4, <2>5, <2>8, <3>1 DEF StampedExpires
        <4>2. e.finished \in Nat \ {0}
          BY <2>1 DEF Ended
        <4>3. e.finished + RetentionDays # 0
          BY <4>2, Constants
        <4> QED BY <4>1, <4>3 DEF Dated
      <3>2. CASE t.run # 0 /\ t.detail = 0
        <4>1. t.run = r
          BY <2>1, <2>8, <3>2 DEF Ended
        <4> QED BY <3>0, <3>2, <4>1 DEF Dated
      <3>3. CASE t.run # 0 /\ t.detail # 0
        <4>1. HasDeadline(t)
          BY <2>1, SummaryEnded
        <4>2. t.state \in Terminal /\ t.run = r
          BY <2>1, <2>8, <3>3 DEF Ended, Ending, Derived
        <4>3. PICK sum \in Summary : SummaryOf(exec.attempt, sum)
          BY <2>6, OwnSummary
        <4>4. sum = exec.summary /\ sum.detail = t.detail /\ sum.run = r
          BY <2>1, <4>2, <4>3 DEF SummaryOf, ReadSummary, Ended
        <4>5. s.detail = t.detail
          BY <2>3, <2>4, <3>3, <4>3, <4>4 DEF SummaryOf, Present, EpochPresent, Gone
        <4>6. storage'[r].expires = t.expires
          BY <2>4, <2>5, <2>8, <3>3, <4>5 DEF StampedExpires
        <4> QED BY <3>3, <4>1, <4>2, <4>6 DEF Dated, HasDeadline
      <3> QED BY <3>1, <3>2, <3>3
    <2> QED BY <2>7, <2>8
  <1> QED BY <1>3, <1>4, <1>5, <1>6, <1>7, <1>8 DEF Step

-----------------------------------------------------------------------------
(***************************************************************************)
(* Readers.                                                                *)
(***************************************************************************)

\* The rows left after the next page of a walk.
Unread(got, rows) ==
    {m \in DOMAIN rows : \A k \in DOMAIN got : k < m} \ Page(got, rows)

LEMMA InitialLonger ==
  ASSUME NEW got \in Rows, NEW rows \in Rows, Initial(got, rows)
  PROVE  /\ Initial(Longer(got, rows), rows)
         /\ Unread(got, rows) = DOMAIN rows \ DOMAIN Longer(got, rows)
  <1> DEFINE left == {m \in DOMAIN rows : \A k \in DOMAIN got : k < m}
             page == Page(got, rows)
             new == Longer(got, rows)
  <1>1. DOMAIN got \subseteq DOMAIN rows /\ DOMAIN rows \subseteq Nat
    BY RowsFacts, Constants DEF Initial
  <1>2. left = DOMAIN rows \ DOMAIN got
    <2>1. ASSUME NEW m \in DOMAIN got PROVE ~(\A k \in DOMAIN got : k < m)
      BY <1>1, <2>1
    <2> QED BY <1>1, <2>1 DEF Initial
  <1>3. page = {m \in left : \A k \in left : m <= k}
    BY DEF Page
  <1>4. DOMAIN new = DOMAIN got \cup page
    BY LongerType
  <1>5. \A n \in DOMAIN new : new[n] = rows[n]
    BY <1>4 DEF Longer, Initial
  <1>6. ASSUME NEW n \in DOMAIN new, NEW m \in DOMAIN rows \ DOMAIN new PROVE n < m
    <2>1. m \in left /\ m \in Nat /\ n \in Nat /\ n # m
      BY <1>1, <1>2, <1>3, <1>4
    <2>2. CASE n \in DOMAIN got
      BY <1>4, <2>2 DEF Initial
    <2>3. CASE n \in page
      BY <1>3, <2>1, <2>3
    <2> QED BY <1>4, <2>2, <2>3
  <1>7. Initial(new, rows)
    <2>1. DOMAIN new \subseteq DOMAIN rows
      BY <1>1, <1>3, <1>4
    <2> HIDE DEF new
    <2> QED BY <1>5, <1>6, <2>1 DEF Initial
  <1>8. Unread(got, rows) = DOMAIN rows \ DOMAIN new
    <2>1. Unread(got, rows) = left \ page
      BY DEF Unread
    <2> QED BY <1>2, <1>4, <2>1
  <1> QED BY <1>7, <1>8

\* The result of a page request for the summary sum with the rows s.
Verdict(sum, s, at) ==
    LET seen == Cardinality(DOMAIN Longer(reader.got, s.rows)) IN
    IF \/ reader.attempt # 0 /\ CursorExpired(sum)
       \/ sum.detail # 0 /\ sum.expires # 0 /\ sum.expires <= at
    THEN "expired"
    ELSE IF sum.detail = 0 THEN "empty"
    ELSE IF ~EpochPresent(sum) THEN "missing"
    ELSE IF ~EpochConsistent(sum) THEN "corrupt"
    ELSE IF seen < s.count THEN (IF Unread(reader.got, s.rows) # {} THEN "page" ELSE "missing")
    ELSE IF Unread(reader.got, s.rows) # {} \/ (Page(reader.got, s.rows) # {} /\ seen > s.count)
         THEN "corrupt"
    ELSE "done"

LEMMA AnswerVerdict ==
  ASSUME NEW a, NEW at, ReadSummary(a).run # 0
  PROVE  Answer(a, at).result = Verdict(ReadSummary(a), storage[ReadSummary(a).run], at)
  BY DEF Answer, Verdict, Unread, Page, Longer

LEMMA AnswerEmpty ==
  ASSUME NEW a, NEW at, ReadSummary(a).detail = 0
  PROVE  Answer(a, at).result \in {"expired", "empty"}
  BY DEF Answer

\* A walk that meets its publication has got its first rows.
LEMMA WalkBegun ==
  ASSUME RowsInv, Walking, NEW sum \in Summary, sum.run \in Runs, sum.detail # 0, EpochPresent(sum),
         reader.attempt # 0 => ~CursorExpired(sum)
  PROVE  Initial(reader.got, storage[sum.run].rows)
  <1>1. CASE reader.attempt = 0
    <2>1. reader.got = NoRows /\ DOMAIN NoRows = {}
      BY <1>1 DEF Walking, NoCursor, NoRows
    <2> QED BY <2>1 DEF Initial
  <1>2. CASE reader.attempt # 0
    <2>1. reader.run = sum.run /\ reader.detail = sum.detail
      BY <1>2 DEF CursorExpired
    <2>2. storage[sum.run].detail = sum.detail
      BY DEF EpochPresent
    <2> QED BY <1>2, <2>1, <2>2 DEF Walking
  <1> QED BY <1>1, <1>2

LEMMA ReaderRight ==
  ASSUME RowsInv, SummaryInv, Walking, NEW a \in Attempts, NEW at
  PROVE  /\ Answer(a, at).result = "done" => Answer(a, at).got = storage[ReadSummary(a).run].rows
         /\ Answer(a, at).result # "corrupt"
         /\ Answer(a, at).result = "missing" =>
               ReadSummary(a).expires # 0 /\ ReadSummary(a).expires <= clock
         /\ Answer(a, at).result = "page" =>
               /\ ReadSummary(a).detail # 0 /\ ReadSummary(a).run \in Runs
               /\ ReadSummary(a).run <= sequence
               /\ storage[ReadSummary(a).run].detail = ReadSummary(a).detail
               /\ Initial(Answer(a, at).got, storage[ReadSummary(a).run].rows)
  <1>1. PICK sum \in Summary : SummaryOf(a, sum)
    BY OwnSummary
  <1>2. sum = ReadSummary(a)
    BY <1>1 DEF SummaryOf
  <1>3. CASE sum.detail = 0
    BY <1>2, <1>3, AnswerEmpty
  <1>4. CASE sum.detail # 0
    <2>1. sum.run \in Runs /\ sum.run # 0 /\ owner[sum.run] = a
          /\ (Present(sum) \/ (Gone(sum) /\ Over(a)))
      BY <1>1, <1>4, Constants DEF SummaryOf
    <2>2. PICK s \in StorageRow : s = storage[sum.run]
      BY <2>1, RowsInvParts DEF StorageTypes
    <2>3. Answer(a, at).result = Verdict(sum, s, at)
      BY <1>2, <2>1, <2>2, AnswerVerdict
    <2>4. PICK got \in Rows : got = reader.got
      BY RowsInvParts DEF ProcessTypes, ReaderState
    <2>5. s.rows \in Rows /\ s.count = Cardinality(DOMAIN s.rows)
      BY <2>1, <2>2, RowsInvParts DEF StorageRow, GoodRows, GoodRow, Counted
    <2>6. PICK new \in Rows : new = Longer(got, s.rows)
      BY <2>4, <2>5, LongerType
    <2>7. Answer(a, at).got = new
      <3>1. Answer(a, at).got = Longer(reader.got, FoundRows(a))
        BY AnswerGot
      <3>2. FoundRows(a) = s.rows
        BY <1>2, <2>1, <2>2 DEF FoundRows
      <3> QED BY <2>4, <2>6, <3>1, <3>2
    <2>8. CASE ~EpochPresent(sum)
      <3>1. Answer(a, at).result \in {"expired", "missing"}
        BY <1>4, <2>3, <2>8 DEF Verdict
      <3>2. sum.expires # 0 /\ sum.expires <= clock
        BY <2>1, <2>8 DEF Present, Gone
      <3> QED BY <1>2, <3>1, <3>2
    <2>9. CASE EpochPresent(sum) /\ reader.attempt # 0 /\ CursorExpired(sum)
      BY <2>3, <2>9 DEF Verdict
    <2>10. CASE EpochPresent(sum) /\ ~(reader.attempt # 0 /\ CursorExpired(sum))
      <3>1. EpochConsistent(sum)
        BY <1>4, <2>1, <2>10 DEF Present, Gone, EpochPresent
      <3>2. Initial(got, s.rows)
        BY <1>4, <2>1, <2>2, <2>4, <2>10, WalkBegun
      <3>3. Initial(new, s.rows) /\ Unread(got, s.rows) = DOMAIN s.rows \ DOMAIN new
        BY <2>4, <2>5, <2>6, <3>2, InitialLonger
      <3>4. /\ IsFiniteSet(DOMAIN s.rows) /\ Cardinality(DOMAIN s.rows) \in Nat
            /\ s.rows \in [DOMAIN s.rows -> NodeState]
            /\ IsFiniteSet(DOMAIN new) /\ Cardinality(DOMAIN new) \in Nat
            /\ new \in [DOMAIN new -> NodeState] /\ DOMAIN new \subseteq DOMAIN s.rows
        BY <2>5, <2>6, <3>3, RowsFacts DEF Initial
      <3>5. /\ Cardinality(DOMAIN new) <= Cardinality(DOMAIN s.rows)
            /\ Cardinality(DOMAIN new) = Cardinality(DOMAIN s.rows) => DOMAIN new = DOMAIN s.rows
        BY <3>4, FS_Subset
      <3>6. CASE DOMAIN new = DOMAIN s.rows
        <4>1. new = s.rows
          BY <3>3, <3>4, <3>6 DEF Initial
        <4>2. Answer(a, at).result \in {"expired", "done"}
          BY <1>4, <2>3, <2>4, <2>5, <2>6, <2>10, <3>1, <3>3, <3>4, <3>6 DEF Verdict
        <4> QED BY <1>2, <2>2, <2>7, <4>1, <4>2
      <3>7. CASE DOMAIN new # DOMAIN s.rows
        <4>1. Unread(got, s.rows) # {} /\ Cardinality(DOMAIN new) < s.count
          BY <2>5, <3>3, <3>4, <3>5, <3>7
        <4>2. Answer(a, at).result \in {"expired", "page"}
          BY <1>4, <2>3, <2>4, <2>6, <2>10, <3>1, <4>1 DEF Verdict
        <4>3. sum.run <= sequence
          BY <2>1, Constants DEF SummaryInv, Identities
        <4>4. storage[sum.run].detail = sum.detail
          BY <2>10 DEF EpochPresent
        <4> QED BY <1>2, <1>4, <2>1, <2>2, <2>7, <3>3, <4>2, <4>3, <4>4
      <3> QED BY <3>6, <3>7
    <2> QED BY <2>8, <2>9, <2>10
  <1> QED BY <1>3, <1>4

LEMMA WalkingSteps ==
  ASSUME RowsInv, RowsInv', SummaryInv, Walking, Step, UNCHANGED reader
  PROVE  Walking'
  <1>1. CASE reader.attempt = 0
    BY <1>1 DEF Walking
  <1>2. CASE reader.attempt # 0
    <2>1. reader \in ReaderState
      BY RowsInvParts DEF ProcessTypes
    <2>2. PICK r \in Runs : r = reader.run
      BY <1>2, <2>1 DEF Walking, ReaderState, RunIds
    <2>3. PICK d \in Nat \ {0} : d = reader.detail
      BY <1>2, <2>1 DEF Walking, ReaderState
    <2>4. /\ r <= sequence /\ (storage[r].detail = d => Initial(reader.got, storage[r].rows))
          /\ storage[r].detail < d => Inactive(r)
      BY <1>2, <2>2, <2>3 DEF Walking, Inactive
    <2>5. storage[r].detail \in Nat /\ storage'[r].detail \in Nat /\ sequence \in Nat /\ r \in Nat
      BY RowsInvParts, Constants DEF StorageTypes, StorageRow, RowsInv, TypeOK, RunTypes
    <2>6. SUFFICES /\ r <= sequence'
                   /\ storage'[r].detail = d => Initial(reader.got, storage'[r].rows)
                   /\ storage'[r].detail < d => Inactive(r)'
      BY <1>2, <2>2, <2>3, Constants DEF Walking, Inactive
    <2>7. ASSUME SameDetail(storage[r], storage'[r]), r <= sequence', Inactive(r) => Inactive(r)'
          PROVE  /\ r <= sequence'
                 /\ storage'[r].detail = d => Initial(reader.got, storage'[r].rows)
                 /\ storage'[r].detail < d => Inactive(r)'
      BY <2>4, <2>7 DEF SameDetail
    <2>8. CASE QuietStep \/ ReadStep \/ TickStep
      <3>1. SameDetail(storage[r], storage'[r]) /\ UNCHANGED <<exec, sequence>>
        BY <2>8 DEF QuietStep, ReadStep, TickStep, SameTask, KeepsDetail
      <3> QED BY <2>4, <2>7, <3>1 DEF Inactive
    <2>9. CASE PublishStep
      <3>1. PICK q \in Runs, state \in Outcomes \cup {"RUNNING"} : Publication(q, state)
        BY <2>9 DEF PublishStep
      <3>2. /\ exec.state = "RUNNING" /\ exec.run = q /\ OneRow(q) /\ UNCHANGED sequence
            /\ storage'[q].detail \in {storage[q].detail, storage[q].detail + 1}
            /\ storage'[q].detail = storage[q].detail => storage'[q].rows = storage[q].rows
        BY <2>9, <3>1 DEF Publication, ExactRun, PublishStep, SameRuns
      <3>3. exec'.run = exec.run /\ exec'.state = exec.state
        BY <3>1, RowsInvParts DEF Publication, WithSummary, TaskTypes, TaskRow
      <3>4. CASE r = q
        <4>1. ~Inactive(r)
          BY <3>2, <3>4 DEF Inactive, Terminal
        <4> QED BY <2>4, <2>5, <3>2, <3>4, <4>1
      <3>5. CASE r # q
        <4>1. SameDetail(storage[r], storage'[r])
          BY <3>2, <3>5, SameDetailRefl DEF OneRow
        <4> QED BY <2>4, <2>7, <3>2, <3>3, <4>1 DEF Inactive
      <3> QED BY <3>4, <3>5
    <2>10. CASE FallbackStep \/ ClaimStep \/ ReclaimStep \/ CancelStep
      <3>1. MoveStep
        BY <2>10, Moves
      <3>2. /\ SameDetail(storage[r], storage'[r]) /\ UNCHANGED sequence /\ exec'.run = exec.run
            /\ exec.state \notin Terminal
        BY <3>1 DEF MoveStep, SameRuns, KeepsDetail
      <3> QED BY <2>4, <2>7, <3>2 DEF Inactive
    <2>11. CASE CleanStep
      <3>1. PICK q \in Runs : Reset(q) /\ ~ActiveCurrent(q)
        BY <2>11 DEF CleanStep, ExpiredRun, EmptyRun
      <3>2. UNCHANGED <<exec, sequence>>
        BY <2>11 DEF CleanStep, SameTask
      <3>3. CASE r = q
        <4>1. storage'[r].detail = 0
          BY <3>1, <3>3, NoStorageGood DEF Reset
        <4>2. Inactive(r)
          BY <3>1, <3>3, Constants DEF ActiveCurrent, Inactive, SummaryInv, Identities
        <4> QED BY <2>3, <2>4, <3>2, <4>1, <4>2 DEF Inactive
      <3>4. CASE r # q
        <4>1. SameDetail(storage[r], storage'[r])
          BY <3>1, <3>4, SameDetailRefl DEF Reset, OneRow
        <4> QED BY <2>4, <2>7, <3>2, <4>1 DEF Inactive
      <3> QED BY <3>3, <3>4
    <2>12. CASE AllocateStep
      <3>1. PICK n \in Runs : n = sequence + 1
        BY <2>12 DEF AllocateStep
      <3>2. exec'.run = n /\ sequence' = n
        BY <2>12, <3>1, RowsInvParts, ActivatedRowType DEF AllocateStep, TaskTypes
      <3>3. r # n /\ r <= sequence' /\ Inactive(r)'
        <4>1. r # n /\ r <= n
          BY <2>4, <2>5, <3>1
        <4> QED BY <3>2, <4>1 DEF Inactive
      <3>4. CASE r = exec.run
        <4>1. storage'[r].detail = 0
          BY <2>12, <3>4, SummaryAllocated, Constants
        <4> QED BY <2>3, <3>3, <4>1
      <3>5. CASE r # exec.run
        <4>1. SameDetail(storage[r], storage'[r])
          BY <2>12, <3>5, SummaryAllocated DEF RowKept
        <4> QED BY <2>7, <3>3, <4>1
      <3> QED BY <3>4, <3>5
    <2>13. CASE EndStep
      <3>1. PICK e \in TaskRow, t \in Summary, requeue \in BOOLEAN : Ended(e, t, requeue)
        BY <2>13, EndedStep
      <3>2. SameDetail(storage[r], storage'[r]) /\ UNCHANGED sequence
        BY <3>1 DEF Ended, Stamping
      <3>3. Inactive(r)'
        <4>1. CASE requeue
          BY <3>1, <4>1, Constants DEF Ended, Inactive
        <4>2. CASE ~requeue
          BY <3>1, <4>2 DEF Ended, Ending, Inactive
        <4> QED BY <4>1, <4>2
      <3> QED BY <2>4, <2>7, <3>2, <3>3
    <2> QED BY <2>8, <2>9, <2>10, <2>11, <2>12, <2>13 DEF Step
  <1> QED BY <1>1, <1>2

LEMMA WalkingRead ==
  ASSUME RowsInv, SummaryInv, Walking, ReadStep
  PROVE  Walking'
  <1>1. PICK a \in ReadAttempts \cap 1..exec.attempt, at \in 1..clock : ReadPage(a, at)
    BY DEF ReadStep
  <1>2. a \in Attempts /\ a # 0
    BY <1>1, WorkflowProgressAssumption DEF Attempts
  <1>3. PICK sum \in Summary : sum = ReadSummary(a)
    BY <1>2, ReadSummaryType
  <1>4. CASE Answer(a, at).result # "page"
    <2>1. reader' = NoCursor
      BY <1>1, <1>4 DEF ReadPage
    <2> QED BY <2>1 DEF Walking, NoCursor
  <1>5. CASE Answer(a, at).result = "page"
    <2>1. PICK got : got = Answer(a, at).got
      OBVIOUS
    <2>2. reader' = [attempt |-> a, run |-> sum.run, rev |-> sum.rev, topology |-> sum.topology,
                     detail |-> sum.detail, got |-> got]
      BY <1>1, <1>3, <1>5, <2>1 DEF ReadPage
    <2>3. /\ sum.detail # 0 /\ sum.run \in Runs /\ sum.run # 0 /\ sum.run <= sequence
          /\ storage[sum.run].detail = sum.detail /\ Initial(got, storage[sum.run].rows)
      BY <1>2, <1>3, <1>5, <2>1, ReaderRight, Constants
    <2>4. sum.detail \in Nat /\ ~(sum.detail < sum.detail)
      BY <1>3 DEF Summary
    <2>5. /\ reader'.attempt = a /\ reader'.run = sum.run /\ reader'.detail = sum.detail
          /\ reader'.got = got
      BY <2>2
    <2>6. UNCHANGED <<storage, sequence>>
      BY <1>1 DEF ReadPage
    <2> QED BY <1>2, <2>3, <2>4, <2>5, <2>6 DEF Walking
  <1> QED BY <1>4, <1>5

-----------------------------------------------------------------------------
(***************************************************************************)
(* The results.                                                            *)
(***************************************************************************)
LEMMA InvStep == Inv /\ [Next]_vars => Inv'
  <1> SUFFICES ASSUME Inv, [Next]_vars PROVE Inv'
    OBVIOUS
  <1>1. RowsInv /\ SummaryInv /\ StaleDetailHasDeadline /\ Walking
    BY DEF Inv
  <1>2. RowsInv' /\ Step
    <2>1. CASE Next
      BY <1>1, <2>1, NextSteps
    <2>2. CASE UNCHANGED vars
      BY <1>1, <2>2, StutteringSteps DEF Step
    <2> QED BY <2>1, <2>2
  <1>3. SummaryInv'
    BY <1>1, <1>2, SummarySteps
  <1>4. StaleDetailHasDeadline'
    BY <1>1, <1>2, StaleSteps
  <1>5. Walking'
    <2>1. CASE ReadStep
      BY <1>1, <2>1, WalkingRead
    <2>2. CASE ~ReadStep
      <3>1. UNCHANGED reader
        BY <1>2, <2>2 DEF Step, QuietStep, PublishStep, FallbackStep, CleanStep, ClaimStep,
              ReclaimStep, CancelStep, AllocateStep, EndStep, TickStep, SameRuns, Recording
      <3> QED BY <1>1, <1>2, <3>1, WalkingSteps
    <2> QED BY <2>1, <2>2
  <1> QED BY <1>2, <1>3, <1>4, <1>5 DEF Inv

LEMMA InvHolds == Spec => []Inv
  <1>1. Init => Inv
    BY InitialInv
  <1> QED BY <1>1, InvStep, PTL DEF Spec

\* The rows of WorkflowProgressRunStorage and its children, the task row, coordinators,
\* the cleanup command and readers keep their types: revisions, versions and deadlines
\* are numbers, the details of a run are of known nodes.
THEOREM TypeCorrect == Spec => []TypeOK
  <1>1. Inv => TypeOK
    BY DEF Inv, RowsInv
  <1> QED BY <1>1, InvHolds, PTL

\* persist_workflow_progress_publication maintains count, bytes and state count by
\* deltas, over any number of removed, replaced, rejected and added records: they agree
\* with the rows, and the rows are of the current topology, for all limits and topologies.
THEOREM AggregatesAgree == Spec => []AggregatesMatchRows
  <1>1. Inv => AggregatesMatchRows
    <2> SUFFICES ASSUME RowsInv, NEW r \in Runs
                 PROVE  /\ storage[r].count = Cardinality(DOMAIN storage[r].rows)
                        /\ storage[r].count <= MaxItems
                        /\ storage[r].running = Running(storage[r].rows)
                        /\ storage[r].succeeded = Succeeded(storage[r].rows)
                        /\ storage[r].bytes = Bytes(storage[r].rows) /\ storage[r].bytes <= MaxBytes
                        /\ DOMAIN storage[r].rows \subseteq
                             LinkedPages(r, [storage[r] EXCEPT !.pending = 0])
      BY DEF AggregatesMatchRows, Inv
    <2>1. PICK s \in StorageRow : s = storage[r]
      BY RowsInvParts DEF StorageTypes
    <2>2. GoodRow(r, s)
      BY <2>1, RowsInvParts DEF GoodRows
    <2>3. PICK u : u = [s EXCEPT !.pending = 0]
      OBVIOUS
    <2>4. u.current = s.current /\ u.pending = 0
      BY <2>1, <2>3 DEF StorageRow
    <2>5. LinkedPages(r, u) = NodesOf(r, u.current) \cup NodesOf(r, u.pending)
      BY Linked
    <2>6. LinkedPages(r, u) = NodesOf(r, s.current)
      BY <2>4, <2>5 DEF NodesOf
    <2> QED BY <2>1, <2>2, <2>3, <2>6 DEF GoodRow, Counted
  <1> QED BY <1>1, InvHolds, PTL

\* Publication, discard and the orphan-page cleanup never delete a page that a CURRENT
\* or PENDING manifest links, whatever they delete around it.
THEOREM LinkedPagesStored == Spec => []ManifestPagesStored
  <1>1. Inv => ManifestPagesStored
    <2> SUFFICES ASSUME RowsInv, NEW r \in Runs
                 PROVE  LinkedPages(r, storage[r]) \subseteq storage[r].pages
      BY DEF ManifestPagesStored, Inv
    <2>1. LinkedPages(r, storage[r]) = NodesOf(r, storage[r].current) \cup NodesOf(r, storage[r].pending)
      BY Linked
    <2> QED BY <2>1, RowsInvParts DEF GoodRows, GoodRow
  <1> QED BY <1>1, InvHolds, PTL

\* Allocation, reclaim, cleanup, retry and the rewriting of summaries at an attempt's end
\* never part a summary whose detail has not expired from its rows.
THEOREM SummariesBacked == Spec => []SummaryBacked
  <1>1. Inv => SummaryBacked
    <2> SUFFICES ASSUME Inv, NEW a \in Attempts, ReadSummary(a).detail # 0,
                        ReadSummary(a).expires = 0 \/ ReadSummary(a).expires > clock
                 PROVE  /\ EpochPresent(ReadSummary(a)) /\ EpochConsistent(ReadSummary(a))
                        /\ storage[ReadSummary(a).run].expires = ReadSummary(a).expires
      BY DEF SummaryBacked, Attempts
    <2>1. PICK sum \in Summary : SummaryOf(a, sum)
      BY OwnSummary DEF Inv
    <2>2. sum = ReadSummary(a)
      BY <2>1 DEF SummaryOf
    <2>3. ~Gone(sum)
      <3>1. clock \in Nat /\ sum.expires \in Nat
        BY <2>1, RowsInvParts DEF Inv, Summary
      <3> QED BY <2>2, <3>1 DEF Gone
    <2>4. Present(sum)
      BY <2>1, <2>2, <2>3 DEF SummaryOf
    <2> QED BY <2>2, <2>4 DEF Present
  <1> QED BY <1>1, InvHolds, PTL

\* stamp_workflow_progress_detail_expiry_locked and the publications leave no published
\* detail of an inactive run without a deadline, but for the one exception the property names.
THEOREM StaleDetailDated == Spec => []StaleDetailHasDeadline
  <1>1. Inv => StaleDetailHasDeadline
    BY DEF Inv
  <1> QED BY <1>1, InvHolds, PTL

\* list_workflow_node_details: a walk that is told it is complete has the rows of one
\* publication, whatever publications, reclaims, retries and cleanups came between its
\* pages, and is told that storage is corrupt never, missing only after the deadline.
THEOREM WalksSeeOnePublication == Spec => []ReaderSeesOnePublication
  <1>1. Inv => ReaderSeesOnePublication
    <2> SUFFICES ASSUME Inv, NEW a \in ReadAttempts \cap 1..exec.attempt, NEW at \in 1..clock
                 PROVE  /\ Answer(a, at).result = "done" =>
                             Answer(a, at).got = storage[ReadSummary(a).run].rows
                        /\ Answer(a, at).result # "corrupt"
                        /\ Answer(a, at).result = "missing" =>
                             ReadSummary(a).expires # 0 /\ ReadSummary(a).expires <= clock
      BY DEF ReaderSeesOnePublication
    <2>1. a \in Attempts
      BY WorkflowProgressAssumption DEF Attempts
    <2> QED BY <2>1, ReaderRight DEF Inv
  <1> QED BY <1>1, InvHolds, PTL
=============================================================================
