--------------------------- MODULE WorkflowProgress ---------------------------
(***************************************************************************)
(* Durable workflow progress: the run identity that owns it, the storage   *)
(* rows that hold topology manifests, content-addressed pages and node     *)
(* detail, the summary that points at them, their retention, the cleanup   *)
(* passes and the paged readers (django_ray/workflow/progress/).           *)
(*                                                                         *)
(* Four kinds of process meet on these rows: the coordinator of a workflow *)
(* run (stage, publish, discard, fall back), the task lifecycle (claim,    *)
(* finish, retry), the cleanup command and readers that walk pages behind  *)
(* a cursor.  One action is one database transaction, except staging,      *)
(* which checks the task row without locking it and commits later.         *)
(*                                                                         *)
(* Abstractions: one task; an attempt is claimed once; a topology version  *)
(* has a fixed node set, one page per node (pages are content addressed);  *)
(* a node detail is its state and a size, and two of the four node states  *)
(* stand for all, each with its own count; the one hour grace of pending   *)
(* manifests and pages may always have passed, because nothing bounds how  *)
(* slow a coordinator is; the reporting policy is "full", and kinds and    *)
(* events are left out, as are truncation reasons but for the one that     *)
(* marks an unreported terminal state.                                     *)
(* Zero stands for NULL in versions, revisions, runs and times.            *)
(* The model is of the storage interface: it accepts a sequence of         *)
(* publications, of which today's coordinator sends the terminal one.      *)
(***************************************************************************)
EXTENDS Integers, FiniteSets, Functions

CONSTANTS
    Topologies,     \* run -> version -> set of nodes: the topologies its plan produces
    MaxRun,         \* bound: workflow runs allocated
    MaxAttempt,     \* bound: attempts of the task
    MaxRevision,    \* bound: summaries of a coordinator and detail revisions of a run
    MaxClock,       \* bound: the clock, in days
    RetentionDays,  \* WORKFLOW_PROGRESS_DETAIL_RETENTION_DAYS
    MaxItems,       \* WORKFLOW_PROGRESS_DETAIL_MAX_ITEMS
    MaxBytes,       \* WORKFLOW_PROGRESS_DETAIL_MAX_ENCODED_BYTES
    BatchSize,      \* --batch-size of the cleanup command
    ReadAttempts,   \* the attempts a reader may ask for
    Outcomes        \* the outcomes a coordinator and the task may report

Runs == 1..MaxRun
Versions(r) == DOMAIN Topologies[r]
Nodes == UNION {UNION Range(Topologies[r]) : r \in Runs}

ASSUME WorkflowProgressAssumption ==
    /\ MaxRun \in Nat \ {0} /\ MaxAttempt \in Nat \ {0}
    /\ MaxRevision \in Nat \ {0} /\ MaxClock \in Nat \ {0}
    /\ RetentionDays \in Nat /\ MaxItems \in Nat /\ MaxBytes \in Nat
    /\ BatchSize \in Nat \ {0}
    /\ ReadAttempts \subseteq 1..MaxAttempt
    /\ Outcomes \subseteq {"SUCCEEDED", "FAILED"}
    /\ DOMAIN Topologies = Runs
    /\ \A r \in Runs : Versions(r) \subseteq Nat \ {0}
    /\ IsFiniteSet(Nodes) /\ Nodes = 1..Cardinality(Nodes)

VARIABLES
    exec,      \* the task row: state, attempt, run, summary, finished_at
    archive,   \* attempt -> the summary TaskAttempt keeps
    sequence,  \* workflow_run_sequence: the last run allocated
    owner,     \* run -> the attempt it was allocated in
    storage,   \* run -> its WorkflowProgressRunStorage row and children
    coord,     \* run -> its coordinator
    cleaner,   \* the cleanup command
    reader,    \* a reader of the node detail collection: its cursor and rows so far
    clock

vars == <<exec, archive, sequence, owner, storage, coord, cleaner, reader, clock>>

NodeState == {"RUNNING", "SUCCEEDED"}
Terminal == {"SUCCEEDED", "FAILED", "CANCELLED", "LOST"}

\* The size of a node detail record: a finished node carries its output preview.
RecordSize(state) == IF state = "SUCCEEDED" THEN 2 ELSE 1

\* A summary counts the rows it retains and, of all nodes discovered, those observed in
\* each state; lastObserved is the truncation reason TERMINAL_STATE_UNREPORTED.
NoSummary ==
    [run |-> 0, rev |-> 0, state |-> "NONE", topology |-> 0, detail |-> 0, count |-> 0,
     running |-> 0, succeeded |-> 0, complete |-> FALSE, lastObserved |-> FALSE,
     finished |-> 0, expires |-> 0]

NoRows == [n \in {} |-> "RUNNING"]

NoStorage ==
    [exists |-> FALSE, detail |-> 0, rows |-> NoRows, count |-> 0, bytes |-> 0,
     running |-> 0, succeeded |-> 0, expires |-> 0, current |-> 0, pending |-> 0, pages |-> {}]

\* A coordinator: what it does next, the version it staged, its last summary revision.
CoordinatorAt(pc) == [pc |-> pc, version |-> 0, rev |-> 0]

NoBatch == [class |-> "none", batch |-> {}]

\* A reader without a cursor.
NoCursor ==
    [attempt |-> 0, run |-> 0, rev |-> 0, topology |-> 0, detail |-> 0, got |-> NoRows]

Init ==
    /\ exec = [state |-> "QUEUED", attempt |-> 1, run |-> 0, summary |-> NoSummary, finished |-> 0]
    /\ archive = [a \in 1..MaxAttempt |-> NoSummary]
    /\ sequence = 0
    /\ owner = [r \in Runs |-> 0]
    /\ storage = [r \in Runs |-> NoStorage]
    /\ coord = [r \in Runs |-> CoordinatorAt("idle")]
    /\ cleaner = NoBatch
    /\ reader = NoCursor
    /\ clock = 1

-----------------------------------------------------------------------------
(* The run identity. *)

\* The fence every writer of a run applies: RUNNING, and the exact run owns the row.
ExactRun(r) == exec.state = "RUNNING" /\ exec.run = r /\ owner[r] = exec.attempt

\* The staging transaction of r holds its run storage row.
Locked(r) == coord[r].pc = "writing"

\* A row inserted by an uncommitted staging transaction is invisible to others.
Visible(r) == storage[r].exists

\* Claim: the worker resets the progress fields of the row it claims.
Claim ==
    /\ exec.state = "QUEUED"
    /\ exec' = [exec EXCEPT !.state = "RUNNING", !.run = 0, !.summary = NoSummary]
    /\ UNCHANGED <<archive, sequence, owner, storage, coord, cleaner, reader, clock>>

\* _activate_workflow_run: replacing a run of the same attempt deletes its storage.
Activate(r, rows) ==
    /\ exec' = [exec EXCEPT !.run = r, !.summary = NoSummary]
    /\ storage' =
         IF exec.run \notin {0, r} /\ owner[exec.run] = exec.attempt
         THEN [rows EXCEPT ![exec.run] = NoStorage]
         ELSE rows

\* allocate_workflow_run: a fresh run identity from the row's sequence.
Allocate ==
    /\ exec.state = "RUNNING"
    /\ sequence < MaxRun
    /\ exec.run # 0 /\ Visible(exec.run) => ~Locked(exec.run)
    /\ sequence' = sequence + 1
    /\ owner' = [owner EXCEPT ![sequence + 1] = exec.attempt]
    /\ Activate(sequence + 1, storage)
    /\ UNCHANGED <<archive, coord, cleaner, reader, clock>>

\* reclaim_workflow_run: the exact current run starts again.  Nothing stops an earlier
\* coordinator of the same identity: the next steps are its own or a new one's.
Reclaim(r) ==
    /\ ExactRun(r)
    /\ Activate(r, storage)
    /\ \/ UNCHANGED coord
       \/ ~Locked(r) /\ coord' = [coord EXCEPT ![r] = CoordinatorAt("idle")]
    /\ UNCHANGED <<archive, sequence, owner, cleaner, reader, clock>>

-----------------------------------------------------------------------------
(* Staging a topology candidate. *)

\* stage_workflow_progress_topology, first part: an unlocked look at the task row.
StageBegin(r, v) ==
    /\ r <= sequence
    /\ coord[r].pc \in {"idle", "open"}
    /\ coord' = [coord EXCEPT ![r] =
                    IF ExactRun(r) THEN [@ EXCEPT !.pc = "checked", !.version = v]
                    ELSE CoordinatorAt("fallback")]
    /\ UNCHANGED <<exec, archive, sequence, owner, storage, cleaner, reader, clock>>

\* The staging transaction up to its last check of the task row.  It returns the
\* manifest that already holds the version, refuses a version that does not advance
\* and a second candidate, or writes the candidate, still uncommitted.
StageWrite(r) ==
    LET s == storage[r]
        v == coord[r].version
        verdict ==
            IF v <= s.current THEN (IF v = s.current THEN "staged" ELSE "fallback")
            ELSE IF s.pending # 0 THEN (IF s.pending = v THEN "staged" ELSE "fallback")
            ELSE IF ExactRun(r) THEN "writing" ELSE "fallback"
    IN /\ coord[r].pc = "checked"
       /\ coord' = [coord EXCEPT ![r] = IF verdict = "fallback" THEN CoordinatorAt(verdict)
                                        ELSE [@ EXCEPT !.pc = verdict]]
       /\ UNCHANGED <<exec, archive, sequence, owner, storage, cleaner, reader, clock>>

\* The commit of that transaction: run storage row, missing pages, PENDING manifest.
StageCommit(r) ==
    /\ coord[r].pc = "writing"
    /\ storage' = [storage EXCEPT ![r].exists = TRUE,
                                  ![r].pending = coord[r].version,
                                  ![r].pages = @ \cup Topologies[r][coord[r].version]]
    /\ coord' = [coord EXCEPT ![r].pc = "staged"]
    /\ UNCHANGED <<exec, archive, sequence, owner, cleaner, reader, clock>>

\* The pages some manifest of the run links.
LinkedPages(r, s) == UNION {Topologies[r][v] : v \in {s.current, s.pending} \ {0}}

\* Both publication and discard delete the pages no manifest links any more.
DropOrphanPages(r, s) == [s EXCEPT !.pages = @ \cap LinkedPages(r, s)]

\* discard_workflow_progress_topology_candidate, for the staged manifest only.
Discard(r) ==
    /\ coord[r].pc = "discard"
    /\ coord' = [coord EXCEPT ![r] = CoordinatorAt("fallback")]
    /\ storage' =
         IF storage[r].exists /\ storage[r].pending = coord[r].version
         THEN [storage EXCEPT ![r] = DropOrphanPages(r, [storage[r] EXCEPT !.pending = 0])]
         ELSE storage
    /\ UNCHANGED <<exec, archive, sequence, owner, cleaner, reader, clock>>

-----------------------------------------------------------------------------
(* Publishing. *)

Running(rows) == Cardinality({n \in DOMAIN rows : rows[n] = "RUNNING"})
Succeeded(rows) == Cardinality({n \in DOMAIN rows : rows[n] = "SUCCEEDED"})

\* A running node takes one unit of the size limit, a finished one two.
Bytes(rows) == Cardinality(DOMAIN rows) + Succeeded(rows)

\* A deletion from the aggregates: the rows, their bytes and their state counts.
DropRows(s, nodes) ==
    LET gone == [n \in DOMAIN s.rows \cap nodes |-> s.rows[n]]
    IN [s EXCEPT !.rows = [n \in DOMAIN s.rows \ nodes |-> s.rows[n]],
                 !.count = @ - Cardinality(DOMAIN gone),
                 !.bytes = @ - Bytes(gone),
                 !.running = @ - Running(gone),
                 !.succeeded = @ - Succeeded(gone)]

\* Faulty variant: a record rejected at a limit deletes the row but not its share of the aggregates.
AdmitUncounted(s, n, state) ==
    LET others == [m \in DOMAIN s.rows \ {n} |-> s.rows[m]]
        bytes == Bytes(others) + RecordSize(state)
        fits == Cardinality(DOMAIN others) + 1 <= MaxItems /\ bytes <= MaxBytes
        rows == [m \in DOMAIN others \cup {n} |-> IF m = n THEN state ELSE others[m]]
    IN IF fits
       THEN [s EXCEPT !.rows = rows, !.count = Cardinality(DOMAIN rows),
                      !.bytes = bytes, !.running = Running(rows), !.succeeded = Succeeded(rows)]
       ELSE [s EXCEPT !.rows = others]

\* One supplied record: an unchanged row is left, a row over a limit is rejected
\* together with the row it would have replaced.
Admit(s, n, state) ==
    LET old == n \in DOMAIN s.rows
        base == DropRows(s, {n})
        bytes == base.bytes + RecordSize(state)
    IN IF old /\ s.rows[n] = state THEN s
       ELSE IF base.count + 1 > MaxItems \/ bytes > MaxBytes THEN base
       ELSE [base EXCEPT !.rows = [m \in DOMAIN base.rows \cup {n} |->
                                     IF m = n THEN state ELSE base.rows[m]],
                         !.count = @ + 1,
                         !.bytes = bytes,
                         !.running = @ + (IF state = "RUNNING" THEN 1 ELSE 0),
                         !.succeeded = @ + (IF state = "SUCCEEDED" THEN 1 ELSE 0)]

\* The detail of s after removing nodes and admitting records in node key order.
Merge(s, removals, records) ==
    LET merged[n \in Nat] ==
          IF n = 0 THEN DropRows(s, removals)
          ELSE IF n \in DOMAIN records THEN Admit(merged[n - 1], n, records[n])
          ELSE merged[n - 1]
    IN merged[Cardinality(Nodes)]

\* The nodes the target topology no longer has.
TopologyRemovals(r, v) ==
    LET current == storage[r].current
    IN IF current \in {0, v} THEN {} ELSE Topologies[r][current] \ Topologies[r][v]

\* The rows of a publication: merged detail, its revision, the retention deadline,
\* and the target manifest in the CURRENT slot.
Published(r, v, removals, records, state) ==
    LET s == storage[r]
        merged == Merge(s, removals \cup TopologyRemovals(r, v), records)
        revision == IF merged.rows # s.rows \/ s.detail = 0 THEN s.detail + 1 ELSE s.detail
    IN DropOrphanPages(r,
         [merged EXCEPT !.detail = revision,
                        !.expires = IF state \in Terminal THEN clock + RetentionDays ELSE 0,
                        !.current = v,
                        !.pending = IF @ = v THEN 0 ELSE @])

\* _storage_bound_summary: the summary that points at those rows, for a coordinator that
\* has seen done nodes of the topology succeed.
PublishedSummary(r, s, state, revision, done) ==
    LET discovered == Cardinality(Topologies[r][s.current])
    IN [run |-> r, rev |-> revision, state |-> state, topology |-> s.current,
        detail |-> s.detail, count |-> s.count, running |-> discovered - done,
        succeeded |-> done, complete |-> s.count = discovered, lastObserved |-> FALSE,
        finished |-> IF state \in Terminal THEN clock ELSE 0, expires |-> s.expires]

\* The state counts of the rows fit those of the summary.
StatesFit(s, sum) == s.running <= sum.running /\ s.succeeded <= sum.succeeded

\* Complete detail has exactly the states the summary counts.
StatesEqual(s, sum) == s.running = sum.running /\ s.succeeded = sum.succeeded

\* What a publication refuses: rows in states the summary does not count, and success
\* that leaves nodes running.
SummaryAdmits(s, sum) ==
    /\ StatesFit(s, sum)
    /\ sum.complete => StatesEqual(s, sum)
    /\ sum.state = "SUCCEEDED" => sum.running = 0

\* _validate_revision_advance, for a summary that differs from the accepted one.
Advances(previous, next) ==
    \/ previous.run = 0
    \/ /\ next.rev > previous.rev
       /\ next.topology >= previous.topology
       /\ next.detail >= previous.detail
       /\ previous.state \notin Terminal

\* persist_workflow_progress_publication: the fence, the target manifest, the rows and
\* the summary pointer in one transaction; anything refused rolls all of it back.  The
\* commit may also succeed while the coordinator sees an error.
Publish(r, state, done, records, removals) ==
    LET s == storage[r]
        v == coord[r].version
        next == Published(r, v, removals, records, state)
        summary == PublishedSummary(r, next, state, coord[r].rev + 1, done)
        accepted ==
            /\ ExactRun(r)
            /\ s.exists /\ v \in {s.current, s.pending}
            /\ SummaryAdmits(next, summary)
            /\ Advances(exec.summary, summary)
    IN /\ coord[r].pc \in {"staged", "open"}
       /\ coord[r].rev < MaxRevision /\ next.detail <= MaxRevision
       /\ IF accepted
          THEN /\ storage' = [storage EXCEPT ![r] = next]
               /\ exec' = [exec EXCEPT !.summary = summary]
               /\ \/ coord' = [coord EXCEPT ![r] =
                          IF state \in Terminal THEN CoordinatorAt("closed")
                          ELSE [coord[r] EXCEPT !.pc = "open", !.rev = @ + 1]]
                  \/ coord' = [coord EXCEPT ![r].pc = "discard"]
          ELSE /\ coord' = [coord EXCEPT ![r].pc = "discard"]
               /\ UNCHANGED <<storage, exec>>
       /\ UNCHANGED <<archive, sequence, owner, cleaner, reader, clock>>

\* publish_unavailable_terminal_workflow_progress: only the outcome, without pointers.
\* The coordinator also comes here when the collector gives it no usable snapshot.
PublishUnavailable(r, state) ==
    LET summary == [NoSummary EXCEPT !.run = r, !.rev = 1, !.state = state, !.finished = clock]
    IN /\ r <= sequence
       /\ coord[r].pc \in {"idle", "fallback"}
       /\ coord' = [coord EXCEPT ![r] = CoordinatorAt("closed")]
       /\ exec' = IF ExactRun(r) /\ Advances(exec.summary, summary)
                  THEN [exec EXCEPT !.summary = summary]
                  ELSE exec
       /\ UNCHANGED <<archive, sequence, owner, storage, cleaner, reader, clock>>

-----------------------------------------------------------------------------
(* The task lifecycle. *)

Later(a, b) == IF a > b THEN a ELSE b

\* Faulty variant: a terminal state the producer never reported leaves no mark.
AttemptSummaryUnmarked(e) ==
    LET sum == e.summary
        at == Later(e.finished, sum.finished)
        success == e.state = "SUCCEEDED"
    IN IF sum.run = 0 \/ e.run = 0 THEN NoSummary
       ELSE IF sum.state = e.state /\ (sum.detail = 0 \/ e.finished <= sum.finished) THEN sum
       ELSE [sum EXCEPT !.rev = @ + 1, !.state = e.state, !.finished = at,
                        !.running = IF success THEN 0 ELSE @,
                        !.succeeded = IF success THEN sum.running + sum.succeeded ELSE @,
                        !.expires = IF sum.detail # 0 THEN at + RetentionDays ELSE @]

\* _attempt_workflow_progress_summary: the terminal summary an attempt keeps, derived
\* when the producer's is missing the outcome or is older than the task's completion.
AttemptSummary(e) ==
    LET sum == e.summary
        at == Later(e.finished, sum.finished)
        success == e.state = "SUCCEEDED"
        unreported == success /\ sum.state # "SUCCEEDED" /\ sum.detail # 0
    IN IF sum.run = 0 \/ e.run = 0 THEN NoSummary
       ELSE IF sum.state = e.state /\ (sum.detail = 0 \/ e.finished <= sum.finished) THEN sum
       ELSE [sum EXCEPT !.rev = @ + 1,
                        !.state = e.state,
                        !.finished = at,
                        !.running = IF success THEN 0 ELSE @,
                        !.succeeded = IF success THEN sum.running + sum.succeeded ELSE @,
                        !.complete = @ /\ ~unreported,
                        !.lastObserved = @ \/ unreported,
                        !.expires = IF sum.detail # 0 THEN at + RetentionDays ELSE @]

\* Faulty variant: an attempt without a summary stamps nothing.
StampFromSummary(rows, e, sum) ==
    IF e.run = 0 \/ ~rows[e.run].exists \/ sum.detail = 0 THEN rows
    ELSE [rows EXCEPT ![e.run].expires = sum.expires]

\* stamp_workflow_progress_detail_expiry_locked: the deadline of the run's rows is the
\* summary's, or the run's own policy when the attempt has no summary.
Stamp(rows, e, sum) ==
    IF e.run = 0 \/ ~rows[e.run].exists THEN rows
    ELSE IF sum.run # 0
         THEN IF sum.detail # 0 /\ rows[e.run].detail = sum.detail
              THEN [rows EXCEPT ![e.run].expires = sum.expires] ELSE rows
         ELSE IF rows[e.run].detail # 0
              THEN [rows EXCEPT ![e.run].expires = e.finished + RetentionDays] ELSE rows

\* _record_attempt for the row e, which then becomes after(summary).
RecordAttempt(e, requeue) ==
    LET sum == AttemptSummary(e) IN
    /\ e.run # 0 /\ Visible(e.run) => ~Locked(e.run)
    /\ storage' = Stamp(storage, e, sum)
    /\ archive' = [archive EXCEPT ![e.attempt] = IF sum.run # 0 THEN sum ELSE @]
    /\ exec' = IF requeue
               THEN [state |-> "QUEUED", attempt |-> e.attempt + 1, run |-> 0,
                     summary |-> NoSummary, finished |-> 0]
               ELSE [e EXCEPT !.summary = IF sum.run # 0 THEN sum ELSE @]
    /\ UNCHANGED <<sequence, owner, coord, cleaner, reader, clock>>

\* succeed_task, record_failure without a retry and record_lost.
Finish(state) ==
    /\ exec.state = "RUNNING"
    /\ state \in {"SUCCEEDED", "FAILED", "LOST"}
    /\ RecordAttempt([exec EXCEPT !.state = state, !.finished = clock], FALSE)

\* record_failure with a retry: archived as FAILED, queued as the next attempt.
FailAndRetry ==
    /\ exec.state = "RUNNING" /\ exec.attempt < MaxAttempt
    /\ RecordAttempt([exec EXCEPT !.state = "FAILED", !.finished = clock], TRUE)

\* A cancellation request moves a RUNNING row out of RUNNING; its worker finalizes it.
RequestCancel ==
    /\ exec.state = "RUNNING"
    /\ exec' = [exec EXCEPT !.state = "CANCELLING"]
    /\ UNCHANGED <<archive, sequence, owner, storage, coord, cleaner, reader, clock>>

\* cancel_task.
Cancel ==
    /\ exec.state = "CANCELLING"
    /\ RecordAttempt([exec EXCEPT !.state = "CANCELLED", !.finished = clock], FALSE)

\* _request_task_retry: an operator queues a finished task again.
RequestRetry ==
    /\ exec.state \in Terminal /\ exec.attempt < MaxAttempt
    /\ RecordAttempt(exec, TRUE)

Tick ==
    /\ clock < MaxClock
    /\ clock' = clock + 1
    /\ UNCHANGED <<exec, archive, sequence, owner, storage, coord, cleaner, reader>>

-----------------------------------------------------------------------------
(* The cleanup command: four candidate classes, each a bounded batch. *)

\* Faulty variant: only a RUNNING task keeps its run from being cleaned.
ActiveWhileRunning(r) ==
    exec.state = "RUNNING" /\ exec.run = r /\ owner[r] = exec.attempt

\* The run of storage row r still is the task's active identity.
ActiveCurrent(r) ==
    exec.state \notin Terminal /\ exec.run = r /\ owner[r] = exec.attempt

ExpiredRun(r) ==
    /\ Visible(r) /\ storage[r].expires # 0 /\ storage[r].expires <= clock
    /\ ~ActiveCurrent(r)

EmptyRun(r) ==
    LET s == storage[r]
    IN /\ s.exists /\ s.detail = 0 /\ DOMAIN s.rows = {}
       /\ s.current = 0 /\ s.pending = 0 /\ s.pages = {}
       /\ ~ActiveCurrent(r)

\* Faulty variant: a page is an orphan when the CURRENT manifest does not link it.
NotCurrentPage(r, n) ==
    n \in storage[r].pages \ LinkedPages(r, [storage[r] EXCEPT !.pending = 0])

OrphanPage(r, n) == n \in storage[r].pages \ LinkedPages(r, storage[r])

\* Candidates are <<run, pending version or page>>; 0 where the run itself is the item.
Candidates(class) ==
    CASE class = "expired" -> {<<r, 0>> : r \in {r \in Runs : ExpiredRun(r)}}
      [] class = "pending" -> {<<r, storage[r].pending>> : r \in {r \in Runs : storage[r].pending # 0}}
      [] class = "pages" -> {p \in Runs \X Nodes : OrphanPage(p[1], p[2])}
      [] class = "empty" -> {<<r, 0>> : r \in {r \in Runs : EmptyRun(r)}}

\* The candidate query of a class.  Invocations of the command may overlap or be cut
\* off, so the classes come in any order.  A batch fixes its candidates; which ones
\* come first depends on the failures of earlier passes, so it may be any.
CleanupSelect(class) ==
    /\ cleaner.batch = {}
    /\ \E batch \in SUBSET Candidates(class) :
          /\ Cardinality(batch) \in 1..BatchSize
          /\ cleaner' = [class |-> class, batch |-> batch]
    /\ UNCHANGED <<exec, archive, sequence, owner, storage, coord, reader, clock>>

\* What one locked re-check and deletion leaves of the run's rows.
Cleaned(r, n) ==
    LET s == storage[r]
    IN CASE cleaner.class = "expired" -> IF ExpiredRun(r) THEN NoStorage ELSE s
         [] cleaner.class = "pending" -> IF s.pending = n THEN [s EXCEPT !.pending = 0] ELSE s
         [] cleaner.class = "pages" ->
              IF OrphanPage(r, n) THEN [s EXCEPT !.pages = @ \ {n}] ELSE s
         [] cleaner.class = "empty" -> IF EmptyRun(r) THEN NoStorage ELSE s

\* One item of the batch, re-checked under the task and run locks.  A deletion that
\* fails rolls back and only records the failure.
CleanupProcess(item) ==
    LET r == item[1]
        rest == cleaner.batch \ {item}
    IN /\ Visible(r) => ~Locked(r)
       /\ storage' \in {storage, [storage EXCEPT ![r] = Cleaned(r, item[2])]}
       /\ cleaner' = IF rest = {} THEN NoBatch ELSE [cleaner EXCEPT !.batch = rest]
       /\ UNCHANGED <<exec, archive, sequence, owner, coord, reader, clock>>

-----------------------------------------------------------------------------
(* A reader walks the node details of one attempt, one record per page.     *)

ReadSummary(a) == IF a = exec.attempt THEN exec.summary ELSE archive[a]

\* Faulty variant: a cursor lives for one run, topology and summary revision.
CursorOfSummary(sum) ==
    sum.run # reader.run \/ sum.rev # reader.rev \/ sum.topology # reader.topology

\* _decode_cursor: a cursor lives for one run, summary, topology and detail revision.
CursorExpired(sum) ==
    \/ sum.run # reader.run \/ sum.rev # reader.rev
    \/ sum.topology # reader.topology \/ sum.detail # reader.detail

\* _detail_epoch_query: the rows of exactly the summary's revisions.
EpochPresent(sum) ==
    LET s == storage[sum.run]
    IN s.exists /\ s.detail = sum.detail /\ s.current = sum.topology

\* _expected_detail_count: the run aggregates agree with the summary, state by state
\* unless the summary says that the terminal states were never reported.
EpochConsistent(sum) ==
    LET s == storage[sum.run]
    IN /\ s.running + s.succeeded = s.count /\ s.count = sum.count
       /\ sum.lastObserved \/ StatesFit(s, sum)
       /\ sum.complete => StatesEqual(s, sum)

\* list_workflow_node_details with a limit of one record: the answer to the next
\* request of a walk, or to its first.  The request took its time before it waited
\* for the task row's lock.
Answer(a, at) ==
    LET sum == ReadSummary(a)
        s == IF sum.run = 0 THEN NoStorage ELSE storage[sum.run]
        left == {m \in DOMAIN s.rows : \A k \in DOMAIN reader.got : k < m}
        page == {m \in left : \A k \in left : m <= k}
        got == [m \in DOMAIN reader.got \cup page |->
                  IF m \in page THEN s.rows[m] ELSE reader.got[m]]
        seen == Cardinality(DOMAIN got)
        result ==
            IF \/ reader.attempt # 0 /\ CursorExpired(sum)
               \/ sum.detail # 0 /\ sum.expires # 0 /\ sum.expires <= at
            THEN "expired"
            ELSE IF sum.detail = 0 THEN "empty"
            ELSE IF ~EpochPresent(sum) THEN "missing"
            ELSE IF ~EpochConsistent(sum) THEN "corrupt"
            ELSE IF seen < s.count THEN (IF left \ page # {} THEN "page" ELSE "missing")
            ELSE IF left \ page # {} \/ (page # {} /\ seen > s.count) THEN "corrupt"
            ELSE "done"
    IN [result |-> result, got |-> got]

\* The page carries a cursor for the next one; every other answer ends the walk.
ReadPage(a, at) ==
    LET sum == ReadSummary(a)
        answer == Answer(a, at)
    IN /\ reader.attempt \in {0, a}
       /\ reader' = IF answer.result # "page" THEN NoCursor
                    ELSE [attempt |-> a, run |-> sum.run, rev |-> sum.rev,
                          topology |-> sum.topology, detail |-> sum.detail,
                          got |-> answer.got]
       /\ UNCHANGED <<exec, archive, sequence, owner, storage, coord, cleaner, clock>>

-----------------------------------------------------------------------------

Coordinator(r) ==
    \/ \E v \in Versions(r) : StageBegin(r, v)
    \/ StageWrite(r)
    \/ StageCommit(r)
    \/ /\ coord[r].pc \in {"staged", "open"}
       /\ \E supplied \in SUBSET Topologies[r][coord[r].version], state \in Outcomes \cup {"RUNNING"} :
            \E observed \in IF supplied = {} THEN {"RUNNING"} ELSE NodeState,
               done \in 0..Cardinality(Topologies[r][coord[r].version]),
               removals \in {{}, DOMAIN storage[r].rows \ supplied} :
                  Publish(r, state, done, [n \in supplied |-> observed], removals)
    \/ Discard(r)
    \/ \E state \in Outcomes : PublishUnavailable(r, state)

Lifecycle ==
    \/ Claim \/ Allocate
    \/ \E r \in Runs : Reclaim(r)
    \/ \E state \in Outcomes \cup {"LOST"} : Finish(state)
    \/ FailAndRetry \/ RequestCancel \/ Cancel \/ RequestRetry

Cleanup ==
    \/ \E class \in {"expired", "pending", "pages", "empty"} : CleanupSelect(class)
    \/ \E item \in cleaner.batch : CleanupProcess(item)

Reader == \E a \in ReadAttempts \cap 1..exec.attempt, at \in 1..clock : ReadPage(a, at)

Next ==
    \/ \E r \in Runs : Coordinator(r)
    \/ Lifecycle
    \/ Cleanup
    \/ Reader
    \/ Tick

Spec == Init /\ [][Next]_vars

-----------------------------------------------------------------------------
(* Correctness. *)

\* A summary whose detail has not expired still finds its rows: the run's storage holds
\* exactly the topology version, the detail revision and the counts the summary names.
\* Allocation, reclaim, cleanup, retry and the lifecycle's own rewriting of the
\* summary and its deadline may not part the two, for the current attempt and for
\* every archived one.
SummaryBacked ==
    \A a \in 1..MaxAttempt :
        LET sum == ReadSummary(a)
        IN (sum.detail # 0 /\ (sum.expires = 0 \/ sum.expires > clock))
             => /\ EpochPresent(sum) /\ EpochConsistent(sum)
                /\ storage[sum.run].expires = sum.expires

\* The aggregates a publication maintains by deltas never drift from the rows: count,
\* bytes and state count, within the limits, over nodes of the current topology only.
AggregatesMatchRows ==
    \A r \in Runs :
        LET s == storage[r]
        IN /\ s.count = Cardinality(DOMAIN s.rows) /\ s.count <= MaxItems
           /\ s.running = Running(s.rows) /\ s.succeeded = Succeeded(s.rows)
           /\ s.bytes = Bytes(s.rows) /\ s.bytes <= MaxBytes
           /\ DOMAIN s.rows \subseteq LinkedPages(r, [s EXCEPT !.pending = 0])

\* Every page a CURRENT or PENDING manifest links is stored, whatever discard,
\* publication and orphan-page cleanup delete around it.
ManifestPagesStored ==
    \A r \in Runs : LinkedPages(r, storage[r]) \subseteq storage[r].pages

\* Published detail of a run that is no longer active has a deadline, so a cleanup pass
\* can take it; a run without published detail is left to the orphan classes.  The
\* one exception is a run whose last summary names no detail at all: the stamp then
\* has no revision to find the rows by.
StaleDetailHasDeadline ==
    \A r \in Runs :
        storage[r].detail # 0 /\ (exec.run # r \/ exec.state \in Terminal)
          => \/ storage[r].expires # 0
             \/ archive[owner[r]].run = r /\ archive[owner[r]].detail = 0

\* A reader that is told it has every page has exactly the rows of one publication, even
\* when the run was reclaimed and its revisions started again between two pages; it is
\* never told that storage is corrupt, and told that it is missing only once the
\* deadline has passed (its own time is taken before it waits for the lock).
ReaderSeesOnePublication ==
    \A a \in ReadAttempts \cap 1..exec.attempt, at \in 1..clock :
        reader.attempt \in {0, a} =>
        LET answer == Answer(a, at)
            sum == ReadSummary(a)
        IN /\ answer.result = "done" => answer.got = storage[sum.run].rows
           /\ answer.result # "corrupt"
           /\ answer.result = "missing" => sum.expires # 0 /\ sum.expires <= clock
=============================================================================
