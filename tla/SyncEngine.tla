----------------------------- MODULE SyncEngine -----------------------------
(***************************************************************************)
(* The connector sync engine (backend/app/connectors/sync.py): durable     *)
(* rows of connector_sync_jobs, worker processes that poll run_once, and   *)
(* the connector_applied_records reservations behind _apply_once.          *)
(*                                                                         *)
(* Every database statement of the code is a step of its own: rows are     *)
(* read in one connection and written in a later one, so other workers run *)
(* in between.  Time is relative: age[j] is the time since updated_at,     *)
(* wait[j] the time until next_attempt_at (negative once it has passed),   *)
(* batchAge[w] the time since the worker read the clock in run_once.  Ages *)
(* saturate at Lease, so no bound on the clock is needed.                  *)
(***************************************************************************)
EXTENDS Integers, FiniteSets, Sequences

CONSTANTS
    Workers,      \* processes running run_connector_sync_worker
    Jobs,         \* idempotency keys of connector_sync_jobs
    Records,      \* (record id, version, operation) of a provider
    Projects,     \* projects a job can deliver to
    NoProject,    \* project_id = '': the resource is not assigned yet
    NoJob,        \* a worker that holds no job
    NoRecord,     \* a worker that is not inside apply_record
    ProjectOf,    \* job -> project_id
    Pages,        \* job -> the sequence of record sets its resource returns
    MaxAttempts,  \* manifest.retry.max_attempts
    BaseDelay,    \* manifest.retry.base_delay_seconds
    MaxDelay,     \* manifest.retry.max_delay_seconds
    Lease,        \* JOB_LEASE_MINUTES
    Limit,        \* run_once(limit)
    Faults,       \* which faults the environment may inject
    Punctual,     \* TRUE: every run_once returns within one lease
    MaxCrashes    \* bound on worker crashes

FaultKinds == {"crash", "batch", "disconnected", "provider", "apply", "release", "audit"}

ASSUME SyncAssumption ==
    /\ NoJob \notin Jobs
    /\ NoRecord \notin Records
    /\ NoProject \notin Projects
    /\ ProjectOf \in [Jobs -> Projects \cup {NoProject}]
    /\ Pages \in [Jobs -> Seq(SUBSET Records)]
    /\ \A j \in Jobs : Len(Pages[j]) >= 1
    /\ MaxAttempts \in Nat \ {0}
    /\ BaseDelay \in Nat
    /\ MaxDelay \in Nat
    /\ Lease \in Nat \ {0}
    /\ Limit \in Nat \ {0}
    /\ Faults \subseteq FaultKinds
    /\ Punctual \in BOOLEAN
    /\ MaxCrashes \in Nat

VARIABLES
    status, attempts, cursor, wait, age,      \* connector_sync_jobs
    reserved,                                 \* connector_applied_records
    memory, completions,                      \* what apply_record did
    orphaned,                                 \* reservations left by a crash or a failed release
    pc, batchAge, stale, due,                 \* run_once, one per worker
    job, snapAttempts, snapCursor, todo, rec, \* _process, one per worker
    crashes

jobVars    == <<status, attempts, cursor, wait, age>>
ledgerVars == <<reserved, memory, completions, orphaned>>
batchVars  == <<batchAge, stale, due>>
pageVars   == <<job, snapAttempts, snapCursor, todo, rec>>
vars == <<jobVars, ledgerVars, pc, batchVars, pageVars, crashes>>

Statuses == {"absent", "queued", "running", "retrying", "succeeded", "failed"}
Terminal == {"succeeded", "failed"}

\* Where a worker stands in run_once / _process.
BatchSteps == {"idle", "reclaim", "claim"}
PageSteps  == {"load", "sync", "apply", "applying", "commit", "retry"}

\* A worker between its claim of a job and its last write to the job's row.
Owns(w, j) == pc[w] \in PageSteps /\ job[w] = j

LastPage(j) == Len(Pages[j])

\* The records connector.sync returns for a cursor; past the end it is empty.
PageAt(j, c) == IF c \in DOMAIN Pages[j] THEN Pages[j][c] ELSE {}

-----------------------------------------------------------------------------
Init ==
    /\ status = [j \in Jobs |-> "absent"]
    /\ attempts = [j \in Jobs |-> 0]
    /\ cursor = [j \in Jobs |-> 1]
    /\ wait = [j \in Jobs |-> 0]
    /\ age = [j \in Jobs |-> 0]
    /\ reserved = {}
    /\ memory = {}
    /\ completions = [r \in Records |-> 0]
    /\ orphaned = {}
    /\ pc = [w \in Workers |-> "idle"]
    /\ batchAge = [w \in Workers |-> 0]
    /\ stale = [w \in Workers |-> {}]
    /\ due = [w \in Workers |-> {}]
    /\ job = [w \in Workers |-> NoJob]
    /\ snapAttempts = [w \in Workers |-> 0]
    /\ snapCursor = [w \in Workers |-> 1]
    /\ todo = [w \in Workers |-> {}]
    /\ rec = [w \in Workers |-> NoRecord]
    /\ crashes = 0

-----------------------------------------------------------------------------
(***************************************************************************)
(* Enqueue.  An existing row with the idempotency key is returned as it    *)
(* is; two racing inserts are decided by the UNIQUE constraint.            *)
(***************************************************************************)
Enqueue(j) ==
    /\ status[j] = "absent"
    /\ status' = [status EXCEPT ![j] = "queued"]
    /\ wait' = [wait EXCEPT ![j] = 0]
    /\ age' = [age EXCEPT ![j] = 0]
    /\ UNCHANGED <<attempts, cursor, ledgerVars, pc, batchVars, pageVars, crashes>>

(***************************************************************************)
(* run_once: read the clock, select the running rows whose lease expired.  *)
(***************************************************************************)
FirstOf(S, n) == {T \in SUBSET S : Cardinality(T) = IF Cardinality(S) < n
                                                   THEN Cardinality(S) ELSE n}

\* Mutant: a row already in the retry queue is looked for instead.
StaleRetrying == {j \in Jobs : status[j] = "retrying" /\ age[j] >= Lease}

StaleJobs == {j \in Jobs : status[j] = "running" /\ age[j] >= Lease}

RunOnce(w) ==
    /\ pc[w] = "idle"
    /\ pc' = [pc EXCEPT ![w] = "reclaim"]
    /\ batchAge' = [batchAge EXCEPT ![w] = 0]
    /\ \E S \in FirstOf(StaleJobs, Limit) : stale' = [stale EXCEPT ![w] = S]
    /\ UNCHANGED <<jobVars, ledgerVars, due, pageVars, crashes>>

\* One reclaiming UPDATE: guarded by the status, not by updated_at.
Reclaim(w) ==
    /\ pc[w] = "reclaim"
    /\ \E j \in stale[w] :
        /\ stale' = [stale EXCEPT ![w] = @ \ {j}]
        /\ IF status[j] = "running"
           THEN /\ status' = [status EXCEPT ![j] = "retrying"]
                /\ age' = [age EXCEPT ![j] = batchAge[w]]
           ELSE UNCHANGED <<status, age>>
    /\ UNCHANGED <<attempts, cursor, wait, ledgerVars, pc, batchAge, due, pageVars, crashes>>

DueJobs(w) ==
    {j \in Jobs : status[j] \in {"queued", "retrying"} /\ wait[j] <= -batchAge[w]}

\* The due SELECT: ordered by next_attempt_at, cut at the limit.
SelectDue(w) ==
    /\ pc[w] = "reclaim"
    /\ stale[w] = {}
    /\ pc' = [pc EXCEPT ![w] = "claim"]
    /\ \E S \in FirstOf(DueJobs(w), Limit) :
        /\ \A j \in S, k \in DueJobs(w) \ S : wait[j] <= wait[k]
        /\ due' = [due EXCEPT ![w] = S]
    /\ UNCHANGED <<jobVars, ledgerVars, batchAge, stale, pageVars, crashes>>

\* The guarded claim; updated_at becomes the clock read at the batch's start.
Claim(w) ==
    /\ pc[w] = "claim"
    /\ \E j \in due[w] :
        /\ due' = [due EXCEPT ![w] = @ \ {j}]
        /\ IF status[j] \in {"queued", "retrying"}
           THEN /\ status' = [status EXCEPT ![j] = "running"]
                /\ age' = [age EXCEPT ![j] = batchAge[w]]
                /\ pc' = [pc EXCEPT ![w] = "load"]
                /\ job' = [job EXCEPT ![w] = j]
           ELSE UNCHANGED <<status, age, pc, job>>
    /\ UNCHANGED <<attempts, cursor, wait, ledgerVars, batchAge, stale,
                   snapAttempts, snapCursor, todo, rec, crashes>>

\* run_once returns when every due id was tried.
EndBatch(w) ==
    /\ pc[w] = "claim"
    /\ due[w] = {}
    /\ pc' = [pc EXCEPT ![w] = "idle"]
    /\ batchAge' = [batchAge EXCEPT ![w] = 0]
    /\ UNCHANGED <<jobVars, ledgerVars, stale, due, pageVars, crashes>>

-----------------------------------------------------------------------------
(***************************************************************************)
(* _process.  The worker leaves the job: its locals are dropped.           *)
(***************************************************************************)
DropPage(w) ==
    /\ job' = [job EXCEPT ![w] = NoJob]
    /\ snapAttempts' = [snapAttempts EXCEPT ![w] = 0]
    /\ snapCursor' = [snapCursor EXCEPT ![w] = 1]
    /\ todo' = [todo EXCEPT ![w] = {}]
    /\ rec' = [rec EXCEPT ![w] = NoRecord]

\* The worker abandons its whole batch; a job it had claimed stays 'running'.
DropBatch(w) ==
    /\ pc' = [pc EXCEPT ![w] = "idle"]
    /\ batchAge' = [batchAge EXCEPT ![w] = 0]
    /\ stale' = [stale EXCEPT ![w] = {}]
    /\ due' = [due EXCEPT ![w] = {}]
    /\ DropPage(w)

\* The row is read again; a missing grant goes to _retry.
Load(w) ==
    /\ pc[w] = "load"
    /\ snapAttempts' = [snapAttempts EXCEPT ![w] = attempts[job[w]]]
    /\ snapCursor' = [snapCursor EXCEPT ![w] = cursor[job[w]]]
    /\ \E next \in {"sync"} \cup (IF "disconnected" \in Faults THEN {"retry"} ELSE {}) :
        pc' = [pc EXCEPT ![w] = next]
    /\ UNCHANGED <<jobVars, ledgerVars, batchVars, job, todo, rec, crashes>>

\* An error outside the try block of _process (_resolve_connector, or _retry
\* itself) leaves run_once: a job the worker had claimed stays 'running'.
BatchFails(w) ==
    /\ "batch" \in Faults
    /\ pc[w] \in {"reclaim", "claim", "load", "retry"}
    /\ DropBatch(w)
    /\ UNCHANGED <<jobVars, ledgerVars, crashes>>

\* connector.sync returns the page of the cursor read by Load.
Sync(w) ==
    /\ pc[w] = "sync"
    /\ pc' = [pc EXCEPT ![w] = "apply"]
    /\ todo' = [todo EXCEPT ![w] = PageAt(job[w], snapCursor[w])]
    /\ UNCHANGED <<jobVars, ledgerVars, batchVars, job, snapAttempts, snapCursor, rec, crashes>>

\* connector.sync, the reservation's INSERT or the final UPDATE raises.
PageFails(w) ==
    /\ "provider" \in Faults
    /\ pc[w] \in {"sync", "apply", "commit"}
    /\ pc' = [pc EXCEPT ![w] = "retry"]
    /\ todo' = [todo EXCEPT ![w] = {}]
    /\ UNCHANGED <<jobVars, ledgerVars, batchVars, job, snapAttempts, snapCursor, rec, crashes>>

\* _apply_once: a record somebody reserved counts as applied and is skipped.
Skip(w) ==
    /\ pc[w] = "apply"
    /\ \E r \in todo[w] \cap reserved : todo' = [todo EXCEPT ![w] = @ \ {r}]
    /\ UNCHANGED <<jobVars, ledgerVars, pc, batchVars, job, snapAttempts, snapCursor, rec, crashes>>

\* Mutant: the reservation does not refuse a record that has one.
ReserveAgain(w) ==
    /\ pc[w] = "apply"
    /\ \E r \in todo[w] :
        /\ reserved' = reserved \cup {r}
        /\ rec' = [rec EXCEPT ![w] = r]
        /\ todo' = [todo EXCEPT ![w] = @ \ {r}]
    /\ pc' = [pc EXCEPT ![w] = "applying"]
    /\ UNCHANGED <<jobVars, memory, completions, orphaned, batchVars, job, snapAttempts,
                   snapCursor, crashes>>

\* _apply_once: the reservation is inserted and committed before the work.
Reserve(w) ==
    /\ pc[w] = "apply"
    /\ \E r \in todo[w] \ reserved :
        /\ reserved' = reserved \cup {r}
        /\ rec' = [rec EXCEPT ![w] = r]
        /\ todo' = [todo EXCEPT ![w] = @ \ {r}]
    /\ pc' = [pc EXCEPT ![w] = "applying"]
    /\ UNCHANGED <<jobVars, memory, completions, orphaned, batchVars, job, snapAttempts,
                   snapCursor, crashes>>

\* What memory may hold of a record whose application is under way: its rows
\* are inserted before the graph, artifact and audit writes that may still fail.
Remembered(p, r) == IF p = NoProject THEN memory ELSE memory \cup {<<p, r>>}

\* Mutant: the reservation is released on success too.
ApplyAndRelease(w) ==
    /\ pc[w] = "applying"
    /\ completions' = [completions EXCEPT ![rec[w]] = @ + 1]
    /\ memory' = Remembered(ProjectOf[job[w]], rec[w])
    /\ reserved' = reserved \ {rec[w]}
    /\ pc' = [pc EXCEPT ![w] = "apply"]
    /\ rec' = [rec EXCEPT ![w] = NoRecord]
    /\ UNCHANGED <<jobVars, orphaned, batchVars, job, snapAttempts, snapCursor, todo, crashes>>

\* apply_record returns.  Without a project the record is left unassigned.
ApplyOk(w) ==
    /\ pc[w] = "applying"
    /\ completions' = [completions EXCEPT ![rec[w]] = @ + 1]
    /\ memory' = Remembered(ProjectOf[job[w]], rec[w])
    /\ pc' = [pc EXCEPT ![w] = "apply"]
    /\ rec' = [rec EXCEPT ![w] = NoRecord]
    /\ UNCHANGED <<jobVars, reserved, orphaned, batchVars, job, snapAttempts, snapCursor,
                   todo, crashes>>

\* Mutant: the error is swallowed, the page goes on without the record.
ApplyFailsOnward(w) ==
    /\ "apply" \in Faults
    /\ pc[w] = "applying"
    /\ memory' \in {memory, Remembered(ProjectOf[job[w]], rec[w])}
    /\ reserved' = reserved \ {rec[w]}
    /\ pc' = [pc EXCEPT ![w] = "apply"]
    /\ rec' = [rec EXCEPT ![w] = NoRecord]
    /\ UNCHANGED <<jobVars, completions, orphaned, batchVars, job, snapAttempts, snapCursor,
                   todo, crashes>>

\* apply_record raises before or after its memory rows are in: the reservation
\* is released, the page goes to _retry.
ApplyFails(w) ==
    /\ "apply" \in Faults
    /\ pc[w] = "applying"
    /\ memory' \in {memory, Remembered(ProjectOf[job[w]], rec[w])}
    /\ reserved' = reserved \ {rec[w]}
    /\ pc' = [pc EXCEPT ![w] = "retry"]
    /\ todo' = [todo EXCEPT ![w] = {}]
    /\ rec' = [rec EXCEPT ![w] = NoRecord]
    /\ UNCHANGED <<jobVars, completions, orphaned, batchVars, job, snapAttempts, snapCursor,
                   crashes>>

\* The releasing DELETE, in a connection of its own, raises as well: the
\* reservation stays, and the retried page takes the record for applied.
ReleaseFails(w) ==
    /\ "release" \in Faults
    /\ pc[w] = "applying"
    /\ memory' \in {memory, Remembered(ProjectOf[job[w]], rec[w])}
    /\ orphaned' = orphaned \cup {rec[w]}
    /\ pc' = [pc EXCEPT ![w] = "retry"]
    /\ todo' = [todo EXCEPT ![w] = {}]
    /\ rec' = [rec EXCEPT ![w] = NoRecord]
    /\ UNCHANGED <<jobVars, reserved, completions, batchVars, job, snapAttempts, snapCursor,
                   crashes>>

PageApplied(w) ==
    /\ pc[w] = "apply"
    /\ todo[w] = {}
    /\ pc' = [pc EXCEPT ![w] = "commit"]
    /\ UNCHANGED <<jobVars, ledgerVars, batchVars, pageVars, crashes>>

\* Mutant: off by one, the last page announces another.
HasMoreAlways(j, c) == c <= LastPage(j)

HasMore(j, c) == c < LastPage(j)

\* The final UPDATE: by id only, whoever holds the row by now.
SavePage(w) ==
    LET j == job[w]
        c == snapCursor[w]
    IN /\ cursor' = [cursor EXCEPT ![j] = IF c <= LastPage(j) THEN c + 1 ELSE c]
       /\ status' = [status EXCEPT ![j] = IF HasMore(j, c) THEN "queued" ELSE "succeeded"]
       /\ attempts' = [attempts EXCEPT ![j] = @ + 1]
       /\ \E d \in 0..(IF HasMore(j, c) THEN MaxDelay ELSE 0) :
             wait' = [wait EXCEPT ![j] = d]
       /\ age' = [age EXCEPT ![j] = 0]

Commit(w) ==
    /\ pc[w] = "commit"
    /\ SavePage(w)
    /\ pc' = [pc EXCEPT ![w] = "claim"]
    /\ DropPage(w)
    /\ UNCHANGED <<ledgerVars, batchVars, crashes>>

\* The audit insert after it raises inside the try block: a saved page is
\* handed to _retry, although the row may be settled or claimed by then.
CommitUnaudited(w) ==
    /\ "audit" \in Faults
    /\ pc[w] = "commit"
    /\ SavePage(w)
    /\ pc' = [pc EXCEPT ![w] = "retry"]
    /\ UNCHANGED <<ledgerVars, batchVars, pageVars, crashes>>

\* min(max_delay, base * 2^(attempts - 1))
Backoff(a) ==
    LET d == BaseDelay * 2^(a - 1) IN IF d \in 0..MaxDelay THEN d ELSE MaxDelay

\* _retry: computed from the row _process read, written by id only.
Retry(w) ==
    /\ pc[w] = "retry"
    /\ LET j == job[w]
           a == snapAttempts[w] + 1
       IN /\ attempts' = [attempts EXCEPT ![j] = a]
          /\ status' = [status EXCEPT ![j] = IF a >= MaxAttempts THEN "failed" ELSE "retrying"]
          /\ wait' = [wait EXCEPT ![j] = Backoff(a)]
          /\ age' = [age EXCEPT ![j] = 0]
    /\ pc' = [pc EXCEPT ![w] = "claim"]
    /\ DropPage(w)
    /\ UNCHANGED <<cursor, ledgerVars, batchVars, crashes>>

-----------------------------------------------------------------------------
\* The worker's process dies anywhere in run_once and is started again; of the
\* record it was applying, memory may hold the rows or not.
Crash(w) ==
    /\ "crash" \in Faults
    /\ crashes < MaxCrashes
    /\ pc[w] # "idle"
    /\ crashes' = crashes + 1
    /\ IF pc[w] = "applying"
       THEN /\ memory' \in {memory, Remembered(ProjectOf[job[w]], rec[w])}
            /\ orphaned' = orphaned \cup {rec[w]}
       ELSE UNCHANGED <<memory, orphaned>>
    /\ DropBatch(w)
    /\ UNCHANGED <<jobVars, reserved, completions>>

Older(a) == IF a < Lease THEN a + 1 ELSE a

\* Time passes for every row and every running batch at once.  Only running
\* rows are ever judged by their age, and a settled row is never due again.
Tick ==
    /\ Punctual => \A w \in Workers : pc[w] # "idle" => batchAge[w] + 1 < Lease
    /\ age' = [j \in Jobs |->
                IF status[j] = "running" THEN Older(age[j]) ELSE age[j]]
    /\ wait' = [j \in Jobs |->
                IF status[j] \in {"queued", "running", "retrying"} /\ wait[j] > -Lease
                THEN wait[j] - 1 ELSE wait[j]]
    /\ batchAge' = [w \in Workers |->
                        IF pc[w] = "idle" THEN 0 ELSE Older(batchAge[w])]
    /\ UNCHANGED <<status, attempts, cursor, ledgerVars, pc, stale, due, pageVars, crashes>>

Step(w) ==
    \/ RunOnce(w) \/ Reclaim(w) \/ SelectDue(w) \/ Claim(w) \/ EndBatch(w)
    \/ Load(w) \/ Sync(w) \/ Skip(w) \/ Reserve(w) \/ ApplyOk(w)
    \/ PageApplied(w) \/ Commit(w) \/ Retry(w)

Fault(w) ==
    \/ BatchFails(w) \/ PageFails(w) \/ ApplyFails(w) \/ ReleaseFails(w)
    \/ CommitUnaudited(w) \/ Crash(w)

Next ==
    \/ \E j \in Jobs : Enqueue(j)
    \/ \E w \in Workers : Step(w) \/ Fault(w)
    \/ Tick

Spec == Init /\ [][Next]_vars

\* The poller loops for ever and the clock runs; faults are never obliged.
FairSpec == Spec /\ WF_vars(Tick) /\ \A w \in Workers : WF_vars(Step(w))

-----------------------------------------------------------------------------
TypeOK ==
    /\ status \in [Jobs -> Statuses]
    /\ attempts \in [Jobs -> Nat]
    /\ cursor \in [Jobs -> Nat]
    /\ wait \in [Jobs -> Int]
    /\ age \in [Jobs -> Nat]
    /\ reserved \subseteq Records
    /\ memory \subseteq Projects \X Records
    /\ completions \in [Records -> Nat]
    /\ orphaned \subseteq Records
    /\ pc \in [Workers -> BatchSteps \cup PageSteps]
    /\ batchAge \in [Workers -> Nat]
    /\ stale \in [Workers -> SUBSET Jobs]
    /\ due \in [Workers -> SUBSET Jobs]
    /\ job \in [Workers -> Jobs \cup {NoJob}]
    /\ snapAttempts \in [Workers -> Nat]
    /\ snapCursor \in [Workers -> Nat]
    /\ todo \in [Workers -> SUBSET Records]
    /\ rec \in [Workers -> Records \cup {NoRecord}]
    /\ crashes \in Nat
    /\ \A w \in Workers : pc[w] \in PageSteps => job[w] \in Jobs
    /\ \A w \in Workers : pc[w] = "applying" => rec[w] \in Records

(***************************************************************************)
(* apply_record completes at most once for a record version, however many  *)
(* workers run, die, overrun their lease or repeat each other's pages: its *)
(* reservation outlives every completed call.  A call that raised after it *)
(* wrote memory is no completed one, and is repeated.                      *)
(***************************************************************************)
AppliedAtMostOnce == \A r \in Records : completions[r] <= 1

(***************************************************************************)
(* Two workers are never inside apply_record with the same record version, *)
(* and the one that is holds its reservation.                              *)
(***************************************************************************)
ExclusiveApply ==
    \A v, w \in Workers :
        pc[v] = "applying" /\ pc[w] = "applying" =>
            /\ rec[w] \in reserved
            /\ v # w => rec[v] # rec[w]

(***************************************************************************)
(* The guarded claim makes a job's worker its only one: no other worker    *)
(* owns the job and the row says 'running'.  It needs every batch to end   *)
(* within the lease and no worker to abandon a job.                        *)
(***************************************************************************)
SingleOwner ==
    \A w \in Workers, j \in Jobs :
        Owns(w, j) => /\ status[j] = "running"
                      /\ \A v \in Workers \ {w} : ~Owns(v, j)

(***************************************************************************)
(* The rows implement the job life cycle a user sees: pages are taken in   *)
(* order, each once, and an ended job never changes again.                 *)
(***************************************************************************)
Phase(s) == IF s \in {"queued", "running", "retrying"} THEN "open" ELSE s

Life == INSTANCE JobLifecycle WITH
            PageCount <- [j \in Jobs |-> Len(Pages[j])],
            phase <- [j \in Jobs |-> Phase(status[j])],
            taken <- [j \in Jobs |-> cursor[j] - 1]

ImplementsLifecycle == Life!LifeSpec

(***************************************************************************)
(* With one worker, the cursor never passes a record that nobody reserved, *)
(* nor one that memory does not hold, except a record whose reservation a  *)
(* crash or a failed release has left behind: a page that failed, anywhere *)
(* in it, is retried from its first record.                                *)
(***************************************************************************)
CursorBehindWork ==
    \A j \in Jobs : \A c \in 1..(cursor[j] - 1) : \A r \in PageAt(j, c) :
        /\ r \in reserved
        /\ r \notin orphaned /\ ProjectOf[j] # NoProject => <<ProjectOf[j], r>> \in memory

(***************************************************************************)
(* A job that succeeded delivered every record of its resource to its      *)
(* project's memory.                                                       *)
(***************************************************************************)
SucceededDelivers ==
    \A j \in Jobs : status[j] = "succeeded" /\ ProjectOf[j] # NoProject =>
        \A c \in DOMAIN Pages[j] : \A r \in Pages[j][c] :
            <<ProjectOf[j], r>> \in memory

(***************************************************************************)
(* Every job that was enqueued settles.                                    *)
(***************************************************************************)
EveryJobSettles == \A j \in Jobs : status[j] = "queued" ~> status[j] \in Terminal
=============================================================================
