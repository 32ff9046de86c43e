-------------------------- MODULE SyncEngineProofs --------------------------
(***************************************************************************)
(* Proofs about the sync engine and the webhooks beside it, for every      *)
(* number of workers, jobs, request threads and deliveries.                *)
(***************************************************************************)
EXTENDS WebhookDelivery, TLAPS

(***************************************************************************)
(* What connector.sync returns for a cursor is a set of records.           *)
(***************************************************************************)
LEMMA PageAtType ==
    ASSUME NEW j \in Jobs, NEW c \in Nat
    PROVE  PageAt(j, c) \in SUBSET Records
  <1>1. Pages[j] \in Seq(SUBSET Records)
    BY SyncAssumption
  <1>2. CASE c \in DOMAIN Pages[j]
    BY <1>1, <1>2 DEF PageAt
  <1>3. CASE c \notin DOMAIN Pages[j]
    BY <1>3 DEF PageAt
  <1> QED BY <1>2, <1>3

LEMMA BackoffType ==
    ASSUME NEW a \in Nat
    PROVE  Backoff(a) \in Int
  BY SyncAssumption DEF Backoff

LEMMA TypeInit == Init => TypeOK
  <1> SUFFICES ASSUME Init PROVE TypeOK
    OBVIOUS
  <1>1. 1 \in Nat /\ 0 \in Nat /\ 0 \in Int
    OBVIOUS
  <1> QED
    BY <1>1 DEF Init, TypeOK, Statuses, BatchSteps, PageSteps

LEMMA TypeStep == TypeOK /\ [Next]_vars => TypeOK'
  <1> SUFFICES ASSUME TypeOK, [Next]_vars PROVE TypeOK'
    OBVIOUS
  <1> USE DEF TypeOK, jobVars, ledgerVars, batchVars, pageVars,
              Statuses, BatchSteps, PageSteps
  <1>1. ASSUME NEW j \in Jobs, Enqueue(j) PROVE TypeOK'
    BY <1>1 DEF Enqueue
  <1>2. ASSUME NEW w \in Workers, RunOnce(w) PROVE TypeOK'
    BY <1>2 DEF RunOnce, FirstOf, StaleJobs
  <1>3. ASSUME NEW w \in Workers, Reclaim(w) PROVE TypeOK'
    BY <1>3 DEF Reclaim
  <1>4. ASSUME NEW w \in Workers, SelectDue(w) PROVE TypeOK'
    BY <1>4 DEF SelectDue, FirstOf, DueJobs
  <1>5. ASSUME NEW w \in Workers, Claim(w) PROVE TypeOK'
    <2> PICK j \in due[w] :
            /\ due' = [due EXCEPT ![w] = @ \ {j}]
            /\ IF status[j] \in {"queued", "retrying"}
               THEN /\ status' = [status EXCEPT ![j] = "running"]
                    /\ age' = [age EXCEPT ![j] = batchAge[w]]
                    /\ pc' = [pc EXCEPT ![w] = "load"]
                    /\ job' = [job EXCEPT ![w] = j]
               ELSE UNCHANGED <<status, age, pc, job>>
      BY <1>5 DEF Claim
    <2>1. CASE status[j] \in {"queued", "retrying"}
      BY <1>5, <2>1 DEF Claim
    <2>2. CASE status[j] \notin {"queued", "retrying"}
      BY <1>5, <2>2 DEF Claim
    <2> QED BY <2>1, <2>2
  <1>6. ASSUME NEW w \in Workers, EndBatch(w) PROVE TypeOK'
    BY <1>6 DEF EndBatch
  <1>7. ASSUME NEW w \in Workers, Load(w) PROVE TypeOK'
    BY <1>7 DEF Load
  <1>8. ASSUME NEW w \in Workers, BatchFails(w) PROVE TypeOK'
    BY <1>8 DEF BatchFails, DropBatch, DropPage
  <1>9. ASSUME NEW w \in Workers, Sync(w) PROVE TypeOK'
    <2>1. PageAt(job[w], snapCursor[w]) \in SUBSET Records
      BY <1>9, PageAtType DEF Sync
    <2> QED BY <1>9, <2>1 DEF Sync
  <1>10. ASSUME NEW w \in Workers, PageFails(w) PROVE TypeOK'
    BY <1>10 DEF PageFails
  <1>11. ASSUME NEW w \in Workers, Skip(w) PROVE TypeOK'
    BY <1>11 DEF Skip
  <1>12. ASSUME NEW w \in Workers, Reserve(w) PROVE TypeOK'
    BY <1>12 DEF Reserve
  <1>r. ASSUME NEW w \in Workers, pc[w] = "applying",
               memory' \in {memory, Remembered(ProjectOf[job[w]], rec[w])}
        PROVE  memory' \subseteq Projects \X Records /\ rec[w] \in Records
    BY <1>r, SyncAssumption DEF Remembered
  <1>13. ASSUME NEW w \in Workers, ApplyOk(w) PROVE TypeOK'
    <2>1. memory' \subseteq Projects \X Records /\ rec[w] \in Records
      BY <1>13, <1>r DEF ApplyOk
    <2> QED BY <1>13, <2>1 DEF ApplyOk
  <1>14. ASSUME NEW w \in Workers, ApplyFails(w) \/ ReleaseFails(w) PROVE TypeOK'
    <2>1. memory' \subseteq Projects \X Records /\ rec[w] \in Records
      BY <1>14, <1>r DEF ApplyFails, ReleaseFails
    <2> QED BY <1>14, <2>1 DEF ApplyFails, ReleaseFails
  <1>15. ASSUME NEW w \in Workers, PageApplied(w) PROVE TypeOK'
    BY <1>15 DEF PageApplied
  <1>16. ASSUME NEW w \in Workers, Commit(w) PROVE TypeOK'
    BY <1>16, SyncAssumption DEF Commit, SavePage, DropPage, HasMore, LastPage
  <1>16a. ASSUME NEW w \in Workers, CommitUnaudited(w) PROVE TypeOK'
    BY <1>16a, SyncAssumption DEF CommitUnaudited, SavePage, HasMore, LastPage
  <1>17. ASSUME NEW w \in Workers, Retry(w) PROVE TypeOK'
    <2>1. Backoff(snapAttempts[w] + 1) \in Int
      BY BackoffType
    <2> QED BY <1>17, <2>1 DEF Retry, DropPage
  <1>18. ASSUME NEW w \in Workers, Crash(w) PROVE TypeOK'
    <2>1. CASE pc[w] = "applying"
      <3>1. memory' \subseteq Projects \X Records /\ rec[w] \in Records
        BY <1>18, <2>1, <1>r DEF Crash
      <3> QED BY <1>18, <2>1, <3>1 DEF Crash, DropBatch, DropPage
    <2>2. CASE pc[w] # "applying"
      BY <1>18, <2>2 DEF Crash, DropBatch, DropPage
    <2> QED BY <2>1, <2>2
  <1>19. ASSUME Tick PROVE TypeOK'
    BY <1>19, SyncAssumption DEF Tick, Older
  <1>20. ASSUME UNCHANGED vars PROVE TypeOK'
    BY <1>20 DEF vars
  <1> QED
    BY <1>1, <1>2, <1>3, <1>4, <1>5, <1>6, <1>7, <1>8, <1>9, <1>10, <1>11, <1>12,
       <1>13, <1>14, <1>15, <1>16, <1>16a, <1>17, <1>18, <1>19, <1>20
    DEF Next, Step, Fault

(***************************************************************************)
(* Every reachable state is well typed.                                    *)
(***************************************************************************)
THEOREM TypeCorrect == Spec => []TypeOK
  BY TypeInit, TypeStep, PTL DEF Spec

-----------------------------------------------------------------------------
(***************************************************************************)
(* The inductive invariant of the ledger.  Whoever is inside apply_record  *)
(* holds a reservation nobody completed under yet, nobody else is inside   *)
(* with the same record, and a completed record stays reserved.            *)
(***************************************************************************)
LedgerInv ==
    /\ \A r \in Records : completions[r] \in {0, 1}
    /\ \A r \in Records : completions[r] = 1 => r \in reserved
    /\ \A w \in Workers : pc[w] = "applying" =>
            rec[w] \in reserved /\ completions[rec[w]] = 0
    /\ \A v, w \in Workers :
            pc[v] = "applying" /\ pc[w] = "applying" /\ v # w => rec[v] # rec[w]

LEMMA LedgerInit == Init => LedgerInv
  BY DEF Init, LedgerInv

\* Steps that leave reservations and completions alone and start no application.
Quiet ==
    /\ UNCHANGED <<reserved, completions>>
    /\ \A w \in Workers : pc'[w] = "applying" => pc[w] = "applying" /\ rec'[w] = rec[w]

\* Only _apply_once touches the ledger.
LEMMA LedgerMoves ==
    ASSUME TypeOK, [Next]_vars
    PROVE  Quiet \/ \E w \in Workers : Reserve(w) \/ ApplyOk(w) \/ ApplyFails(w)
  <1>t. pc \in [Workers -> BatchSteps \cup PageSteps] /\ rec \in [Workers -> Records \cup {NoRecord}]
    BY DEF TypeOK
  <1> USE DEF Quiet, ledgerVars, pageVars, batchVars
  <1>1. ASSUME NEW j \in Jobs, Enqueue(j) PROVE Quiet
    BY <1>1 DEF Enqueue
  <1>2. ASSUME NEW w \in Workers, RunOnce(w) \/ Reclaim(w) \/ SelectDue(w) \/ EndBatch(w) PROVE Quiet
    BY <1>2, <1>t DEF RunOnce, Reclaim, SelectDue, EndBatch
  <1>3. ASSUME NEW w \in Workers, Claim(w) PROVE Quiet
    BY <1>3, <1>t DEF Claim
  <1>4. ASSUME NEW w \in Workers, Load(w) \/ Sync(w) \/ PageFails(w) \/ Skip(w) \/ PageApplied(w) PROVE Quiet
    BY <1>4, <1>t DEF Load, Sync, PageFails, Skip, PageApplied
  <1>5. ASSUME NEW w \in Workers, BatchFails(w) \/ Crash(w) PROVE Quiet
    BY <1>5, <1>t DEF BatchFails, Crash, DropBatch, DropPage
  <1>8. ASSUME NEW w \in Workers, ReleaseFails(w) PROVE Quiet
    BY <1>8, <1>t DEF ReleaseFails
  <1>6. ASSUME NEW w \in Workers, Commit(w) \/ CommitUnaudited(w) \/ Retry(w) PROVE Quiet
    BY <1>6, <1>t DEF Commit, CommitUnaudited, Retry, SavePage, DropPage
  <1>7. ASSUME Tick \/ UNCHANGED vars PROVE Quiet
    BY <1>7 DEF Tick, vars
  <1> QED
    BY <1>1, <1>2, <1>3, <1>4, <1>5, <1>6, <1>7, <1>8 DEF Next, Step, Fault

LEMMA LedgerStep == TypeOK /\ LedgerInv /\ [Next]_vars => LedgerInv'
  <1> SUFFICES ASSUME TypeOK, LedgerInv, [Next]_vars PROVE LedgerInv'
    OBVIOUS
  <1>t. /\ pc \in [Workers -> BatchSteps \cup PageSteps]
        /\ rec \in [Workers -> Records \cup {NoRecord}]
        /\ completions \in [Records -> Nat]
        /\ \A w \in Workers : pc[w] = "applying" => rec[w] \in Records
    BY DEF TypeOK
  <1>1. ASSUME Quiet PROVE LedgerInv'
    BY <1>1 DEF LedgerInv, Quiet
  <1>2. ASSUME NEW w \in Workers, Reserve(w) PROVE LedgerInv'
    <2> PICK r \in todo[w] \ reserved :
            reserved' = reserved \cup {r} /\ rec' = [rec EXCEPT ![w] = r]
      BY <1>2 DEF Reserve
    <2>1. r \in Records /\ completions[r] = 0
      BY DEF TypeOK, LedgerInv
    <2>2. /\ pc' = [pc EXCEPT ![w] = "applying"]
          /\ completions' = completions
      BY <1>2 DEF Reserve
    <2>3. \A v \in Workers \ {w} :
            pc'[v] = "applying" => pc[v] = "applying" /\ rec'[v] = rec[v] /\ rec[v] # r
      BY <2>2, <1>t DEF LedgerInv
    <2> QED
      BY <2>1, <2>2, <2>3, <1>t DEF LedgerInv
  <1>3. ASSUME NEW w \in Workers, ApplyOk(w) PROVE LedgerInv'
    <2>1. /\ pc[w] = "applying"
          /\ pc' = [pc EXCEPT ![w] = "apply"]
          /\ completions' = [completions EXCEPT ![rec[w]] = @ + 1]
          /\ reserved' = reserved
          /\ rec' = [rec EXCEPT ![w] = NoRecord]
      BY <1>3 DEF ApplyOk
    <2>2. rec[w] \in Records /\ rec[w] \in reserved /\ completions[rec[w]] = 0
      BY <2>1, <1>t DEF LedgerInv
    <2>3. completions'[rec[w]] = 1
          /\ \A r \in Records \ {rec[w]} : completions'[r] = completions[r]
      BY <2>1, <2>2, <1>t
    <2>4. \A v \in Workers : pc'[v] = "applying" =>
            v # w /\ pc[v] = "applying" /\ rec'[v] = rec[v] /\ rec[v] # rec[w]
      BY <2>1, <1>t DEF LedgerInv
    <2> QED
      BY <2>1, <2>2, <2>3, <2>4, <1>t DEF LedgerInv
  <1>4. ASSUME NEW w \in Workers, ApplyFails(w) PROVE LedgerInv'
    <2>1. /\ pc[w] = "applying"
          /\ pc' = [pc EXCEPT ![w] = "retry"]
          /\ completions' = completions
          /\ reserved' = reserved \ {rec[w]}
          /\ rec' = [rec EXCEPT ![w] = NoRecord]
      BY <1>4 DEF ApplyFails
    <2>2. completions[rec[w]] = 0
      BY <2>1 DEF LedgerInv
    <2>3. \A v \in Workers : pc'[v] = "applying" =>
            v # w /\ pc[v] = "applying" /\ rec'[v] = rec[v] /\ rec[v] # rec[w]
      BY <2>1, <1>t DEF LedgerInv
    <2> QED
      BY <2>1, <2>2, <2>3 DEF LedgerInv
  <1> QED BY <1>1, <1>2, <1>3, <1>4, LedgerMoves

(***************************************************************************)
(* No record version is applied twice, whatever the workers do.            *)
(***************************************************************************)
THEOREM AppliedOnce == Spec => []AppliedAtMostOnce
  <1>1. LedgerInv => AppliedAtMostOnce
    BY DEF LedgerInv, AppliedAtMostOnce
  <1> QED
    BY <1>1, LedgerInit, LedgerStep, TypeCorrect, PTL DEF Spec

(***************************************************************************)
(* apply_record runs for a record version in one worker at a time, under   *)
(* its reservation.                                                        *)
(***************************************************************************)
THEOREM ApplyIsExclusive == Spec => []ExclusiveApply
  <1>1. LedgerInv => ExclusiveApply
    BY DEF LedgerInv, ExclusiveApply
  <1> QED
    BY <1>1, LedgerInit, LedgerStep, TypeCorrect, PTL DEF Spec

(***************************************************************************)
(* Who owns a job, and that the sync engine implements the job life cycle, *)
(* for every number of workers, jobs and pages: for a deployment whose     *)
(* workers finish each batch within the lease, never abandon a claimed job *)
(* and never lose an audit event.                                          *)
(***************************************************************************)
Dependable == Punctual /\ Faults \cap {"crash", "batch", "audit"} = {}

(***************************************************************************)
(* The inductive invariant: a running row has exactly one owner, it is as  *)
(* old as its owner's batch, and so no row ever looks stale.               *)
(***************************************************************************)
OwnerInv ==
    /\ \A w \in Workers, j \in Jobs :
            Owns(w, j) => status[j] = "running" /\ age[j] = batchAge[w]
    /\ \A v, w \in Workers, j \in Jobs : Owns(v, j) /\ Owns(w, j) => v = w
    /\ \A j \in Jobs : status[j] = "running" => \E w \in Workers : Owns(w, j)
    /\ \A w \in Workers : pc[w] # "idle" => batchAge[w] < Lease
    /\ \A w \in Workers : stale[w] = {}

LEMMA OwnerInit == Init => OwnerInv
  BY DEF Init, OwnerInv, Owns, PageSteps

LEMMA NothingStale ==
    ASSUME TypeOK, OwnerInv
    PROVE  StaleJobs = {}
  <1> SUFFICES ASSUME NEW j \in Jobs, status[j] = "running", age[j] >= Lease
               PROVE  FALSE
    BY DEF StaleJobs
  <1>1. PICK w \in Workers : Owns(w, j)
    BY DEF OwnerInv
  <1>2. age[j] < Lease
    BY <1>1 DEF OwnerInv, Owns, PageSteps
  <1>3. age[j] \in Nat /\ Lease \in Nat
    BY SyncAssumption DEF TypeOK
  <1> QED BY <1>2, <1>3

\* Steps in which no worker gains or loses a job and no clock moves.
LEMMA OwnerFrame ==
    ASSUME OwnerInv, TypeOK, UNCHANGED <<status, age, batchAge, job, stale>>,
           \A w \in Workers : pc'[w] \in PageSteps <=> pc[w] \in PageSteps,
           \A w \in Workers : pc'[w] # "idle" => pc[w] # "idle"
    PROVE  OwnerInv'
  <1>1. \A w \in Workers, j \in Jobs : Owns(w, j)' <=> Owns(w, j)
    BY DEF Owns
  <1> QED BY <1>1 DEF OwnerInv

\* The writes that end a page: the owner lets go and the row stops running.
LEMMA OwnerLetsGo ==
    ASSUME OwnerInv, TypeOK, NEW w \in Workers,
           pc[w] \in PageSteps, pc' = [pc EXCEPT ![w] = "claim"],
           NEW s \in Statuses \ {"running"},
           status' = [status EXCEPT ![job[w]] = s],
           age' = [age EXCEPT ![job[w]] = 0],
           job' = [job EXCEPT ![w] = NoJob],
           UNCHANGED <<batchAge, stale>>
    PROVE  OwnerInv'
  <1>1. job[w] \in Jobs /\ Owns(w, job[w])
    BY DEF TypeOK, Owns
  <1>2. \A v \in Workers, j \in Jobs : Owns(v, j)' <=> Owns(v, j) /\ v # w
    BY DEF Owns, TypeOK, PageSteps
  <1>3. \A v \in Workers \ {w} : ~Owns(v, job[w])
    BY <1>1 DEF OwnerInv
  <1>4. \A j \in Jobs \ {job[w]} : status'[j] = status[j] /\ age'[j] = age[j]
    BY DEF TypeOK
  <1>5. status'[job[w]] # "running"
    BY <1>1 DEF TypeOK
  <1>6. \A j \in Jobs : status'[j] = "running" => \E v \in Workers : Owns(v, j)'
    <2> SUFFICES ASSUME NEW j \in Jobs, status'[j] = "running"
                 PROVE  \E v \in Workers : Owns(v, j)'
      OBVIOUS
    <2>1. j # job[w] /\ status[j] = "running"
      BY <1>4, <1>5
    <2>2. PICK v \in Workers : Owns(v, j)
      BY <2>1 DEF OwnerInv
    <2>3. v # w
      BY <2>1, <2>2 DEF Owns
    <2> QED BY <1>2, <2>2, <2>3
  <1>7. \A v \in Workers, j \in Jobs :
            Owns(v, j)' => status'[j] = "running" /\ age'[j] = batchAge'[v]
    BY <1>2, <1>3, <1>4 DEF OwnerInv
  <1>8. \A v \in Workers : pc'[v] # "idle" => batchAge'[v] < Lease
    BY DEF OwnerInv, TypeOK, PageSteps
  <1> QED BY <1>2, <1>6, <1>7, <1>8 DEF OwnerInv

\* Time moves a running row and its owner's batch together.
LEMMA OwnerTick ==
    ASSUME OwnerInv, TypeOK, Dependable, Tick
    PROVE  OwnerInv'
  <1>1. /\ UNCHANGED <<status, pc, job, stale>>
        /\ age' = [j \in Jobs |-> IF status[j] = "running" THEN Older(age[j]) ELSE age[j]]
        /\ batchAge' = [w \in Workers |-> IF pc[w] = "idle" THEN 0 ELSE Older(batchAge[w])]
        /\ \A w \in Workers : pc[w] # "idle" => batchAge[w] + 1 < Lease
    BY DEF Tick, Dependable, pageVars
  <1>2. \A w \in Workers, j \in Jobs : Owns(w, j)' <=> Owns(w, j)
    BY <1>1 DEF Owns
  <1>3. \A w \in Workers : pc[w] # "idle" => batchAge'[w] = batchAge[w] + 1
    BY <1>1, SyncAssumption DEF TypeOK, Older
  <1>4. \A w \in Workers, j \in Jobs :
            Owns(w, j) => age'[j] = batchAge'[w] /\ status[j] = "running"
    BY <1>1 DEF OwnerInv, Owns, PageSteps
  <1>5. \A w \in Workers : pc'[w] # "idle" => batchAge'[w] < Lease
    BY <1>1, <1>3
  <1> QED BY <1>1, <1>2, <1>4, <1>5 DEF OwnerInv

LEMMA OwnerStep == Dependable /\ TypeOK /\ OwnerInv /\ [Next]_vars => OwnerInv'
  <1> SUFFICES ASSUME Dependable, TypeOK, OwnerInv, [Next]_vars PROVE OwnerInv'
    OBVIOUS
  <1>t. pc \in [Workers -> BatchSteps \cup PageSteps]
    BY DEF TypeOK
  <1> USE DEF ledgerVars, pageVars, batchVars
  <1>1. ASSUME NEW j \in Jobs, Enqueue(j) PROVE OwnerInv'
    <2>1. /\ status[j] = "absent"
          /\ status' = [status EXCEPT ![j] = "queued"]
          /\ age' = [age EXCEPT ![j] = 0]
          /\ UNCHANGED <<pc, job, batchAge, stale>>
      BY <1>1 DEF Enqueue
    <2>2. \A w \in Workers, k \in Jobs : Owns(w, k)' <=> Owns(w, k)
      BY <2>1 DEF Owns
    <2>3. \A w \in Workers, k \in Jobs : Owns(w, k) => k # j
      BY <2>1 DEF OwnerInv
    <2>4. \A k \in Jobs \ {j} : status'[k] = status[k] /\ age'[k] = age[k]
      BY <2>1 DEF TypeOK
    <2>5. status'[j] # "running"
      BY <2>1 DEF TypeOK
    <2>6. \A w \in Workers, k \in Jobs :
            Owns(w, k) => status'[k] = "running" /\ age'[k] = batchAge[w]
      BY <2>3, <2>4 DEF OwnerInv
    <2>7. \A k \in Jobs : status'[k] = "running" => status[k] = "running"
      BY <2>4, <2>5
    <2> QED BY <2>1, <2>2, <2>6, <2>7 DEF OwnerInv
  <1>2. ASSUME NEW w \in Workers, RunOnce(w) PROVE OwnerInv'
    <2>1. /\ pc[w] = "idle"
          /\ pc' = [pc EXCEPT ![w] = "reclaim"]
          /\ batchAge' = [batchAge EXCEPT ![w] = 0]
          /\ UNCHANGED <<status, age, job>>
      BY <1>2 DEF RunOnce, jobVars
    <2>2. stale' = stale
      <3>1. PICK S \in FirstOf(StaleJobs, Limit) : stale' = [stale EXCEPT ![w] = S]
        BY <1>2 DEF RunOnce
      <3>2. S = {}
        BY <3>1, NothingStale DEF FirstOf
      <3>3. stale \in [Workers -> SUBSET Jobs] /\ stale[w] = {}
        BY DEF TypeOK, OwnerInv
      <3> QED BY <3>1, <3>2, <3>3
    <2>3. \A v \in Workers, j \in Jobs :
            (Owns(v, j)' <=> Owns(v, j)) /\ (Owns(v, j) => v # w)
      BY <2>1, <1>t DEF Owns, PageSteps
    <2>4. \A v \in Workers : pc'[v] # "idle" => batchAge'[v] < Lease
      BY <2>1, <1>t, SyncAssumption DEF OwnerInv, TypeOK
    <2>5. \A v \in Workers \ {w} : batchAge'[v] = batchAge[v]
      BY <2>1 DEF TypeOK
    <2> QED BY <2>1, <2>2, <2>3, <2>4, <2>5 DEF OwnerInv
  <1>3. ASSUME NEW w \in Workers, Reclaim(w) PROVE OwnerInv'
    BY <1>3 DEF Reclaim, OwnerInv
  <1>4. ASSUME NEW w \in Workers, SelectDue(w) PROVE OwnerInv'
    BY <1>4, <1>t, OwnerFrame DEF SelectDue, jobVars, PageSteps
  <1>5. ASSUME NEW w \in Workers, Claim(w) PROVE OwnerInv'
    <2> PICK j \in due[w] :
            IF status[j] \in {"queued", "retrying"}
            THEN /\ status' = [status EXCEPT ![j] = "running"]
                 /\ age' = [age EXCEPT ![j] = batchAge[w]]
                 /\ pc' = [pc EXCEPT ![w] = "load"]
                 /\ job' = [job EXCEPT ![w] = j]
            ELSE UNCHANGED <<status, age, pc, job>>
      BY <1>5 DEF Claim
    <2>1. pc[w] = "claim" /\ j \in Jobs /\ UNCHANGED <<batchAge, stale>>
      BY <1>5 DEF Claim, TypeOK
    <2>2. CASE status[j] \notin {"queued", "retrying"}
      BY <2>1, <2>2, OwnerFrame
    <2>3. CASE status[j] \in {"queued", "retrying"}
      <3>1. \A v \in Workers, k \in Jobs : Owns(v, k) => v # w /\ k # j
        BY <2>1, <2>3 DEF OwnerInv, Owns, PageSteps
      <3>2. \A v \in Workers, k \in Jobs :
                Owns(v, k)' <=> Owns(v, k) \/ (v = w /\ k = j)
        BY <2>1, <2>3, <3>1, <1>t DEF Owns, TypeOK, PageSteps
      <3>3. /\ status'[j] = "running" /\ age'[j] = batchAge[w]
            /\ \A k \in Jobs \ {j} : status'[k] = status[k] /\ age'[k] = age[k]
        BY <2>1, <2>3 DEF TypeOK
      <3>4. \A v \in Workers, k \in Jobs :
                Owns(v, k)' => status'[k] = "running" /\ age'[k] = batchAge'[v]
        BY <2>1, <3>1, <3>2, <3>3 DEF OwnerInv
      <3>5. \A k \in Jobs : status'[k] = "running" => \E v \in Workers : Owns(v, k)'
        BY <3>2, <3>3 DEF OwnerInv
      <3>6. \A u, v \in Workers, k \in Jobs : Owns(u, k)' /\ Owns(v, k)' => u = v
        BY <3>1, <3>2 DEF OwnerInv
      <3>7. \A v \in Workers : pc'[v] # "idle" => batchAge'[v] < Lease
        BY <2>1, <2>3, <1>t DEF OwnerInv
      <3> QED BY <2>1, <3>4, <3>5, <3>6, <3>7 DEF OwnerInv
    <2> QED BY <2>2, <2>3
  <1>6. ASSUME NEW w \in Workers, EndBatch(w) PROVE OwnerInv'
    <2>1. /\ pc[w] = "claim"
          /\ pc' = [pc EXCEPT ![w] = "idle"]
          /\ batchAge' = [batchAge EXCEPT ![w] = 0]
          /\ UNCHANGED <<status, age, job, stale>>
      BY <1>6 DEF EndBatch, jobVars
    <2>2. \A v \in Workers, j \in Jobs :
            (Owns(v, j)' <=> Owns(v, j)) /\ (Owns(v, j) => v # w)
      BY <2>1, <1>t DEF Owns, PageSteps
    <2>3. \A v \in Workers \ {w} : batchAge'[v] = batchAge[v] /\ pc'[v] = pc[v]
      BY <2>1, <1>t DEF TypeOK
    <2>4. pc'[w] = "idle"
      BY <2>1, <1>t
    <2> QED BY <2>1, <2>2, <2>3, <2>4 DEF OwnerInv
  <1>7. ASSUME NEW w \in Workers, Load(w) PROVE OwnerInv'
    BY <1>7, <1>t, OwnerFrame DEF Load, jobVars, PageSteps
  <1>8. ASSUME NEW w \in Workers, BatchFails(w) PROVE OwnerInv'
    BY <1>8 DEF BatchFails, Dependable
  <1>9. ASSUME NEW w \in Workers, Sync(w) PROVE OwnerInv'
    BY <1>9, <1>t, OwnerFrame DEF Sync, jobVars, PageSteps
  <1>10. ASSUME NEW w \in Workers, PageFails(w) PROVE OwnerInv'
    BY <1>10, <1>t, OwnerFrame DEF PageFails, jobVars, PageSteps
  <1>11. ASSUME NEW w \in Workers, Skip(w) PROVE OwnerInv'
    BY <1>11, <1>t, OwnerFrame DEF Skip, jobVars, PageSteps
  <1>12. ASSUME NEW w \in Workers, Reserve(w) PROVE OwnerInv'
    BY <1>12, <1>t, OwnerFrame DEF Reserve, jobVars, PageSteps
  <1>13. ASSUME NEW w \in Workers, ApplyOk(w) PROVE OwnerInv'
    BY <1>13, <1>t, OwnerFrame DEF ApplyOk, jobVars, PageSteps
  <1>14. ASSUME NEW w \in Workers, ApplyFails(w) \/ ReleaseFails(w) PROVE OwnerInv'
    BY <1>14, <1>t, OwnerFrame DEF ApplyFails, ReleaseFails, jobVars, PageSteps
  <1>15. ASSUME NEW w \in Workers, PageApplied(w) PROVE OwnerInv'
    BY <1>15, <1>t, OwnerFrame DEF PageApplied, jobVars, PageSteps
  <1>16. ASSUME NEW w \in Workers, Commit(w) PROVE OwnerInv'
    <2> DEFINE s == IF HasMore(job[w], snapCursor[w]) THEN "queued" ELSE "succeeded"
    <2>1. /\ pc[w] \in PageSteps
          /\ pc' = [pc EXCEPT ![w] = "claim"]
          /\ status' = [status EXCEPT ![job[w]] = s]
          /\ age' = [age EXCEPT ![job[w]] = 0]
          /\ job' = [job EXCEPT ![w] = NoJob]
          /\ UNCHANGED <<batchAge, stale>>
      BY <1>16 DEF Commit, SavePage, DropPage, PageSteps
    <2>2. s \in Statuses \ {"running"}
      BY DEF Statuses
    <2> HIDE DEF s
    <2> QED BY <2>1, <2>2, OwnerLetsGo
  <1>16a. ASSUME NEW w \in Workers, CommitUnaudited(w) PROVE OwnerInv'
    BY <1>16a DEF CommitUnaudited, Dependable
  <1>17. ASSUME NEW w \in Workers, Retry(w) PROVE OwnerInv'
    <2> DEFINE s == IF snapAttempts[w] + 1 >= MaxAttempts THEN "failed" ELSE "retrying"
    <2>1. /\ pc[w] \in PageSteps
          /\ pc' = [pc EXCEPT ![w] = "claim"]
          /\ status' = [status EXCEPT ![job[w]] = s]
          /\ age' = [age EXCEPT ![job[w]] = 0]
          /\ job' = [job EXCEPT ![w] = NoJob]
          /\ UNCHANGED <<batchAge, stale>>
      BY <1>17 DEF Retry, DropPage, PageSteps
    <2>2. s \in Statuses \ {"running"}
      BY DEF Statuses
    <2> HIDE DEF s
    <2> QED BY <2>1, <2>2, OwnerLetsGo
  <1>18. ASSUME NEW w \in Workers, Crash(w) PROVE OwnerInv'
    BY <1>18 DEF Crash, Dependable
  <1>19. ASSUME Tick PROVE OwnerInv'
    BY <1>19, OwnerTick
  <1>20. ASSUME UNCHANGED vars PROVE OwnerInv'
    BY <1>20, OwnerFrame DEF vars, jobVars
  <1> QED
    BY <1>1, <1>2, <1>3, <1>4, <1>5, <1>6, <1>7, <1>8, <1>9, <1>10, <1>11, <1>12,
       <1>13, <1>14, <1>15, <1>16, <1>16a, <1>17, <1>18, <1>19, <1>20
    DEF Next, Step, Fault

(***************************************************************************)
(* While no worker dies, abandons a job or overruns its lease, a claimed   *)
(* job belongs to its worker alone, for any number of workers and jobs.    *)
(***************************************************************************)
THEOREM OneOwner ==
    ASSUME Dependable
    PROVE  Spec => []SingleOwner
  <1>1. OwnerInv => SingleOwner
    BY DEF OwnerInv, SingleOwner
  <1>2. TypeOK /\ OwnerInv /\ [Next]_vars => OwnerInv'
    BY OwnerStep
  <1> QED
    BY <1>1, <1>2, OwnerInit, TypeCorrect, PTL DEF Spec

-----------------------------------------------------------------------------
(***************************************************************************)
(* The life cycle of a job.                                                *)
(***************************************************************************)
Open == {"queued", "running", "retrying"}

(***************************************************************************)
(* The cursor of an open job names a page of its resource, that of a       *)
(* succeeded one lies just past the last, and the page an owner is working *)
(* on is the page of the row.                                              *)
(***************************************************************************)
Audited == "audit" \notin Faults

\* A worker owns only rows that say running, and nobody owns a job with it.
Owned ==
    /\ \A w \in Workers, j \in Jobs : Owns(w, j) => status[j] = "running"
    /\ \A v, w \in Workers, j \in Jobs : Owns(v, j) /\ Owns(w, j) => v = w

CursorInv ==
    /\ \A j \in Jobs : status[j] = "absent" => cursor[j] = 1
    /\ \A j \in Jobs : status[j] \in Open => cursor[j] \in 1..Len(Pages[j])
    /\ \A w \in Workers, j \in Jobs :
            Owns(w, j) /\ pc[w] # "load" => snapCursor[w] = cursor[j]

LEMMA PagesType == \A j \in Jobs : Len(Pages[j]) \in Nat \ {0}
  BY SyncAssumption

LEMMA CursorInit == Init => CursorInv
  BY DEF Init, CursorInv, Open, Owns, PageSteps

\* A step inside a job: rows keep cursor and phase, nobody gains a job.
LEMMA LifeFrame ==
    ASSUME TypeOK, CursorInv, UNCHANGED <<cursor, snapCursor>>,
           \A j \in Jobs : Phase(status'[j]) = Phase(status[j]),
           \A j \in Jobs : status'[j] \in Statuses,
           status' \in [Jobs -> Statuses],
           \A w \in Workers, j \in Jobs :
                Owns(w, j)' /\ pc'[w] # "load" => Owns(w, j) /\ pc[w] # "load"
    PROVE  CursorInv' /\ UNCHANGED Life!lifeVars
  <1>1. \A j \in Jobs : /\ status'[j] = "absent" => status[j] = "absent"
                        /\ status'[j] \in Open => status[j] \in Open
    BY DEF Phase, Statuses, Open, TypeOK
  <1>2. CursorInv'
    BY <1>1 DEF CursorInv
  <1>3. [j \in Jobs |-> Phase(status'[j])] = [j \in Jobs |-> Phase(status[j])]
    OBVIOUS
  <1> QED BY <1>2, <1>3 DEF Life!lifeVars

\* The last write of a page: the owner's row alone changes.
LEMMA OthersKeepCursor ==
    ASSUME TypeOK, Owned, CursorInv, NEW w \in Workers,
           pc[w] \in PageSteps, pc' = [pc EXCEPT ![w] = "claim"],
           job' = [job EXCEPT ![w] = NoJob],
           snapCursor' = [snapCursor EXCEPT ![w] = 1],
           \A j \in Jobs \ {job[w]} : cursor'[j] = cursor[j]
    PROVE  \A v \in Workers, j \in Jobs :
                Owns(v, j)' /\ pc'[v] # "load" => snapCursor'[v] = cursor'[j]
  <1> SUFFICES ASSUME NEW v \in Workers, NEW j \in Jobs, Owns(v, j)', pc'[v] # "load"
               PROVE  snapCursor'[v] = cursor'[j]
    OBVIOUS
  <1>1. v # w /\ Owns(v, j) /\ pc[v] # "load" /\ snapCursor'[v] = snapCursor[v]
    BY DEF Owns, TypeOK, PageSteps
  <1>2. Owns(w, job[w]) /\ job[w] \in Jobs
    BY DEF Owns, TypeOK
  <1>3. j # job[w]
    BY <1>1, <1>2 DEF Owned
  <1> QED BY <1>1, <1>3 DEF CursorInv

LEMMA CommitTakesPage ==
    ASSUME TypeOK, Owned, CursorInv, NEW w \in Workers, Commit(w),
           NEW j \in Jobs, job[w] = j
    PROVE  CursorInv' /\ Life!TakePage(j)
  <1> DEFINE more == cursor[j] < Len(Pages[j])
             s == IF more THEN "queued" ELSE "succeeded"
  <1>1. pc[w] = "commit" /\ Owns(w, j)
    BY DEF Commit, TypeOK, Owns, PageSteps
  <1>2. status[j] = "running" /\ snapCursor[w] = cursor[j]
    BY <1>1 DEF Owned, CursorInv
  <1>3. cursor[j] \in 1..Len(Pages[j]) /\ Len(Pages[j]) \in Nat
    BY <1>1, <1>2, PagesType DEF CursorInv, Open
  <1>4. /\ cursor' = [cursor EXCEPT ![j] = cursor[j] + 1]
        /\ status' = [status EXCEPT ![j] = s]
        /\ pc' = [pc EXCEPT ![w] = "claim"]
        /\ job' = [job EXCEPT ![w] = NoJob]
        /\ snapCursor' = [snapCursor EXCEPT ![w] = 1]
    BY <1>1, <1>2, <1>3 DEF Commit, SavePage, DropPage, HasMore, LastPage
  <1>5. /\ cursor'[j] = cursor[j] + 1 /\ status'[j] = s
        /\ \A k \in Jobs \ {j} : cursor'[k] = cursor[k] /\ status'[k] = status[k]
    BY <1>1, <1>4 DEF TypeOK
  <1>6. \A v \in Workers, k \in Jobs :
            Owns(v, k)' /\ pc'[v] # "load" => snapCursor'[v] = cursor'[k]
    BY <1>1, <1>4, <1>5, OthersKeepCursor DEF PageSteps
  <1>7. CursorInv'
    BY <1>3, <1>5, <1>6 DEF CursorInv, Open
  <1>8. cursor[j] - 1 + 1 = Len(Pages[j]) <=> ~more
    BY <1>3
  <1>9. [k \in Jobs |-> cursor'[k] - 1] =
            [[k \in Jobs |-> cursor[k] - 1] EXCEPT ![j] = @ + 1]
    <2>1. cursor'[j] - 1 = cursor[j] - 1 + 1
      BY <1>3, <1>5
    <2>2. \A k \in Jobs \ {j} : cursor'[k] - 1 = cursor[k] - 1
      BY <1>5
    <2> QED BY <1>1, <2>1, <2>2
  <1>10. [k \in Jobs |-> Phase(status'[k])] =
            [[k \in Jobs |-> Phase(status[k])] EXCEPT ![j] =
                IF cursor[j] - 1 + 1 = Len(Pages[j]) THEN "succeeded" ELSE "open"]
    BY <1>1, <1>5, <1>8 DEF Phase
  <1> QED BY <1>1, <1>2, <1>7, <1>9, <1>10 DEF Life!TakePage, Phase

LEMMA RetryGivesUpOrStutters ==
    ASSUME TypeOK, Owned, CursorInv, NEW w \in Workers, Retry(w),
           NEW j \in Jobs, job[w] = j
    PROVE  CursorInv' /\ (Life!GiveUp(j) \/ UNCHANGED Life!lifeVars)
  <1> DEFINE s == IF snapAttempts[w] + 1 >= MaxAttempts THEN "failed" ELSE "retrying"
  <1>1. pc[w] = "retry" /\ Owns(w, j)
    BY DEF Retry, TypeOK, Owns, PageSteps
  <1>2. status[j] = "running"
    BY <1>1 DEF Owned
  <1>3. /\ cursor' = cursor
        /\ status' = [status EXCEPT ![j] = s]
        /\ pc' = [pc EXCEPT ![w] = "claim"]
        /\ job' = [job EXCEPT ![w] = NoJob]
        /\ snapCursor' = [snapCursor EXCEPT ![w] = 1]
    BY DEF Retry, DropPage
  <1>4. s \in {"failed", "retrying"}
    OBVIOUS
  <1> HIDE DEF s
  <1>5. status'[j] = s /\ \A k \in Jobs \ {j} : status'[k] = status[k]
    BY <1>1, <1>3 DEF TypeOK
  <1>6. \A v \in Workers, k \in Jobs :
            Owns(v, k)' /\ pc'[v] # "load" => snapCursor'[v] = cursor'[k]
    BY <1>1, <1>3, OthersKeepCursor DEF PageSteps
  <1>7. CursorInv'
    BY <1>2, <1>3, <1>4, <1>5, <1>6 DEF CursorInv, Open
  <1>8. [k \in Jobs |-> Phase(status'[k])] =
            [[k \in Jobs |-> Phase(status[k])] EXCEPT ![j] = Phase(s)]
    BY <1>1, <1>5
  <1>9. CASE s = "failed"
    BY <1>1, <1>2, <1>3, <1>7, <1>8, <1>9 DEF Life!GiveUp, Phase
  <1>10. CASE s = "retrying"
    <2>1. [k \in Jobs |-> Phase(status'[k])] = [k \in Jobs |-> Phase(status[k])]
      BY <1>2, <1>5, <1>10 DEF Phase
    <2> QED BY <1>3, <1>7, <2>1 DEF Life!lifeVars
  <1> QED BY <1>4, <1>9, <1>10

LEMMA EnqueueSubmits ==
    ASSUME TypeOK, Owned, CursorInv, NEW j \in Jobs, Enqueue(j)
    PROVE  CursorInv' /\ Life!Submit(j)
  <1>1. /\ status[j] = "absent"
        /\ status' = [status EXCEPT ![j] = "queued"]
        /\ UNCHANGED <<cursor, pc, job, snapCursor>>
    BY DEF Enqueue, pageVars
  <1>2. status'[j] = "queued" /\ \A k \in Jobs \ {j} : status'[k] = status[k]
    BY <1>1 DEF TypeOK
  <1>3. cursor[j] \in 1..Len(Pages[j])
    BY <1>1, PagesType DEF CursorInv
  <1>4. \A w \in Workers, k \in Jobs : Owns(w, k)' <=> Owns(w, k)
    BY <1>1 DEF Owns
  <1>5. CursorInv'
    BY <1>1, <1>2, <1>3, <1>4 DEF CursorInv, Open
  <1>6. [k \in Jobs |-> Phase(status'[k])] =
            [[k \in Jobs |-> Phase(status[k])] EXCEPT ![j] = "open"]
    BY <1>2 DEF Phase
  <1> QED BY <1>1, <1>5, <1>6 DEF Life!Submit, Phase

\* A worker that leaves its batch leaves every row to the others.
LEMMA WorkerLeaves ==
    ASSUME TypeOK, CursorInv, NEW w \in Workers, UNCHANGED <<status, cursor>>,
           pc' = [pc EXCEPT ![w] = "idle"], job' = [job EXCEPT ![w] = NoJob],
           snapCursor' = [snapCursor EXCEPT ![w] = 1]
    PROVE  CursorInv' /\ UNCHANGED Life!lifeVars
  <1>1. ASSUME NEW v \in Workers, NEW j \in Jobs, Owns(v, j)', pc'[v] # "load"
        PROVE  snapCursor'[v] = cursor'[j]
    <2>1. v # w /\ Owns(v, j) /\ pc[v] # "load" /\ snapCursor'[v] = snapCursor[v]
      BY <1>1 DEF Owns, TypeOK, PageSteps
    <2> QED BY <1>1, <2>1 DEF CursorInv
  <1>2. CursorInv'
    BY <1>1 DEF CursorInv
  <1> QED BY <1>2 DEF Life!lifeVars

LEMMA LifeStep ==
    ASSUME Audited, TypeOK, TypeOK', Owned, CursorInv, [Next]_vars
    PROVE  CursorInv' /\ [Life!LifeNext]_(Life!lifeVars)
  <1> DEFINE Goal == CursorInv' /\ [Life!LifeNext]_(Life!lifeVars)
  <1> USE DEF ledgerVars, pageVars, batchVars
  <1>t. /\ pc \in [Workers -> BatchSteps \cup PageSteps]
        /\ status' \in [Jobs -> Statuses]
        /\ \A j \in Jobs : status'[j] \in Statuses
    BY DEF TypeOK
  <1>1. ASSUME NEW j \in Jobs, Enqueue(j) PROVE Goal
    BY <1>1, EnqueueSubmits DEF Life!LifeNext
  <1>2. ASSUME NEW w \in Workers, RunOnce(w) PROVE Goal
    BY <1>2, <1>t, LifeFrame DEF RunOnce, jobVars, Owns, PageSteps
  <1>3. ASSUME NEW w \in Workers, Reclaim(w) PROVE Goal
    <2>1. PICK k \in stale[w] :
                 IF status[k] = "running" THEN status' = [status EXCEPT ![k] = "retrying"] ELSE status' = status
      BY <1>3 DEF Reclaim
    <2>2. UNCHANGED <<cursor, snapCursor, pc, job>>
      BY <1>3 DEF Reclaim
    <2>3. \A j \in Jobs : status'[j] = status[j] \/ (status[j] = "running" /\ status'[j] = "retrying")
      BY <2>1 DEF TypeOK
    <2>4. \A j \in Jobs : Phase(status'[j]) = Phase(status[j])
      BY <2>3 DEF Phase
    <2> QED BY <2>4, <2>2, <1>t, LifeFrame DEF Owns
  <1>4. ASSUME NEW w \in Workers, SelectDue(w) PROVE Goal
    BY <1>4, <1>t, LifeFrame DEF SelectDue, jobVars, Owns, PageSteps
  <1>5. ASSUME NEW w \in Workers, Claim(w) PROVE Goal
    <2> PICK j \in due[w] :
            IF status[j] \in {"queued", "retrying"}
            THEN /\ status' = [status EXCEPT ![j] = "running"]
                 /\ pc' = [pc EXCEPT ![w] = "load"]
                 /\ job' = [job EXCEPT ![w] = j]
            ELSE UNCHANGED <<status, pc, job>>
      BY <1>5 DEF Claim
    <2>1. pc[w] = "claim" /\ UNCHANGED <<cursor, snapCursor>> /\ j \in Jobs
      BY <1>5 DEF Claim, TypeOK
    <2>2. CASE status[j] \notin {"queued", "retrying"}
      BY <2>1, <2>2, <1>t, LifeFrame DEF Owns
    <2>3. CASE status[j] \in {"queued", "retrying"}
      <3>1. \A k \in Jobs : Phase(status'[k]) = Phase(status[k])
        BY <2>3 DEF Phase, TypeOK
      <3>2. \A v \in Workers, k \in Jobs :
                Owns(v, k)' /\ pc'[v] # "load" => Owns(v, k) /\ pc[v] # "load"
        BY <2>1, <2>3, <1>t DEF Owns, TypeOK
      <3> QED BY <2>1, <3>1, <3>2, <1>t, LifeFrame
    <2> QED BY <2>2, <2>3
  <1>6. ASSUME NEW w \in Workers, EndBatch(w) PROVE Goal
    BY <1>6, <1>t, LifeFrame DEF EndBatch, jobVars, Owns, PageSteps
  <1>7. ASSUME NEW w \in Workers, Load(w) PROVE Goal
    <2>1. /\ pc[w] = "load" /\ job[w] \in Jobs
          /\ snapCursor' = [snapCursor EXCEPT ![w] = cursor[job[w]]]
          /\ UNCHANGED <<status, cursor, job>>
          /\ \A v \in Workers \ {w} : pc'[v] = pc[v]
      BY <1>7, <1>t DEF Load, jobVars, TypeOK, PageSteps
    <2>2. \A v \in Workers, j \in Jobs :
            Owns(v, j)' /\ pc'[v] # "load" => snapCursor'[v] = cursor'[j]
      BY <2>1 DEF Owns, CursorInv, TypeOK
    <2> QED BY <2>1, <2>2 DEF CursorInv, Life!lifeVars
  <1>8. ASSUME NEW w \in Workers, BatchFails(w) PROVE Goal
    BY <1>8, WorkerLeaves DEF BatchFails, DropBatch, DropPage, jobVars
  <1>9. ASSUME NEW w \in Workers, Sync(w) PROVE Goal
    BY <1>9, <1>t, LifeFrame DEF Sync, jobVars, Owns, PageSteps
  <1>10. ASSUME NEW w \in Workers, PageFails(w) PROVE Goal
    BY <1>10, <1>t, LifeFrame DEF PageFails, jobVars, Owns, PageSteps
  <1>11. ASSUME NEW w \in Workers, Skip(w) PROVE Goal
    BY <1>11, <1>t, LifeFrame DEF Skip, jobVars, Owns, PageSteps
  <1>12. ASSUME NEW w \in Workers, Reserve(w) PROVE Goal
    BY <1>12, <1>t, LifeFrame DEF Reserve, jobVars, Owns, PageSteps
  <1>13. ASSUME NEW w \in Workers, ApplyOk(w) PROVE Goal
    BY <1>13, <1>t, LifeFrame DEF ApplyOk, jobVars, Owns, PageSteps
  <1>14. ASSUME NEW w \in Workers, ApplyFails(w) \/ ReleaseFails(w) PROVE Goal
    BY <1>14, <1>t, LifeFrame DEF ApplyFails, ReleaseFails, jobVars, Owns, PageSteps
  <1>15. ASSUME NEW w \in Workers, PageApplied(w) PROVE Goal
    BY <1>15, <1>t, LifeFrame DEF PageApplied, jobVars, Owns, PageSteps
  <1>16. ASSUME NEW w \in Workers, Commit(w) PROVE Goal
    <2> PICK j \in Jobs : job[w] = j
      BY <1>16 DEF Commit, TypeOK, PageSteps
    <2>1. CursorInv' /\ Life!TakePage(j)
      BY <1>16, CommitTakesPage
    <2> QED BY <2>1 DEF Life!LifeNext
  <1>16a. ASSUME NEW w \in Workers, CommitUnaudited(w) PROVE Goal
    BY <1>16a DEF CommitUnaudited, Audited
  <1>17. ASSUME NEW w \in Workers, Retry(w) PROVE Goal
    <2> PICK j \in Jobs : job[w] = j
      BY <1>17 DEF Retry, TypeOK, PageSteps
    <2>1. CursorInv' /\ (Life!GiveUp(j) \/ UNCHANGED Life!lifeVars)
      BY <1>17, RetryGivesUpOrStutters
    <2> QED BY <2>1 DEF Life!LifeNext
  <1>18. ASSUME NEW w \in Workers, Crash(w) PROVE Goal
    BY <1>18, WorkerLeaves DEF Crash, DropBatch, DropPage, jobVars
  <1>19. ASSUME Tick PROVE Goal
    BY <1>19, <1>t, LifeFrame DEF Tick, Owns
  <1>20. ASSUME UNCHANGED vars PROVE Goal
    BY <1>20, <1>t, LifeFrame DEF vars, jobVars, Owns
  <1> QED
    BY <1>1, <1>2, <1>3, <1>4, <1>5, <1>6, <1>7, <1>8, <1>9, <1>10, <1>11, <1>12,
       <1>13, <1>14, <1>15, <1>16, <1>16a, <1>17, <1>18, <1>19, <1>20
    DEF Next, Step, Fault

LEMMA LifeStart == Init => Life!LifeInit
  BY DEF Init, Life!LifeInit, Phase

(***************************************************************************)
(* The rows of connector_sync_jobs implement the life cycle of             *)
(* JobLifecycle: each page once and in order, and no job reopened.         *)
(***************************************************************************)
THEOREM SyncImplementsLifecycle ==
    ASSUME Dependable
    PROVE  Spec => ImplementsLifecycle
  <1>1. TypeOK /\ OwnerInv /\ [Next]_vars => OwnerInv'
    BY OwnerStep
  <1>2. TypeOK /\ TypeOK' /\ OwnerInv /\ CursorInv /\ [Next]_vars =>
            CursorInv' /\ [Life!LifeNext]_(Life!lifeVars)
    BY LifeStep DEF Dependable, Audited, OwnerInv, Owned
  <1> QED
    BY <1>1, <1>2, OwnerInit, CursorInit, LifeStart, TypeCorrect, PTL
    DEF Spec, ImplementsLifecycle, Life!LifeSpec

(***************************************************************************)
(* One worker needs no lease: it reclaims rows only between its pages, so  *)
(* what it is at work on is its own, however long it takes and whatever    *)
(* batch or process ended before.                                          *)
(***************************************************************************)
LoneWorker == \A v, w \in Workers : v = w

LEMMA LoneOwns == LoneWorker /\ Audited /\ TypeOK /\ Owned /\ [Next]_vars => Owned'
  <1> SUFFICES ASSUME LoneWorker, Audited, TypeOK, Owned, [Next]_vars,
                      NEW w \in Workers, NEW j \in Jobs, Owns(w, j)'
               PROVE  status'[j] = "running"
    BY DEF LoneWorker, Owned
  <1> USE DEF jobVars, batchVars, pageVars, DropPage, DropBatch, Owns, PageSteps
  <1>1. ASSUME NEW k \in Jobs, Enqueue(k) PROVE status'[j] = "running"
    BY <1>1 DEF Enqueue, Owned, TypeOK
  <1>2. CASE RunOnce(w) \/ Reclaim(w) \/ SelectDue(w) \/ EndBatch(w)
    BY <1>2 DEF RunOnce, Reclaim, SelectDue, EndBatch, TypeOK
  <1>3. CASE Claim(w)
    BY <1>3 DEF Claim, TypeOK
  <1>4. CASE \/ Load(w) \/ Sync(w) \/ Skip(w) \/ Reserve(w) \/ ApplyOk(w) \/ PageApplied(w)
             \/ PageFails(w) \/ ApplyFails(w) \/ ReleaseFails(w)
    <2>1. pc[w] \in PageSteps /\ UNCHANGED <<status, job>>
      BY <1>4 DEF Load, Sync, Skip, Reserve, ApplyOk, PageApplied, PageFails, ApplyFails,
         ReleaseFails
    <2> QED BY <2>1 DEF Owned
  <1>5. CASE Commit(w) \/ Retry(w) \/ BatchFails(w) \/ Crash(w)
    BY <1>5 DEF Commit, Retry, BatchFails, Crash, TypeOK
  <1>6. ~CommitUnaudited(w)
    BY DEF Audited, CommitUnaudited
  <1>7. CASE Tick \/ UNCHANGED vars
    BY <1>7 DEF Tick, vars, Owned
  <1> QED
    BY <1>1, <1>2, <1>3, <1>4, <1>5, <1>6, <1>7 DEF Next, Step, Fault, LoneWorker

(***************************************************************************)
(* With one worker that loses no audit event the rows implement the life   *)
(* cycle across any number of crashes, abandoned batches and failures, and *)
(* whatever the lease.                                                     *)
(***************************************************************************)
THEOREM LoneWorkerImplementsLifecycle ==
    ASSUME LoneWorker, Audited
    PROVE  Spec => ImplementsLifecycle
  <1>1. Init => Owned
    BY DEF Init, Owned, Owns, PageSteps
  <1>2. TypeOK /\ Owned /\ [Next]_vars => Owned'
    BY LoneOwns
  <1>3. TypeOK /\ TypeOK' /\ Owned /\ CursorInv /\ [Next]_vars =>
            CursorInv' /\ [Life!LifeNext]_(Life!lifeVars)
    BY LifeStep
  <1> QED
    BY <1>1, <1>2, <1>3, CursorInit, LifeStart, TypeCorrect, PTL
    DEF Spec, ImplementsLifecycle, Life!LifeSpec

-----------------------------------------------------------------------------
(***************************************************************************)
(* Webhook deliveries beside the workers, for every number of both, every  *)
(* crash and every fault.                                                  *)
(***************************************************************************)
Targets == Projects \cup {NoProject}

HookTypeOK ==
    /\ delivery \in [Deliveries -> {"absent", "processing", "succeeded", "retryable"}]
    /\ hpc \in [Handlers -> {"idle"} \cup HookSteps]
    /\ handling \in [Handlers -> Deliveries \cup {NoDelivery}]
    /\ \A h \in Handlers : hpc[h] # "idle" => handling[h] \in Deliveries
    /\ pairs \in [Handlers -> SUBSET (Records \X Targets)]
    /\ hrec \in [Handlers -> (Records \cup {NoRecord}) \X Targets]
    /\ \A h \in Handlers : hpc[h] = "applying" => hrec[h] \in Records \X Targets
    /\ unqueued \in [Handlers -> SUBSET Targets]

AllTyped == TypeOK /\ HookTypeOK

\* What a step of the engine, or a clock tick, is to the handlers.
EngineStep ==
    /\ \/ \E j \in Subscribing : Enqueue(j)
       \/ \E w \in Workers : Step(w) \/ Fault(w)
       \/ Tick
    /\ UNCHANGED hookVars

LEMMA EngineIsNext == EngineStep => [Next]_vars /\ UNCHANGED hookVars
  BY WebhookAssumption DEF EngineStep, Next

\* The steps of the composition.
LEMMA HookCases ==
    ASSUME [HookNext]_allVars
    PROVE  \/ \E h \in Handlers : HookStep(h) \/ HookFault(h)
           \/ EngineStep
           \/ UNCHANGED allVars
  BY DEF HookNext, EngineStep

LEMMA SubscribersTyped ==
    \A d \in Deliveries : Subscribers(d) \in SUBSET Targets /\ Subscribers(d) # {}
  BY SyncAssumption DEF Subscribers, Targets

LEMMA HookJobTyped ==
    ASSUME NEW d \in Deliveries, NEW p \in Targets
    PROVE  HookJob[d][p] \in Jobs
  BY WebhookAssumption DEF Targets

LEMMA HookTypeInit == HookInit => AllTyped
  <1> SUFFICES ASSUME HookInit PROVE AllTyped
    OBVIOUS
  <1>1. TypeOK
    BY TypeInit DEF HookInit
  <1>2. HookTypeOK
    BY DEF HookInit, HookTypeOK, HookSteps, Targets
  <1> QED BY <1>1, <1>2 DEF AllTyped

LEMMA HookTypeStep == AllTyped /\ [HookNext]_allVars => AllTyped'
  <1> SUFFICES ASSUME AllTyped, [HookNext]_allVars PROVE AllTyped'
    OBVIOUS
  <1>t. TypeOK /\ HookTypeOK
    BY DEF AllTyped
  <1> USE DEF HookTypeOK, HookSteps, hookVars, handlerVars, workerVars
  <1>v. ASSUME UNCHANGED vars PROVE TypeOK'
    BY <1>t, <1>v, TypeStep
  <1>1. ASSUME NEW h \in Handlers, Receive(h) \/ Insert(h) PROVE AllTyped'
    BY <1>1, <1>t, <1>v DEF Receive, Insert, AllTyped
  <1>2. ASSUME NEW h \in Handlers, Fanout(h) PROVE AllTyped'
    <2>1. /\ handling[h] \in Deliveries /\ UNCHANGED <<vars, delivery, handling, hrec>>
          /\ HookRecords[handling[h]] \in SUBSET Records
      BY <1>2, <1>t, WebhookAssumption DEF Fanout
    <2>2. HookRecords[handling[h]] \X Subscribers(handling[h]) \in SUBSET (Records \X Targets)
      BY <2>1, SubscribersTyped
    <2>3. HookTypeOK'
      <3>1. CASE HookRecords[handling[h]] # {}
        BY <1>2, <1>t, <2>1, <2>2, <3>1 DEF Fanout
      <3>2. CASE HookRecords[handling[h]] = {}
        BY <1>2, <1>t, <2>1, <3>2, SubscribersTyped DEF Fanout
      <3> QED BY <3>1, <3>2
    <2> QED BY <2>1, <2>3, <1>v DEF AllTyped
  <1>3. ASSUME NEW h \in Handlers, HookSkip(h) \/ HookApplied(h) \/ HookRaises(h) PROVE AllTyped'
    BY <1>3, <1>t, <1>v DEF HookSkip, HookApplied, HookRaises, AllTyped
  <1>4. ASSUME NEW h \in Handlers, HookReserve(h) PROVE AllTyped'
    <2> PICK x \in pairs[h] :
            /\ reserved' = reserved \cup {x[1]} /\ hrec' = [hrec EXCEPT ![h] = x]
            /\ pairs' = [pairs EXCEPT ![h] = @ \ {x}]
      BY <1>4 DEF HookReserve
    <2>1. x \in Records \X Targets
      BY <1>t
    <2>2. TypeOK'
      BY <1>4, <1>t, <2>1 DEF HookReserve, TypeOK, jobVars, batchVars, pageVars
    <2>3. HookTypeOK'
      BY <1>4, <1>t, <2>1 DEF HookReserve
    <2> QED BY <2>2, <2>3 DEF AllTyped
  <1>5. ASSUME NEW h \in Handlers, HookApplyOk(h) PROVE AllTyped'
    <2>1. PICK r \in Records, p \in Targets : hrec[h] = <<r, p>>
      BY <1>5, <1>t DEF HookApplyOk
    <2>2. /\ completions' = [completions EXCEPT ![r] = @ + 1]
          /\ memory' = IF p = NoProject THEN memory ELSE memory \cup {<<p, r>>}
      BY <1>5, <2>1 DEF HookApplyOk, Remembered
    <2>3. TypeOK'
      BY <1>5, <1>t, <2>2 DEF HookApplyOk, TypeOK, Targets, jobVars, batchVars, pageVars
    <2>4. HookTypeOK'
      BY <1>5, <1>t DEF HookApplyOk, Targets
    <2> QED BY <2>3, <2>4 DEF AllTyped
  <1>r. ASSUME NEW h \in Handlers, hpc[h] = "applying",
               memory' \in {memory, Remembered(hrec[h][2], hrec[h][1])}
        PROVE  memory' \subseteq Projects \X Records /\ hrec[h][1] \in Records
    <2>1. PICK r \in Records, p \in Targets : hrec[h] = <<r, p>>
      BY <1>r, <1>t
    <2> QED BY <2>1, <1>r, <1>t DEF Remembered, TypeOK, Targets
  <1>6. ASSUME NEW h \in Handlers, HookApplyFails(h) \/ HookReleaseFails(h) PROVE AllTyped'
    <2>0. memory' \subseteq Projects \X Records /\ hrec[h][1] \in Records
      BY <1>6, <1>r DEF HookApplyFails, HookReleaseFails
    <2>1. TypeOK'
      BY <1>6, <1>t, <2>0 DEF HookApplyFails, HookReleaseFails, TypeOK, jobVars, batchVars, pageVars
    <2>2. HookTypeOK'
      BY <1>6, <1>t DEF HookApplyFails, HookReleaseFails, Targets
    <2> QED BY <2>1, <2>2 DEF AllTyped
  <1>7. ASSUME NEW h \in Handlers, HookEnqueue(h) PROVE AllTyped'
    <2> PICK p \in unqueued[h] :
            /\ Enqueue(HookJob[handling[h]][p]) \/ UNCHANGED vars
            /\ unqueued' = [unqueued EXCEPT ![h] = @ \ {p}]
      BY <1>7 DEF HookEnqueue
    <2>1. HookJob[handling[h]][p] \in Jobs
      BY <1>7, <1>t, HookJobTyped DEF HookEnqueue
    <2>2. TypeOK'
      BY <1>t, <2>1, TypeStep DEF Next
    <2>3. HookTypeOK'
      BY <1>7, <1>t DEF HookEnqueue
    <2> QED BY <2>2, <2>3 DEF AllTyped
  <1>8. ASSUME NEW h \in Handlers,
               InsertRefused(h) \/ HookFinish(h) \/ HookFinishUnaudited(h) \/ HookFail(h)
        PROVE  AllTyped'
    <2>1. TypeOK'
      BY <1>8, <1>v DEF InsertRefused, HookFinish, HookFinishUnaudited, HookFail
    <2>2. CASE InsertRefused(h)
      BY <2>1, <2>2, <1>t DEF InsertRefused, DropDelivery, Targets, AllTyped
    <2>3. CASE HookFinish(h)
      BY <2>1, <2>3, <1>t DEF HookFinish, DropDelivery, Targets, AllTyped
    <2>5. CASE HookFail(h)
      BY <2>1, <2>5, <1>t DEF HookFail, DropDelivery, Targets, AllTyped
    <2>4. CASE HookFinishUnaudited(h)
      BY <2>1, <2>4, <1>t DEF HookFinishUnaudited, Targets, AllTyped
    <2> QED BY <1>8, <2>2, <2>3, <2>4, <2>5
  <1>9. ASSUME NEW h \in Handlers, HookCrash(h) PROVE AllTyped'
    <2>0. memory' \subseteq Projects \X Records /\ orphaned' \subseteq Records
      <3>1. CASE hpc[h] = "applying"
        BY <1>9, <1>t, <1>r, <3>1 DEF HookCrash, TypeOK
      <3>2. CASE hpc[h] # "applying"
        BY <1>9, <1>t, <3>2 DEF HookCrash, TypeOK
      <3> QED BY <3>1, <3>2
    <2>1. TypeOK'
      BY <1>9, <1>t, <2>0 DEF HookCrash, TypeOK, jobVars, batchVars, pageVars
    <2>2. HookTypeOK'
      BY <1>9, <1>t DEF HookCrash, DropDelivery, Targets
    <2> QED BY <2>1, <2>2 DEF AllTyped
  <1>10. ASSUME EngineStep PROVE AllTyped'
    BY <1>10, <1>t, EngineIsNext, TypeStep DEF AllTyped
  <1>11. ASSUME UNCHANGED allVars PROVE AllTyped'
    BY <1>11, <1>t, <1>v DEF allVars, AllTyped
  <1> HIDE DEF HookTypeOK, HookSteps, hookVars, handlerVars, workerVars
  <1>12. ASSUME NEW h \in Handlers, HookStep(h) \/ HookFault(h) PROVE AllTyped'
    BY <1>1, <1>2, <1>3, <1>4, <1>5, <1>6, <1>7, <1>8, <1>9, <1>12 DEF HookStep, HookFault
  <1> QED BY <1>10, <1>11, <1>12, HookCases

LEMMA HookTyped == HookSpec => []AllTyped
  BY HookTypeInit, HookTypeStep, PTL DEF HookSpec

(***************************************************************************)
(* The ledger beside the handlers: a handler inside apply_record holds a   *)
(* reservation nobody completed under yet and nobody else is inside with.  *)
(***************************************************************************)
Holds(h) ==
    /\ hrec[h][1] \in reserved
    /\ completions[hrec[h][1]] = 0
    /\ \A w \in Workers : pc[w] = "applying" => rec[w] # hrec[h][1]
    /\ \A g \in Handlers \ {h} : hpc[g] = "applying" => hrec[g][1] # hrec[h][1]

HookLedgerInv ==
    /\ LedgerInv
    /\ \A h \in Handlers : hpc[h] = "applying" => Holds(h)

\* A reservation no worker is applying under is out of the engine's reach.
LEMMA ReservationStays ==
    ASSUME TypeOK, LedgerInv, [Next]_vars, NEW r \in Records, r \in reserved,
           \A w \in Workers : pc[w] = "applying" => rec[w] # r
    PROVE  /\ r \in reserved'
           /\ completions'[r] = completions[r]
           /\ \A w \in Workers : pc'[w] = "applying" => rec'[w] # r
  <1>t. /\ pc \in [Workers -> BatchSteps \cup PageSteps]
        /\ rec \in [Workers -> Records \cup {NoRecord}]
        /\ completions \in [Records -> Nat]
        /\ \A w \in Workers : pc[w] = "applying" => rec[w] \in Records
    BY DEF TypeOK
  <1>1. CASE Quiet
    BY <1>1 DEF Quiet
  <1>2. ASSUME NEW w \in Workers, Reserve(w)
        PROVE  /\ r \in reserved' /\ completions'[r] = completions[r]
               /\ \A v \in Workers : pc'[v] = "applying" => rec'[v] # r
    BY <1>2, <1>t DEF Reserve
  <1>3. ASSUME NEW w \in Workers, ApplyOk(w) \/ ApplyFails(w)
        PROVE  /\ r \in reserved' /\ completions'[r] = completions[r]
               /\ \A v \in Workers : pc'[v] = "applying" => rec'[v] # r
    BY <1>3, <1>t DEF ApplyOk, ApplyFails
  <1> QED BY <1>1, <1>2, <1>3, LedgerMoves

LEMMA HookLedgerInit == HookInit => HookLedgerInv
  <1> SUFFICES ASSUME HookInit PROVE HookLedgerInv
    OBVIOUS
  <1>1. LedgerInv
    BY LedgerInit DEF HookInit
  <1> QED BY <1>1 DEF HookInit, Init, HookLedgerInv

\* Quiet steps that start no handler's application either.
HookQuiet ==
    /\ Quiet
    /\ \A h \in Handlers :
          hpc'[h] = "applying" => hpc[h] = "applying" /\ hrec'[h] = hrec[h]

\* A request thread touches the ledger only inside _apply_once.
LEMMA HookLedgerMoves ==
    ASSUME AllTyped, NEW h \in Handlers, HookStep(h) \/ HookFault(h)
    PROVE  HookQuiet \/ HookReserve(h) \/ HookApplyOk(h) \/ HookApplyFails(h)
  <1>t. /\ hpc \in [Handlers -> {"idle"} \cup HookSteps]
        /\ hrec \in [Handlers -> (Records \cup {NoRecord}) \X Targets]
    BY DEF AllTyped, HookTypeOK
  <1> USE DEF HookQuiet
  <1>v. ASSUME UNCHANGED vars PROVE Quiet
    BY <1>v DEF vars, Quiet, ledgerVars, pageVars
  <1>1. CASE Receive(h) \/ Insert(h) \/ HookSkip(h) \/ HookApplied(h)
    BY <1>1, <1>v, <1>t DEF Receive, Insert, HookSkip, HookApplied
  <1>2. CASE Fanout(h)
    <2>1. UNCHANGED vars /\ UNCHANGED hrec
          /\ \/ hpc' = [hpc EXCEPT ![h] = "apply"]
             \/ hpc' = [hpc EXCEPT ![h] = "queue"]
             \/ hpc' = [hpc EXCEPT ![h] = "finish"]
      BY <1>2 DEF Fanout
    <2> QED BY <2>1, <1>v, <1>t
  <1>3. CASE InsertRefused(h) \/ HookFinish(h) \/ HookFail(h)
    BY <1>3, <1>v, <1>t DEF InsertRefused, HookFinish, HookFail, DropDelivery
  <1>4. CASE HookFinishUnaudited(h) \/ HookRaises(h)
    BY <1>4, <1>v, <1>t DEF HookFinishUnaudited, HookRaises
  <1>5. CASE HookCrash(h)
    BY <1>5, <1>t DEF HookCrash, DropDelivery, workerVars, pageVars, Quiet
  <1>7. CASE HookReleaseFails(h)
    BY <1>7, <1>t DEF HookReleaseFails, workerVars, pageVars, Quiet
  <1>6. CASE HookEnqueue(h)
    <2> PICK p \in unqueued[h] :
            /\ Enqueue(HookJob[handling[h]][p]) \/ UNCHANGED vars
            /\ hpc' = [hpc EXCEPT ![h] = IF unqueued[h] = {p} THEN "finish" ELSE "queue"]
      BY <1>6 DEF HookEnqueue
    <2>1. Quiet
      BY <1>v DEF Enqueue, Quiet, ledgerVars, pageVars
    <2>2. hrec' = hrec
      BY <1>6 DEF HookEnqueue
    <2> QED BY <2>1, <2>2, <1>t
  <1> QED BY <1>1, <1>2, <1>3, <1>4, <1>5, <1>6, <1>7 DEF HookStep, HookFault

LEMMA HookLedgerStep == AllTyped /\ HookLedgerInv /\ [HookNext]_allVars => HookLedgerInv'
  <1> SUFFICES ASSUME AllTyped, HookLedgerInv, [HookNext]_allVars PROVE HookLedgerInv'
    OBVIOUS
  <1>t. /\ hpc \in [Handlers -> {"idle"} \cup HookSteps]
        /\ hrec \in [Handlers -> (Records \cup {NoRecord}) \X Targets]
        /\ completions \in [Records -> Nat]
        /\ \A h \in Handlers : hpc[h] = "applying" => hrec[h] \in Records \X Targets
        /\ \A w \in Workers : pc[w] = "applying" => rec[w] \in Records
        /\ TypeOK
    BY DEF AllTyped, TypeOK, HookTypeOK
  <1>i. /\ \A r \in Records : completions[r] \in {0, 1}
        /\ \A r \in Records : completions[r] = 1 => r \in reserved
        /\ \A w \in Workers : pc[w] = "applying" =>
                rec[w] \in reserved /\ completions[rec[w]] = 0
        /\ \A v, w \in Workers :
                pc[v] = "applying" /\ pc[w] = "applying" /\ v # w => rec[v] # rec[w]
    BY DEF HookLedgerInv, LedgerInv
  <1>1. ASSUME HookQuiet PROVE HookLedgerInv'
    <2>1. LedgerInv'
      BY <1>1 DEF HookLedgerInv, LedgerInv, HookQuiet, Quiet
    <2>2. \A h \in Handlers : hpc'[h] = "applying" => Holds(h)'
      BY <1>1 DEF HookLedgerInv, Holds, HookQuiet, Quiet
    <2> QED BY <2>1, <2>2 DEF HookLedgerInv
  <1>2. ASSUME NEW h \in Handlers, HookReserve(h) PROVE HookLedgerInv'
    <2> PICK x \in pairs[h] :
            /\ x[1] \notin reserved /\ reserved' = reserved \cup {x[1]}
            /\ hrec' = [hrec EXCEPT ![h] = x]
      BY <1>2 DEF HookReserve
    <2>1. x[1] \in Records /\ completions[x[1]] = 0
      BY <1>i DEF AllTyped, HookTypeOK
    <2>2. /\ hpc' = [hpc EXCEPT ![h] = "applying"]
          /\ UNCHANGED <<completions, pc, rec>>
      BY <1>2 DEF HookReserve, workerVars, pageVars
    <2>3. LedgerInv'
      BY <2>2 DEF HookLedgerInv, LedgerInv
    <2>5. Holds(h)'
      BY <1>i, <1>t, <2>1, <2>2 DEF HookLedgerInv, Holds
    <2>6. \A g \in Handlers \ {h} : hpc'[g] = "applying" => Holds(g)'
      BY <1>t, <2>1, <2>2 DEF HookLedgerInv, Holds
    <2> QED BY <2>3, <2>5, <2>6 DEF HookLedgerInv
  <1>3. ASSUME NEW h \in Handlers, HookApplyOk(h) PROVE HookLedgerInv'
    <2>1. PICK r \in Records, p \in Targets : hrec[h] = <<r, p>>
      BY <1>3, <1>t DEF HookApplyOk
    <2>2. /\ completions' = [completions EXCEPT ![r] = @ + 1]
          /\ hpc[h] = "applying" /\ hpc' = [hpc EXCEPT ![h] = "apply"]
          /\ hrec' = [hrec EXCEPT ![h] = <<NoRecord, NoProject>>]
          /\ UNCHANGED <<reserved, pc, rec>>
      BY <1>3, <2>1 DEF HookApplyOk, workerVars, pageVars
    <2>3. /\ r \in reserved /\ completions[r] = 0
          /\ \A w \in Workers : pc[w] = "applying" => rec[w] # r
          /\ \A g \in Handlers \ {h} : hpc[g] = "applying" => hrec[g][1] # r
      BY <2>1, <2>2 DEF HookLedgerInv, Holds
    <2>4. /\ completions'[r] = 1
          /\ \A s \in Records \ {r} : completions'[s] = completions[s]
      BY <2>2, <2>3, <1>t
    <2>5. LedgerInv'
      BY <1>i, <1>t, <2>2, <2>3, <2>4 DEF LedgerInv
    <2>7. ASSUME NEW g \in Handlers, hpc'[g] = "applying" PROVE Holds(g)'
      <3>1. g # h /\ hpc[g] = "applying" /\ hrec'[g] = hrec[g] /\ hrec[g][1] # r
        BY <2>2, <2>3, <2>7, <1>t
      <3>2. \A f \in Handlers : hpc'[f] = "applying" => hpc[f] = "applying" /\ hrec'[f] = hrec[f]
        BY <2>2, <1>t
      <3>3. hrec[g][1] \in Records
        BY <3>1, <1>t
      <3> QED BY <3>1, <3>2, <3>3, <2>2, <2>4 DEF HookLedgerInv, Holds
    <2> QED BY <2>5, <2>7 DEF HookLedgerInv
  <1>4. ASSUME NEW h \in Handlers, HookApplyFails(h) PROVE HookLedgerInv'
    <2>1. PICK r \in Records : hrec[h][1] = r
      BY <1>4, <1>t DEF HookApplyFails
    <2>2. /\ reserved' = reserved \ {r}
          /\ hpc[h] = "applying" /\ hpc' = [hpc EXCEPT ![h] = "fail"]
          /\ hrec' = [hrec EXCEPT ![h] = <<NoRecord, NoProject>>]
          /\ UNCHANGED <<completions, pc, rec>>
      BY <1>4, <2>1 DEF HookApplyFails, workerVars, pageVars
    <2>3. /\ completions[r] = 0
          /\ \A w \in Workers : pc[w] = "applying" => rec[w] # r
          /\ \A g \in Handlers \ {h} : hpc[g] = "applying" => hrec[g][1] # r
      BY <2>1, <2>2 DEF HookLedgerInv, Holds
    <2>5. LedgerInv'
      BY <1>i, <1>t, <2>2, <2>3 DEF LedgerInv
    <2>7. ASSUME NEW g \in Handlers, hpc'[g] = "applying" PROVE Holds(g)'
      <3>1. g # h /\ hpc[g] = "applying" /\ hrec'[g] = hrec[g] /\ hrec[g][1] # r
        BY <2>2, <2>3, <2>7, <1>t
      <3>2. \A f \in Handlers : hpc'[f] = "applying" => hpc[f] = "applying" /\ hrec'[f] = hrec[f]
        BY <2>2, <1>t
      <3> QED BY <3>1, <3>2, <2>2 DEF HookLedgerInv, Holds
    <2> QED BY <2>5, <2>7 DEF HookLedgerInv
  <1>5. ASSUME EngineStep PROVE HookLedgerInv'
    <2>1. [Next]_vars /\ UNCHANGED <<hpc, hrec>>
      BY <1>5, EngineIsNext DEF hookVars, handlerVars
    <2>2. LedgerInv'
      BY <2>1, <1>t, LedgerStep DEF HookLedgerInv
    <2>3. ASSUME NEW h \in Handlers, hpc'[h] = "applying" PROVE Holds(h)'
      <3> DEFINE r == hrec[h][1]
      <3>1. hpc[h] = "applying" /\ Holds(h) /\ r \in Records
        BY <2>1, <2>3, <1>t DEF HookLedgerInv
      <3>2. /\ r \in reserved' /\ completions'[r] = completions[r]
            /\ \A w \in Workers : pc'[w] = "applying" => rec'[w] # r
        BY <3>1, <2>1, <1>t, ReservationStays DEF HookLedgerInv, Holds
      <3> QED BY <3>1, <3>2, <2>1 DEF Holds
    <2> QED BY <2>2, <2>3 DEF HookLedgerInv
  <1>6. ASSUME UNCHANGED allVars PROVE HookLedgerInv'
    <2>1. HookQuiet
      BY <1>6 DEF allVars, vars, hookVars, handlerVars, HookQuiet, Quiet, ledgerVars,
           pageVars
    <2> QED BY <2>1, <1>1
  <1> QED BY <1>1, <1>2, <1>3, <1>4, <1>5, <1>6, HookCases, HookLedgerMoves

(***************************************************************************)
(* Beside any number of request threads, and whatever fails, a record      *)
(* version that was completed once stays reserved and out of every         *)
(* thread's hands.                                                         *)
(***************************************************************************)
THEOREM CompletedStaysSettled == HookSpec => []CompletedIsSettled
  <1>1. AllTyped /\ HookLedgerInv => CompletedIsSettled
    <2> SUFFICES ASSUME AllTyped, HookLedgerInv, NEW r \in Records, completions[r] > 0
                 PROVE  /\ r \in reserved
                        /\ \A w \in Workers : pc[w] = "applying" => rec[w] # r
                        /\ \A h \in Handlers : hpc[h] = "applying" => hrec[h][1] # r
      BY DEF CompletedIsSettled
    <2>1. completions[r] = 1
      BY DEF HookLedgerInv, LedgerInv
    <2> QED BY <2>1 DEF HookLedgerInv, LedgerInv, Holds
  <1> QED
    BY <1>1, HookLedgerInit, HookLedgerStep, HookTyped, PTL DEF HookSpec

(***************************************************************************)
(* The reservations hold between request threads and workers too: no       *)
(* record version is applied twice, and the workers stay exclusive.        *)
(***************************************************************************)
THEOREM WebhooksApplyOnce == HookSpec => [](AppliedAtMostOnce /\ ExclusiveApply)
  <1>1. HookLedgerInv => AppliedAtMostOnce /\ ExclusiveApply
    BY DEF HookLedgerInv, LedgerInv, AppliedAtMostOnce, ExclusiveApply
  <1> QED
    BY <1>1, HookLedgerInit, HookLedgerStep, HookTyped, PTL DEF HookSpec

-----------------------------------------------------------------------------
(***************************************************************************)
(* Delivery rows.  A handler past its INSERT has the row to itself, and    *)
(* knows whether it is to queue jobs.                                      *)
(***************************************************************************)
PastInsert(h) == hpc[h] \notin {"idle", "insert"}

\* The deliveries with a sync job of their own.
Queued == {d \in Deliveries : \E p \in Targets : status[HookJob[d][p]] # "absent"}

OwnDelivery ==
    /\ \A h \in Handlers : PastInsert(h) => delivery[handling[h]] # "absent"
    /\ \A g, h \in Handlers :
          PastInsert(g) /\ PastInsert(h) /\ g # h => handling[g] # handling[h]

QueueInv ==
    /\ \A h \in Handlers :
          hpc[h] \in {"apply", "applying"} => HookRecords[handling[h]] # {}
    /\ \A h \in Handlers :
          hpc[h] = "finish" /\ HookRecords[handling[h]] = {} /\ handling[h] \in Named =>
              handling[h] \in Queued
    /\ \A d \in Named :
          delivery[d] = "succeeded" /\ HookRecords[d] = {} => d \in Queued

DeliveryInv == OwnDelivery /\ QueueInv

LEMMA DeliveryInit == HookInit => DeliveryInv
  BY WebhookAssumption DEF HookInit, DeliveryInv, OwnDelivery, QueueInv, PastInsert

\* A row of the job table is never deleted.
LEMMA RowsStay ==
    ASSUME TypeOK, [Next]_vars, NEW j \in Jobs, status[j] # "absent"
    PROVE  status'[j] # "absent"
  <1>t. status \in [Jobs -> Statuses]
    BY DEF TypeOK
  <1>1. ASSUME NEW k \in Jobs, Enqueue(k) PROVE status'[j] # "absent"
    BY <1>1, <1>t DEF Enqueue
  <1>2. ASSUME NEW w \in Workers, Reclaim(w) \/ Claim(w) PROVE status'[j] # "absent"
    BY <1>2, <1>t DEF Reclaim, Claim
  <1>3. ASSUME NEW w \in Workers, Commit(w) \/ CommitUnaudited(w) \/ Retry(w)
        PROVE  status'[j] # "absent"
    BY <1>3, <1>t DEF Commit, CommitUnaudited, Retry, SavePage
  <1>4. ASSUME NEW w \in Workers,
               \/ RunOnce(w) \/ SelectDue(w) \/ EndBatch(w) \/ Load(w) \/ Sync(w)
               \/ Skip(w) \/ Reserve(w) \/ ApplyOk(w) \/ PageApplied(w)
        PROVE  status'[j] # "absent"
    BY <1>4 DEF RunOnce, SelectDue, EndBatch, Load, Sync, Skip, Reserve, ApplyOk,
       PageApplied, jobVars
  <1>5. ASSUME NEW w \in Workers, \/ BatchFails(w) \/ PageFails(w) \/ ApplyFails(w)
               \/ ReleaseFails(w) \/ Crash(w)
        PROVE  status'[j] # "absent"
    BY <1>5 DEF BatchFails, PageFails, ApplyFails, ReleaseFails, Crash, jobVars
  <1>6. ASSUME Tick \/ UNCHANGED vars PROVE status'[j] # "absent"
    BY <1>6 DEF Tick, vars, jobVars
  <1> QED BY <1>1, <1>2, <1>3, <1>4, <1>5, <1>6 DEF Next, Step, Fault

LEMMA JobsStay ==
    ASSUME AllTyped, [HookNext]_allVars
    PROVE  Queued \subseteq Queued'
  <1>1. ASSUME [Next]_vars PROVE Queued \subseteq Queued'
    <2> SUFFICES ASSUME NEW d \in Deliveries, d \in Queued PROVE d \in Queued'
      BY DEF Queued
    <2> PICK p \in Targets : status[HookJob[d][p]] # "absent"
      BY DEF Queued
    <2>1. status'[HookJob[d][p]] # "absent"
      BY <1>1, HookJobTyped, RowsStay DEF AllTyped
    <2> QED BY <2>1 DEF Queued
  <1>2. ASSUME UNCHANGED status PROVE Queued \subseteq Queued'
    BY <1>2 DEF Queued
  <1>3. ASSUME NEW h \in Handlers, HookEnqueue(h) PROVE Queued \subseteq Queued'
    <2> PICK p \in unqueued[h] : Enqueue(HookJob[handling[h]][p]) \/ UNCHANGED vars
      BY <1>3 DEF HookEnqueue
    <2>1. HookJob[handling[h]][p] \in Jobs
      BY <1>3, HookJobTyped DEF HookEnqueue, AllTyped, HookTypeOK
    <2> QED BY <2>1, <1>1 DEF Next
  <1>4. ASSUME NEW h \in Handlers, HookStep(h) \/ HookFault(h), ~HookEnqueue(h)
        PROVE  UNCHANGED status
    BY <1>4
    DEF HookStep, HookFault, Receive, Insert, InsertRefused, Fanout, HookSkip, HookReserve,
        HookApplyOk, HookApplied, HookFinish, HookFail, HookApplyFails, HookReleaseFails,
        HookFinishUnaudited, HookRaises, HookCrash, vars, jobVars
  <1>5. ASSUME UNCHANGED allVars PROVE UNCHANGED status
    BY <1>5 DEF allVars, vars, jobVars
  <1> QED BY <1>1, <1>2, <1>3, <1>4, <1>5, EngineIsNext, HookCases

LEMMA DeliveryStep == AllTyped /\ DeliveryInv /\ [HookNext]_allVars => DeliveryInv'
  <1> SUFFICES ASSUME AllTyped, DeliveryInv, [HookNext]_allVars PROVE DeliveryInv'
    OBVIOUS
  <1>t. /\ delivery \in [Deliveries -> {"absent", "processing", "succeeded", "retryable"}]
        /\ hpc \in [Handlers -> {"idle"} \cup HookSteps]
        /\ handling \in [Handlers -> Deliveries \cup {NoDelivery}]
        /\ \A h \in Handlers : hpc[h] # "idle" => handling[h] \in Deliveries
        /\ Queued \subseteq Queued'
    BY JobsStay DEF AllTyped, HookTypeOK
  <1> USE DEF DeliveryInv, OwnDelivery, QueueInv, PastInsert
  <1>1. ASSUME NEW h \in Handlers, Receive(h) PROVE DeliveryInv'
    BY <1>1, <1>t DEF Receive
  <1>2. ASSUME NEW h \in Handlers, Insert(h) PROVE DeliveryInv'
    BY <1>2, <1>t DEF Insert
  <1>3. ASSUME NEW h \in Handlers, InsertRefused(h) \/ HookCrash(h) PROVE DeliveryInv'
    BY <1>3, <1>t DEF InsertRefused, HookCrash, DropDelivery
  <1>4. ASSUME NEW h \in Handlers, Fanout(h) PROVE DeliveryInv'
    BY <1>4, <1>t DEF Fanout
  <1>5. ASSUME NEW h \in Handlers, HookSkip(h) \/ HookReserve(h) \/ HookApplyOk(h) PROVE DeliveryInv'
    BY <1>5, <1>t DEF HookSkip, HookReserve, HookApplyOk
  <1>6. ASSUME NEW h \in Handlers, HookApplied(h) PROVE DeliveryInv'
    BY <1>6, <1>t DEF HookApplied
  <1>7. ASSUME NEW h \in Handlers, HookEnqueue(h) PROVE DeliveryInv'
    <2> PICK p \in unqueued[h] :
            /\ \/ Enqueue(HookJob[handling[h]][p])
               \/ status[HookJob[handling[h]][p]] # "absent" /\ UNCHANGED vars
            /\ hpc' = [hpc EXCEPT ![h] = IF unqueued[h] = {p} THEN "finish" ELSE "queue"]
      BY <1>7 DEF HookEnqueue
    <2>1. hpc[h] = "queue" /\ UNCHANGED <<delivery, handling>>
      BY <1>7 DEF HookEnqueue
    <2>2. handling[h] \in Deliveries /\ p \in Targets
      BY <2>1, <1>t DEF AllTyped, HookTypeOK
    <2>3. status'[HookJob[handling[h]][p]] # "absent"
      BY <2>2, HookJobTyped DEF Enqueue, vars, jobVars, AllTyped, TypeOK
    <2>4. handling[h] \in Queued'
      BY <2>1, <2>2, <2>3 DEF Queued
    <2> QED BY <2>1, <2>2, <2>4, <1>t
  <1>8. ASSUME NEW h \in Handlers, HookFinish(h) \/ HookFail(h) PROVE DeliveryInv'
    <2>1. CASE HookFinish(h)
      BY <2>1, <1>t, WebhookAssumption DEF HookFinish, DropDelivery
    <2>2. CASE HookFail(h)
      BY <2>2, <1>t, WebhookAssumption DEF HookFail, DropDelivery
    <2> QED BY <1>8, <2>1, <2>2
  <1>9. ASSUME NEW h \in Handlers, HookFinishUnaudited(h) PROVE DeliveryInv'
    BY <1>9, <1>t DEF HookFinishUnaudited
  <1>10. ASSUME NEW h \in Handlers, \/ HookApplyFails(h) \/ HookReleaseFails(h) \/ HookRaises(h)
         PROVE DeliveryInv'
    BY <1>10, <1>t DEF HookApplyFails, HookReleaseFails, HookRaises
  <1>11. ASSUME UNCHANGED hookVars PROVE DeliveryInv'
    BY <1>11, <1>t DEF hookVars, handlerVars
  <1> HIDE DEF DeliveryInv, OwnDelivery, QueueInv, PastInsert
  <1>12. ASSUME NEW h \in Handlers, HookStep(h) \/ HookFault(h) PROVE DeliveryInv'
    BY <1>1, <1>2, <1>3, <1>4, <1>5, <1>6, <1>7, <1>8, <1>9, <1>10, <1>12 DEF HookStep, HookFault
  <1> QED BY <1>11, <1>12, HookCases DEF EngineStep, allVars

(***************************************************************************)
(* One handler works on a delivery id, and a record version is applied by  *)
(* one thread at a time, a request's or a worker's.                        *)
(***************************************************************************)
THEOREM HandlersStayExclusive == HookSpec => []HandlersExclusive
  <1>1. HookLedgerInv /\ DeliveryInv => HandlersExclusive
    BY DEF HookLedgerInv, Holds, DeliveryInv, OwnDelivery, PastInsert, HandlersExclusive
  <1> QED
    BY <1>1, HookLedgerInit, HookLedgerStep, DeliveryInit, DeliveryStep, HookTyped, PTL
    DEF HookSpec

(***************************************************************************)
(* A delivery answered as applied that named a resource and carried no     *)
(* records has queued a sync job of its own.                               *)
(***************************************************************************)
THEOREM RecordlessQueues == HookSpec => []RecordlessDeliveryQueues
  <1>1. DeliveryInv => RecordlessDeliveryQueues
    BY WebhookAssumption DEF DeliveryInv, QueueInv, Queued, Targets, RecordlessDeliveryQueues
  <1> QED
    BY <1>1, DeliveryInit, DeliveryStep, HookTyped, PTL DEF HookSpec
-----------------------------------------------------------------------------
(***************************************************************************)
(* One worker, and a record belongs to the resources of one project: the   *)
(* deployment in which a job's cursor promises delivery.  With two workers *)
(* a page is skipped past a record the other is still applying; with two   *)
(* projects the reservation, which does not name the project, is shared.   *)
(***************************************************************************)
\* The resource of a job holds a record.
OnJob(j, r) == \E c \in DOMAIN Pages[j] : r \in Pages[j][c]

OneProjectPerRecord ==
    \A j, k \in Jobs : \A r \in Records :
        OnJob(j, r) /\ OnJob(k, r) => ProjectOf[j] = ProjectOf[k]

InMemory(j, r) == ProjectOf[j] # NoProject => <<ProjectOf[j], r>> \in memory

Delivered(j, r) == r \in reserved /\ (r \notin orphaned => InMemory(j, r))

PassedBy(j, r) == \E c \in 1..(cursor[j] - 1) : r \in PageAt(j, c)

OnPage(w) == PageAt(job[w], snapCursor[w])

(***************************************************************************)
(* The worker's page is the next one of its job; a record of the page is   *)
(* still to do, being applied, or delivered; and no cursor has passed the  *)
(* record being applied, so releasing its reservation harms nobody.        *)
(***************************************************************************)
PageInv ==
    \A w \in Workers :
        /\ pc[w] \in {"sync", "apply", "applying", "commit"} => snapCursor[w] = cursor[job[w]]
        /\ pc[w] \in {"apply", "applying"} => todo[w] \subseteq OnPage(w)
        /\ pc[w] = "applying" =>
            /\ rec[w] \in OnPage(w) /\ rec[w] \in reserved
            /\ \A j \in Jobs : ~PassedBy(j, rec[w])
        /\ pc[w] \in {"apply", "applying"} =>
            \A r \in OnPage(w) :
                r \in todo[w] \/ (pc[w] = "applying" /\ r = rec[w]) \/ Delivered(job[w], r)
        /\ pc[w] = "commit" => \A r \in OnPage(w) : Delivered(job[w], r)

PassedInv == \A j \in Jobs : \A r \in Records : PassedBy(j, r) => Delivered(j, r)

\* A reserved record was left behind, is being applied or was applied.
KeptInv ==
    \A r \in reserved :
        \/ r \in orphaned
        \/ \E w \in Workers : pc[w] = "applying" /\ rec[w] = r
        \/ \A j \in Jobs : OnJob(j, r) => InMemory(j, r)

WorkInv == PageInv /\ PassedInv /\ KeptInv

LEMMA WorkInit == Init => WorkInv
  BY DEF Init, WorkInv, PageInv, PassedInv, KeptInv, PassedBy

\* A record of a page is a record of the resource.
LEMMA OnPageOnJob ==
    ASSUME NEW j \in Jobs, NEW c \in Nat, NEW r \in PageAt(j, c)
    PROVE  OnJob(j, r) /\ r \in Records
  BY PageAtType DEF PageAt, OnJob

\* Nothing delivered is lost while reservations and memory only grow.
LEMMA DeliveredStays ==
    ASSUME reserved \subseteq reserved', memory \subseteq memory', orphaned \subseteq orphaned',
           NEW j, NEW r, Delivered(j, r)
    PROVE  Delivered(j, r)'
  BY DEF Delivered, InMemory

(***************************************************************************)
(* Steps that leave the ledger and the cursors alone, and take no worker   *)
(* into or out of a page's application.                                    *)
(***************************************************************************)
LEMMA WorkFrame ==
    ASSUME TypeOK, WorkInv, UNCHANGED <<ledgerVars, cursor>>,
           \A w \in Workers : pc[w] = "applying" => pc'[w] = "applying" /\ rec'[w] = rec[w],
           \A w \in Workers :
               \/ pc'[w] \notin {"sync", "apply", "applying", "commit"}
               \/ UNCHANGED <<pc[w], job[w], snapCursor[w], todo[w], rec[w]>>
    PROVE  WorkInv'
  <1> USE DEF ledgerVars
  <1>1. \A j \in Jobs, r \in Records :
            (Delivered(j, r)' <=> Delivered(j, r)) /\ (PassedBy(j, r)' <=> PassedBy(j, r))
    BY DEF Delivered, InMemory, PassedBy
  <1>2. PassedInv'
    BY <1>1 DEF WorkInv, PassedInv
  <1>3. KeptInv'
    BY DEF WorkInv, KeptInv, InMemory
  <1>4. PageInv'
    <2> SUFFICES ASSUME NEW w \in Workers, pc'[w] \in {"sync", "apply", "applying", "commit"}
                 PROVE  /\ snapCursor'[w] = cursor'[job'[w]]
                        /\ pc'[w] \in {"apply", "applying"} => todo'[w] \subseteq OnPage(w)'
                        /\ pc'[w] = "applying" =>
                            /\ rec'[w] \in OnPage(w)' /\ rec'[w] \in reserved'
                            /\ \A j \in Jobs : ~PassedBy(j, rec[w])'
                        /\ pc'[w] \in {"apply", "applying"} =>
                            \A r \in OnPage(w)' :
                                \/ r \in todo'[w] \/ (pc'[w] = "applying" /\ r = rec'[w])
                                \/ Delivered(job[w], r)'
                        /\ pc'[w] = "commit" => \A r \in OnPage(w)' : Delivered(job[w], r)'
      BY DEF PageInv
    <2>1. UNCHANGED <<pc[w], job[w], snapCursor[w], todo[w], rec[w]>>
      OBVIOUS
    <2>2. OnPage(w)' = OnPage(w)
      BY <2>1 DEF OnPage
    <2>3. \A r : (Delivered(job[w], r)' <=> Delivered(job[w], r))
      BY <2>1 DEF Delivered, InMemory
    <2>4. \A j \in Jobs : PassedBy(j, rec[w])' <=> PassedBy(j, rec[w])
      BY <2>1 DEF PassedBy
    <2> QED BY <2>1, <2>2, <2>3, <2>4 DEF WorkInv, PageInv
  <1> QED BY <1>2, <1>3, <1>4 DEF WorkInv

\* The reservation: the record it takes is one no cursor has passed.
LEMMA WorkReserve ==
    ASSUME TypeOK, WorkInv, LoneWorker, NEW w \in Workers, Reserve(w)
    PROVE  WorkInv'
  <1> PICK r \in todo[w] \ reserved :
          /\ reserved' = reserved \cup {r}
          /\ rec' = [rec EXCEPT ![w] = r]
          /\ todo' = [todo EXCEPT ![w] = @ \ {r}]
    BY DEF Reserve
  <1>1. /\ pc[w] = "apply" /\ pc' = [pc EXCEPT ![w] = "applying"]
        /\ UNCHANGED <<cursor, memory, orphaned, job, snapCursor>>
    BY DEF Reserve, jobVars, pageVars
  <1>t. /\ pc \in [Workers -> BatchSteps \cup PageSteps]
        /\ rec \in [Workers -> Records \cup {NoRecord}]
        /\ todo \in [Workers -> SUBSET Records]
        /\ snapCursor[w] \in Nat /\ job[w] \in Jobs
    BY <1>1 DEF TypeOK, PageSteps
  <1>2. pc'[w] = "applying" /\ rec'[w] = r /\ todo'[w] = todo[w] \ {r} /\ r \in Records
    BY <1>1, <1>t
  <1>3. \A v \in Workers : v = w
    BY DEF LoneWorker
  <1>4. \A j \in Jobs : ~PassedBy(j, r)
    BY <1>2 DEF WorkInv, PassedInv, Delivered
  <1>5. \A j, q : Delivered(j, q) => Delivered(j, q)'
    BY <1>1, DeliveredStays
  <1>6. \A j \in Jobs : \A q : PassedBy(j, q)' <=> PassedBy(j, q)
    BY <1>1 DEF PassedBy
  <1>7. PassedInv'
    BY <1>5, <1>6 DEF WorkInv, PassedInv
  <1>8. KeptInv'
    BY <1>1, <1>2, <1>3 DEF WorkInv, KeptInv, InMemory
  <1>9. PageInv'
    <2>1. OnPage(w)' = OnPage(w)
      BY <1>1 DEF OnPage
    <2>2. /\ snapCursor[w] = cursor[job[w]] /\ todo[w] \subseteq OnPage(w)
          /\ \A q \in OnPage(w) : q \in todo[w] \/ Delivered(job[w], q)
      BY <1>1 DEF WorkInv, PageInv
    <2>3. \A j \in Jobs : ~PassedBy(j, rec[w])'
      BY <1>2, <1>4, <1>1 DEF PassedBy
    <2>4. \A q \in OnPage(w) : q \in todo'[w] \/ q = rec'[w] \/ Delivered(job[w], q)'
      <3> SUFFICES ASSUME NEW q \in OnPage(w), q # r, q \notin todo[w]
                   PROVE  Delivered(job[w], q)'
        BY <1>2
      <3>1. q \in reserved /\ (q \notin orphaned => InMemory(job[w], q))
        BY <2>2 DEF Delivered
      <3> QED BY <3>1, <1>1 DEF Delivered, InMemory
    <2> QED BY <1>1, <1>2, <1>3, <2>1, <2>2, <2>3, <2>4 DEF PageInv
  <1> QED BY <1>7, <1>8, <1>9 DEF WorkInv

\* apply_record returned: the record is in the memory of its one project.
LEMMA WorkApplyOk ==
    ASSUME TypeOK, WorkInv, LoneWorker, OneProjectPerRecord, NEW w \in Workers, ApplyOk(w)
    PROVE  WorkInv'
  <1>1. /\ pc[w] = "applying" /\ pc' = [pc EXCEPT ![w] = "apply"]
        /\ memory' = IF ProjectOf[job[w]] = NoProject THEN memory
                     ELSE memory \cup {<<ProjectOf[job[w]], rec[w]>>}
        /\ UNCHANGED <<cursor, reserved, orphaned, job, snapCursor, todo>>
    BY DEF ApplyOk, Remembered, jobVars
  <1>t. /\ pc \in [Workers -> BatchSteps \cup PageSteps]
        /\ snapCursor[w] \in Nat /\ job[w] \in Jobs /\ rec[w] \in Records
    BY <1>1 DEF TypeOK, PageSteps
  <1>2. pc'[w] = "apply"
    BY <1>1, <1>t
  <1>3. \A v \in Workers : v = w
    BY DEF LoneWorker
  <1>4. \A j, q : Delivered(j, q) => Delivered(j, q)'
    BY <1>1, DeliveredStays
  <1>5. PassedInv'
    BY <1>1, <1>4 DEF WorkInv, PassedInv, PassedBy
  <1>6. rec[w] \in OnPage(w) /\ rec[w] \in reserved
    BY <1>1 DEF WorkInv, PageInv
  <1>7. \A r : r = rec[w] => \A j \in Jobs : OnJob(j, r) => InMemory(j, r)'
    <2>1. OnJob(job[w], rec[w])
      BY <1>6, <1>t, OnPageOnJob DEF OnPage
    <2> SUFFICES ASSUME NEW r, r = rec[w], NEW j \in Jobs, OnJob(j, r), ProjectOf[j] # NoProject
                 PROVE  <<ProjectOf[j], r>> \in memory'
      BY DEF InMemory
    <2>2. ProjectOf[j] = ProjectOf[job[w]]
      BY <2>1, <1>t DEF OneProjectPerRecord
    <2> QED BY <2>2, <1>1
  <1>8. KeptInv'
    <2> SUFFICES ASSUME NEW r \in reserved', r \notin orphaned'
                 PROVE  \A j \in Jobs : OnJob(j, r) => InMemory(j, r)'
      BY DEF KeptInv
    <2>1. CASE r = rec[w]
      BY <2>1, <1>7
    <2>2. CASE r # rec[w]
      <3>1. \A j \in Jobs : OnJob(j, r) => InMemory(j, r)
        BY <2>2, <1>1, <1>3 DEF WorkInv, KeptInv
      <3> QED BY <3>1, <1>1 DEF InMemory
    <2> QED BY <2>1, <2>2
  <1>9. PageInv'
    <2>1. OnPage(w)' = OnPage(w)
      BY <1>1 DEF OnPage
    <2>2. /\ snapCursor[w] = cursor[job[w]] /\ todo[w] \subseteq OnPage(w)
          /\ \A q \in OnPage(w) : q \in todo[w] \/ q = rec[w] \/ Delivered(job[w], q)
      BY <1>1 DEF WorkInv, PageInv
    <2>3. OnJob(job[w], rec[w])
      BY <1>6, <1>t, OnPageOnJob DEF OnPage
    <2>4. \A q \in OnPage(w) : q \in todo[w] \/ Delivered(job[w], q)'
      <3> SUFFICES ASSUME NEW q \in OnPage(w), q \notin todo[w]
                   PROVE  Delivered(job[w], q)'
        OBVIOUS
      <3>1. CASE q = rec[w]
        <4>1. <<ProjectOf[job[w]], rec[w]>> \in memory' \/ ProjectOf[job[w]] = NoProject
          BY <1>1
        <4> QED BY <4>1, <3>1, <1>6, <1>1 DEF Delivered, InMemory
      <3>2. CASE q # rec[w]
        <4>1. q \in reserved /\ (q \notin orphaned => InMemory(job[w], q))
          BY <2>2, <3>2 DEF Delivered
        <4>2. memory \subseteq memory'
          BY <1>1
        <4> QED BY <4>1, <4>2, <1>1 DEF Delivered, InMemory
      <3> QED BY <3>1, <3>2
    <2> QED BY <1>1, <1>2, <1>3, <2>1, <2>2, <2>4 DEF PageInv
  <1> QED BY <1>5, <1>8, <1>9 DEF WorkInv

\* apply_record raised: the released record is one no cursor has passed.
LEMMA WorkApplyFails ==
    ASSUME TypeOK, WorkInv, LoneWorker, NEW w \in Workers, ApplyFails(w)
    PROVE  WorkInv'
  <1>1. /\ pc[w] = "applying" /\ pc' = [pc EXCEPT ![w] = "retry"]
        /\ reserved' = reserved \ {rec[w]} /\ memory \subseteq memory'
        /\ UNCHANGED <<cursor, orphaned>>
    BY DEF ApplyFails, Remembered, jobVars
  <1>2. pc'[w] = "retry"
    BY <1>1 DEF TypeOK
  <1>3. \A v \in Workers : v = w
    BY DEF LoneWorker
  <1>4. \A j \in Jobs : ~PassedBy(j, rec[w])
    BY <1>1 DEF WorkInv, PageInv
  <1>5. PassedInv'
    <2> SUFFICES ASSUME NEW j \in Jobs, NEW r \in Records, PassedBy(j, r)'
                 PROVE  Delivered(j, r)'
      BY DEF PassedInv
    <2>1. PassedBy(j, r)
      BY <1>1 DEF PassedBy
    <2>2. r # rec[w] /\ Delivered(j, r)
      BY <2>1, <1>4 DEF WorkInv, PassedInv
    <2> QED BY <2>2, <1>1 DEF Delivered, InMemory
  <1>6. KeptInv'
    <2> SUFFICES ASSUME NEW r \in reserved', r \notin orphaned'
                 PROVE  \A j \in Jobs : OnJob(j, r) => InMemory(j, r)'
      BY DEF KeptInv
    <2>1. r # rec[w] /\ r \in reserved
      BY <1>1
    <2> QED BY <2>1, <1>1, <1>3 DEF WorkInv, KeptInv, InMemory
  <1>7. PageInv'
    BY <1>2, <1>3 DEF PageInv
  <1> QED BY <1>5, <1>6, <1>7 DEF WorkInv

\* The application ends with its record reserved and left behind.
LEMMA WorkOrphans ==
    ASSUME TypeOK, WorkInv, LoneWorker, NEW w \in Workers,
           pc'[w] \in {"idle", "retry"}, memory \subseteq memory', orphaned \subseteq orphaned',
           pc[w] = "applying" => rec[w] \in orphaned', UNCHANGED <<reserved, cursor>>
    PROVE  WorkInv'
  <1>1. \A v \in Workers : v = w
    BY DEF LoneWorker
  <1>2. \A j, q : Delivered(j, q) => Delivered(j, q)'
    BY DeliveredStays
  <1>3. PassedInv'
    BY <1>2 DEF WorkInv, PassedInv, PassedBy
  <1>4. KeptInv'
    <2> SUFFICES ASSUME NEW r \in reserved', r \notin orphaned'
                 PROVE  \A j \in Jobs : OnJob(j, r) => InMemory(j, r)'
      BY DEF KeptInv
    <2>1. \A j \in Jobs : OnJob(j, r) => InMemory(j, r)
      BY <1>1 DEF WorkInv, KeptInv
    <2> QED BY <2>1 DEF InMemory
  <1>5. PageInv'
    BY <1>1 DEF PageInv
  <1> QED BY <1>3, <1>4, <1>5 DEF WorkInv

\* A record skipped was applied before: nobody else is at work.
LEMMA WorkSkip ==
    ASSUME TypeOK, WorkInv, LoneWorker, NEW w \in Workers, Skip(w)
    PROVE  WorkInv'
  <1> PICK r \in todo[w] \cap reserved : todo' = [todo EXCEPT ![w] = @ \ {r}]
    BY DEF Skip
  <1>1. pc[w] = "apply" /\ UNCHANGED <<pc, cursor, reserved, memory, orphaned, job, snapCursor, rec>>
    BY DEF Skip, jobVars, ledgerVars
  <1>2. todo'[w] = todo[w] \ {r} /\ job[w] \in Jobs /\ snapCursor[w] \in Nat
    BY <1>1 DEF TypeOK, PageSteps
  <1>3. \A v \in Workers : v = w
    BY DEF LoneWorker
  <1>4. /\ snapCursor[w] = cursor[job[w]] /\ todo[w] \subseteq OnPage(w)
        /\ \A q \in OnPage(w) : q \in todo[w] \/ Delivered(job[w], q)
    BY <1>1 DEF WorkInv, PageInv
  <1>5. OnJob(job[w], r)
    BY <1>2, <1>4, OnPageOnJob DEF OnPage
  <1>6. Delivered(job[w], r)
    BY <1>1, <1>2, <1>3, <1>5 DEF WorkInv, KeptInv, Delivered
  <1>7. \A q \in OnPage(w) : q \in todo'[w] \/ Delivered(job[w], q)
    BY <1>2, <1>4, <1>6
  <1>8. PassedInv' /\ KeptInv'
    BY <1>1 DEF WorkInv, PassedInv, KeptInv, PassedBy, Delivered, InMemory
  <1>9. OnPage(w)' = OnPage(w) /\ \A q : Delivered(job[w], q)' <=> Delivered(job[w], q)
    BY <1>1 DEF OnPage, Delivered, InMemory
  <1>10. PageInv'
    BY <1>1, <1>2, <1>3, <1>4, <1>7, <1>9 DEF PageInv
  <1> QED BY <1>8, <1>10 DEF WorkInv

\* The page's last write: all of it is delivered, and it is the next page.
LEMMA WorkSave ==
    ASSUME TypeOK, WorkInv, LoneWorker, NEW w \in Workers, pc[w] = "commit", SavePage(w),
           pc'[w] \in {"claim", "retry"}, UNCHANGED ledgerVars
    PROVE  WorkInv'
  <1>1. \A v \in Workers : v = w
    BY DEF LoneWorker
  <1>2. job[w] \in Jobs /\ snapCursor[w] \in Nat /\ cursor \in [Jobs -> Nat]
    BY DEF TypeOK, PageSteps
  <1>3. snapCursor[w] = cursor[job[w]] /\ \A r \in OnPage(w) : Delivered(job[w], r)
    BY DEF WorkInv, PageInv
  <1>4. cursor'[job[w]] - 1 <= snapCursor[w] /\ \A j \in Jobs \ {job[w]} : cursor'[j] = cursor[j]
    BY <1>2 DEF SavePage
  <1>5. \A j, r : Delivered(j, r)' <=> Delivered(j, r)
    BY DEF Delivered, InMemory, ledgerVars
  <1>6. PassedInv'
    <2> SUFFICES ASSUME NEW j \in Jobs, NEW r \in Records, PassedBy(j, r)'
                 PROVE  Delivered(j, r)
      BY <1>5 DEF PassedInv
    <2>1. PICK c \in 1..(cursor'[j] - 1) : r \in PageAt(j, c)
      BY DEF PassedBy
    <2>2. CASE j = job[w] /\ c = snapCursor[w]
      BY <2>1, <2>2, <1>3 DEF OnPage
    <2>3. CASE ~(j = job[w] /\ c = snapCursor[w])
      <3>0. cursor'[j] \in Int
        BY <1>2 DEF SavePage
      <3>1. c \in 1..(cursor[j] - 1)
        BY <2>1, <2>3, <3>0, <1>2, <1>3, <1>4
      <3> QED BY <3>1, <2>1 DEF WorkInv, PassedInv, PassedBy
    <2> QED BY <2>2, <2>3
  <1>7. KeptInv'
    BY <1>1 DEF WorkInv, KeptInv, InMemory, ledgerVars
  <1>8. PageInv'
    BY <1>1 DEF PageInv
  <1> QED BY <1>6, <1>7, <1>8 DEF WorkInv

LEMMA WorkStep ==
    LoneWorker /\ OneProjectPerRecord /\ TypeOK /\ WorkInv /\ [Next]_vars => WorkInv'
  <1> SUFFICES ASSUME LoneWorker, OneProjectPerRecord, TypeOK, WorkInv, [Next]_vars PROVE WorkInv'
    OBVIOUS
  <1>t. /\ pc \in [Workers -> BatchSteps \cup PageSteps]
        /\ job \in [Workers -> Jobs \cup {NoJob}]
        /\ snapCursor \in [Workers -> Nat]
        /\ todo \in [Workers -> SUBSET Records]
        /\ rec \in [Workers -> Records \cup {NoRecord}]
    BY DEF TypeOK
  <1>a. ASSUME NEW w \in Workers PROVE pc[w] \in PageSteps => job[w] \in Jobs
    BY DEF TypeOK
  <1>l. \A v, w \in Workers : v = w
    BY DEF LoneWorker
  <1> USE DEF jobVars, ledgerVars, batchVars, pageVars
  <1>1. ASSUME NEW j \in Jobs, Enqueue(j) PROVE WorkInv'
    BY <1>1, WorkFrame DEF Enqueue
  <1>2. ASSUME NEW w \in Workers, RunOnce(w) \/ Reclaim(w) \/ SelectDue(w) \/ EndBatch(w) PROVE WorkInv'
    BY <1>2, <1>t, WorkFrame DEF RunOnce, Reclaim, SelectDue, EndBatch
  <1>3. ASSUME NEW w \in Workers, Claim(w) PROVE WorkInv'
    <2>1. /\ pc[w] = "claim" /\ UNCHANGED <<ledgerVars, cursor, snapCursor, todo, rec>>
          /\ pc' = [pc EXCEPT ![w] = "load"] \/ UNCHANGED <<pc, job>>
      BY <1>3 DEF Claim
    <2>2. pc'[w] \in {"load", "claim"}
      BY <2>1, <1>t
    <2> QED BY <2>1, <2>2, <1>l, WorkFrame
  <1>4. ASSUME NEW w \in Workers, Load(w) PROVE WorkInv'
    <2>1. /\ pc[w] = "load" /\ UNCHANGED <<ledgerVars, cursor, job, todo, rec>>
          /\ snapCursor' = [snapCursor EXCEPT ![w] = cursor[job[w]]]
          /\ pc' = [pc EXCEPT ![w] = "sync"] \/ pc' = [pc EXCEPT ![w] = "retry"]
      BY <1>4 DEF Load
    <2>2. pc'[w] \in {"sync", "retry"} /\ snapCursor'[w] = cursor'[job'[w]]
      BY <2>1, <1>t
    <2>3. PageInv'
      BY <2>2, <1>l DEF PageInv
    <2>4. PassedInv' /\ KeptInv'
      BY <2>1, <1>l DEF WorkInv, PassedInv, KeptInv, PassedBy, Delivered, InMemory
    <2> QED BY <2>3, <2>4 DEF WorkInv
  <1>5. ASSUME NEW w \in Workers, Sync(w) PROVE WorkInv'
    <2>1. /\ pc[w] = "sync" /\ UNCHANGED <<ledgerVars, cursor, job, snapCursor, rec>>
          /\ todo' = [todo EXCEPT ![w] = OnPage(w)]
          /\ pc' = [pc EXCEPT ![w] = "apply"]
      BY <1>5 DEF Sync, OnPage
    <2>2. pc'[w] = "apply" /\ todo'[w] = OnPage(w)' /\ snapCursor[w] = cursor[job[w]]
      BY <2>1, <1>t DEF WorkInv, PageInv, OnPage
    <2>3. PageInv'
      BY <2>1, <2>2, <1>l DEF PageInv
    <2>4. PassedInv' /\ KeptInv'
      BY <2>1, <1>l DEF WorkInv, PassedInv, KeptInv, PassedBy, Delivered, InMemory
    <2> QED BY <2>3, <2>4 DEF WorkInv
  <1>6. ASSUME NEW w \in Workers, Skip(w) PROVE WorkInv'
    BY <1>6, WorkSkip
  <1>7. ASSUME NEW w \in Workers, Reserve(w) PROVE WorkInv'
    BY <1>7, WorkReserve
  <1>8. ASSUME NEW w \in Workers, ApplyOk(w) PROVE WorkInv'
    BY <1>8, WorkApplyOk
  <1>9. ASSUME NEW w \in Workers, ApplyFails(w) PROVE WorkInv'
    BY <1>9, WorkApplyFails
  <1>10. ASSUME NEW w \in Workers, PageApplied(w) PROVE WorkInv'
    <2>1. /\ pc[w] = "apply" /\ todo[w] = {}
          /\ pc' = [pc EXCEPT ![w] = "commit"]
          /\ UNCHANGED <<ledgerVars, cursor, job, snapCursor, todo, rec>>
      BY <1>10 DEF PageApplied
    <2>2. /\ pc'[w] = "commit" /\ snapCursor[w] = cursor[job[w]]
          /\ \A r \in OnPage(w) : Delivered(job[w], r)
      BY <2>1, <1>t DEF WorkInv, PageInv
    <2>3. OnPage(w)' = OnPage(w) /\ \A r : Delivered(job[w], r)' <=> Delivered(job[w], r)
      BY <2>1 DEF OnPage, Delivered, InMemory
    <2>4. PageInv'
      BY <2>1, <2>2, <2>3, <1>l DEF PageInv
    <2>5. PassedInv' /\ KeptInv'
      BY <2>1, <1>l DEF WorkInv, PassedInv, KeptInv, PassedBy, Delivered, InMemory
    <2> QED BY <2>4, <2>5 DEF WorkInv
  <1>11. ASSUME NEW w \in Workers, Commit(w) PROVE WorkInv'
    <2>1. pc'[w] \in {"claim", "retry"}
      BY <1>11, <1>t DEF Commit
    <2> QED BY <1>11, <2>1, WorkSave DEF Commit
  <1>12. ASSUME NEW w \in Workers, CommitUnaudited(w) PROVE WorkInv'
    <2>1. pc'[w] \in {"claim", "retry"}
      BY <1>12, <1>t DEF CommitUnaudited
    <2> QED BY <1>12, <2>1, WorkSave DEF CommitUnaudited
  <1>13. ASSUME NEW w \in Workers, PageFails(w) \/ Retry(w) \/ BatchFails(w) PROVE WorkInv'
    <2>1. /\ pc[w] # "applying" /\ pc'[w] \in {"retry", "claim", "idle"}
          /\ UNCHANGED <<ledgerVars, cursor>>
      BY <1>13, <1>t DEF PageFails, Retry, BatchFails, DropBatch
    <2> QED BY <2>1, <1>l, WorkFrame
  <1>14. ASSUME NEW w \in Workers, ReleaseFails(w) \/ Crash(w) PROVE WorkInv'
    <2>1. /\ pc'[w] \in {"idle", "retry"} /\ UNCHANGED <<reserved, cursor>>
          /\ memory \subseteq memory' /\ orphaned \subseteq orphaned'
          /\ pc[w] = "applying" => rec[w] \in orphaned'
      BY <1>14, <1>t DEF ReleaseFails, Crash, DropBatch, Remembered
    <2> QED BY <2>1, WorkOrphans
  <1>15. ASSUME Tick \/ UNCHANGED vars PROVE WorkInv'
    BY <1>15, WorkFrame DEF Tick, vars
  <1> QED
    BY <1>1, <1>2, <1>3, <1>4, <1>5, <1>6, <1>7, <1>8, <1>9, <1>10, <1>11, <1>12,
       <1>13, <1>14, <1>15 DEF Next, Step, Fault

LEMMA PassedIsDelivered == TypeOK /\ WorkInv => CursorBehindWork
  <1> SUFFICES ASSUME TypeOK, WorkInv,
                      NEW j \in Jobs, NEW c \in 1..(cursor[j] - 1), NEW r \in PageAt(j, c)
               PROVE  /\ r \in reserved
                      /\ r \notin orphaned /\ ProjectOf[j] # NoProject => <<ProjectOf[j], r>> \in memory
    BY DEF CursorBehindWork
  <1>1. c \in Nat
    OBVIOUS
  <1>2. r \in Records
    BY <1>1, OnPageOnJob
  <1>3. PassedBy(j, r)
    BY DEF PassedBy
  <1> QED BY <1>2, <1>3 DEF WorkInv, PassedInv, Delivered, InMemory

(***************************************************************************)
(* One worker never moves a cursor past a record it has not delivered,     *)
(* however its provider, its applications, its audit events or its own     *)
(* process fail, and whatever its lease.                                   *)
(***************************************************************************)
THEOREM CursorFollowsDelivery ==
    ASSUME LoneWorker, OneProjectPerRecord
    PROVE  Spec => []CursorBehindWork
  <1>1. TypeOK /\ WorkInv /\ [Next]_vars => WorkInv'
    BY WorkStep
  <1> QED
    BY <1>1, WorkInit, PassedIsDelivered, TypeCorrect, PTL DEF Spec
=============================================================================
