--------------------------- MODULE WebhookDelivery ---------------------------
(***************************************************************************)
(* Webhook deliveries beside the sync workers: SyncEngine.receive_webhook  *)
(* (backend/app/connectors/sync.py).  Request threads insert a delivery    *)
(* row, apply the records it carries through the same reservations as the  *)
(* workers, or queue one sync job per subscribed project when it carries   *)
(* none.  A replay of a recorded delivery is answered from its row and     *)
(* changes nothing, so it is no action here.                               *)
(***************************************************************************)
EXTENDS SyncEngine

CONSTANTS
    Handlers,      \* request threads inside receive_webhook
    Deliveries,    \* delivery ids of connector_webhook_deliveries
    NoDelivery,
    HookRecords,   \* delivery -> records the event carries
    Named,         \* deliveries whose event names a resource (resource_id # '')
    HookJob,       \* delivery -> project -> the job key webhook:<delivery>:<project>
    Subscribing    \* jobs on the deliveries' resource that users enqueue

ASSUME WebhookAssumption ==
    /\ NoDelivery \notin Deliveries
    /\ HookRecords \in [Deliveries -> SUBSET Records]
    /\ Named \subseteq Deliveries
    /\ HookJob \in [Deliveries -> [Projects \cup {NoProject} -> Jobs]]
    /\ Subscribing \subseteq Jobs
    /\ \A d \in Deliveries, p \in Projects \cup {NoProject} :
        ProjectOf[HookJob[d][p]] = p /\ HookJob[d][p] \notin Subscribing

VARIABLES
    delivery,       \* connector_webhook_deliveries.status
    hpc, handling,  \* where a handler stands, and with which delivery
    pairs, hrec,    \* (record, project) pairs left, the pair being applied
    unqueued        \* projects whose sync job is not enqueued yet

handlerVars == <<hpc, handling, pairs, hrec, unqueued>>
hookVars == <<delivery, handlerVars>>
workerVars == <<pc, batchVars, pageVars>>
allVars == <<vars, hookVars>>

HookSteps == {"insert", "fanout", "apply", "applying", "queue", "finish", "fail"}

HookInit ==
    /\ Init
    /\ delivery = [d \in Deliveries |-> "absent"]
    /\ hpc = [h \in Handlers |-> "idle"]
    /\ handling = [h \in Handlers |-> NoDelivery]
    /\ pairs = [h \in Handlers |-> {}]
    /\ hrec = [h \in Handlers |-> <<NoRecord, NoProject>>]
    /\ unqueued = [h \in Handlers |-> {}]

\* DISTINCT project_id of the jobs on the delivery's resource, '' when there
\* is none.  Webhook jobs name the same resource, so they count as
\* subscriptions too; no job is on the resource ''.
Subscribers(d) ==
    LET S == {ProjectOf[j] : j \in {k \in Jobs : status[k] # "absent"}} \ {NoProject}
    IN IF d \in Named /\ S # {} THEN S ELSE {NoProject}

\* The delivery id is not recorded yet.
Receive(h) ==
    /\ hpc[h] = "idle"
    /\ \E d \in Deliveries :
        /\ delivery[d] = "absent"
        /\ handling' = [handling EXCEPT ![h] = d]
    /\ hpc' = [hpc EXCEPT ![h] = "insert"]
    /\ UNCHANGED <<vars, delivery, pairs, hrec, unqueued>>

DropDelivery(h) ==
    /\ hpc' = [hpc EXCEPT ![h] = "idle"]
    /\ handling' = [handling EXCEPT ![h] = NoDelivery]
    /\ pairs' = [pairs EXCEPT ![h] = {}]
    /\ hrec' = [hrec EXCEPT ![h] = <<NoRecord, NoProject>>]
    /\ unqueued' = [unqueued EXCEPT ![h] = {}]

\* Mutant: INSERT OR REPLACE, both racing handlers go on.
InsertAnyway(h) ==
    /\ hpc[h] = "insert"
    /\ delivery' = [delivery EXCEPT ![handling[h]] = "processing"]
    /\ hpc' = [hpc EXCEPT ![h] = "fanout"]
    /\ UNCHANGED <<vars, handling, pairs, hrec, unqueued>>

\* The INSERT: of two racing handlers the second hits the UNIQUE constraint.
Insert(h) ==
    /\ hpc[h] = "insert"
    /\ delivery[handling[h]] = "absent"
    /\ delivery' = [delivery EXCEPT ![handling[h]] = "processing"]
    /\ hpc' = [hpc EXCEPT ![h] = "fanout"]
    /\ UNCHANGED <<vars, handling, pairs, hrec, unqueued>>

InsertRefused(h) ==
    /\ hpc[h] = "insert"
    /\ delivery[handling[h]] # "absent"
    /\ DropDelivery(h)
    /\ UNCHANGED <<vars, delivery>>

\* Mutant: nothing is queued for a resource without a project.
FanoutSubscribed(h) ==
    /\ hpc[h] = "fanout"
    /\ LET R == HookRecords[handling[h]]
           P == Subscribers(handling[h]) \ {NoProject}
       IN /\ pairs' = [pairs EXCEPT ![h] = R \X Subscribers(handling[h])]
          /\ unqueued' = [unqueued EXCEPT ![h] = IF R = {} THEN P ELSE {}]
          /\ hpc' = [hpc EXCEPT ![h] =
                IF R # {} THEN "apply" ELSE IF P # {} THEN "queue" ELSE "finish"]
    /\ UNCHANGED <<vars, delivery, handling, hrec>>

\* Records go to every subscriber.  Without records the subscribers' jobs are
\* queued, if the event names a resource; if not, there is nothing to do.
Fanout(h) ==
    /\ hpc[h] = "fanout"
    /\ LET d == handling[h]
           R == HookRecords[d]
       IN \/ /\ R # {}
             /\ pairs' = [pairs EXCEPT ![h] = R \X Subscribers(d)]
             /\ hpc' = [hpc EXCEPT ![h] = "apply"]
             /\ UNCHANGED unqueued
          \/ /\ R = {} /\ d \in Named
             /\ unqueued' = [unqueued EXCEPT ![h] = Subscribers(d)]
             /\ hpc' = [hpc EXCEPT ![h] = "queue"]
             /\ UNCHANGED pairs
          \/ /\ R = {} /\ d \notin Named
             /\ hpc' = [hpc EXCEPT ![h] = "finish"]
             /\ UNCHANGED <<pairs, unqueued>>
    /\ UNCHANGED <<vars, delivery, handling, hrec>>

\* _apply_once for one (record, project): the reservation ignores the project.
HookSkip(h) ==
    /\ hpc[h] = "apply"
    /\ \E x \in pairs[h] :
        /\ x[1] \in reserved
        /\ pairs' = [pairs EXCEPT ![h] = @ \ {x}]
    /\ UNCHANGED <<vars, delivery, hpc, handling, hrec, unqueued>>

\* Mutant: a request thread does not ask for the reservation.
HookReserveAgain(h) ==
    /\ hpc[h] = "apply"
    /\ \E x \in pairs[h] :
        /\ reserved' = reserved \cup {x[1]}
        /\ hrec' = [hrec EXCEPT ![h] = x]
        /\ pairs' = [pairs EXCEPT ![h] = @ \ {x}]
    /\ hpc' = [hpc EXCEPT ![h] = "applying"]
    /\ UNCHANGED <<jobVars, memory, completions, orphaned, workerVars, crashes,
                   delivery, handling, unqueued>>

HookReserve(h) ==
    /\ hpc[h] = "apply"
    /\ \E x \in pairs[h] :
        /\ x[1] \notin reserved
        /\ reserved' = reserved \cup {x[1]}
        /\ hrec' = [hrec EXCEPT ![h] = x]
        /\ pairs' = [pairs EXCEPT ![h] = @ \ {x}]
    /\ hpc' = [hpc EXCEPT ![h] = "applying"]
    /\ UNCHANGED <<jobVars, memory, completions, orphaned, workerVars, crashes,
                   delivery, handling, unqueued>>

\* Mutant: the reservation ends with the delivery that took it.
HookApplyAndRelease(h) ==
    /\ hpc[h] = "applying"
    /\ completions' = [completions EXCEPT ![hrec[h][1]] = @ + 1]
    /\ memory' = Remembered(hrec[h][2], hrec[h][1])
    /\ reserved' = reserved \ {hrec[h][1]}
    /\ hrec' = [hrec EXCEPT ![h] = <<NoRecord, NoProject>>]
    /\ hpc' = [hpc EXCEPT ![h] = "apply"]
    /\ UNCHANGED <<jobVars, orphaned, workerVars, crashes, delivery, handling, pairs, unqueued>>

HookApplyOk(h) ==
    /\ hpc[h] = "applying"
    /\ completions' = [completions EXCEPT ![hrec[h][1]] = @ + 1]
    /\ memory' = Remembered(hrec[h][2], hrec[h][1])
    /\ hrec' = [hrec EXCEPT ![h] = <<NoRecord, NoProject>>]
    /\ hpc' = [hpc EXCEPT ![h] = "apply"]
    /\ UNCHANGED <<jobVars, reserved, orphaned, workerVars, crashes,
                   delivery, handling, pairs, unqueued>>

\* apply_record raises, with the record's rows in memory or not; the
\* reservation is released and the delivery fails.
HookApplyFails(h) ==
    /\ "apply" \in Faults
    /\ hpc[h] = "applying"
    /\ memory' \in {memory, Remembered(hrec[h][2], hrec[h][1])}
    /\ reserved' = reserved \ {hrec[h][1]}
    /\ hrec' = [hrec EXCEPT ![h] = <<NoRecord, NoProject>>]
    /\ pairs' = [pairs EXCEPT ![h] = {}]
    /\ hpc' = [hpc EXCEPT ![h] = "fail"]
    /\ UNCHANGED <<jobVars, completions, orphaned, workerVars, crashes,
                   delivery, handling, unqueued>>

\* The releasing DELETE raises as well: the reservation stays.
HookReleaseFails(h) ==
    /\ "release" \in Faults
    /\ hpc[h] = "applying"
    /\ memory' \in {memory, Remembered(hrec[h][2], hrec[h][1])}
    /\ orphaned' = orphaned \cup {hrec[h][1]}
    /\ hrec' = [hrec EXCEPT ![h] = <<NoRecord, NoProject>>]
    /\ pairs' = [pairs EXCEPT ![h] = {}]
    /\ hpc' = [hpc EXCEPT ![h] = "fail"]
    /\ UNCHANGED <<jobVars, reserved, completions, workerVars, crashes,
                   delivery, handling, unqueued>>

HookApplied(h) ==
    /\ hpc[h] = "apply"
    /\ pairs[h] = {}
    /\ hpc' = [hpc EXCEPT ![h] = "finish"]
    /\ UNCHANGED <<vars, delivery, handling, pairs, hrec, unqueued>>

\* enqueue under the delivery's own key: an existing row is left as it is.
HookEnqueue(h) ==
    /\ hpc[h] = "queue"
    /\ \E p \in unqueued[h] :
        LET j == HookJob[handling[h]][p]
        IN /\ Enqueue(j) \/ (status[j] # "absent" /\ UNCHANGED vars)
           /\ unqueued' = [unqueued EXCEPT ![h] = @ \ {p}]
           /\ hpc' = [hpc EXCEPT ![h] =
                        IF unqueued[h] = {p} THEN "finish" ELSE "queue"]
    /\ UNCHANGED <<delivery, handling, pairs, hrec>>

HookFinish(h) ==
    /\ hpc[h] = "finish"
    /\ delivery' = [delivery EXCEPT ![handling[h]] = "succeeded"]
    /\ DropDelivery(h)
    /\ UNCHANGED vars

\* The audit insert after it raises inside the try block.
HookFinishUnaudited(h) ==
    /\ "audit" \in Faults
    /\ hpc[h] = "finish"
    /\ delivery' = [delivery EXCEPT ![handling[h]] = "succeeded"]
    /\ hpc' = [hpc EXCEPT ![h] = "fail"]
    /\ UNCHANGED <<vars, handling, pairs, hrec, unqueued>>

\* A database or registry error while applying, queueing or finishing.
HookRaises(h) ==
    /\ "provider" \in Faults
    /\ hpc[h] \in {"fanout", "apply", "queue", "finish"}
    /\ hpc' = [hpc EXCEPT ![h] = "fail"]
    /\ pairs' = [pairs EXCEPT ![h] = {}]
    /\ unqueued' = [unqueued EXCEPT ![h] = {}]
    /\ UNCHANGED <<vars, delivery, handling, hrec>>

HookFail(h) ==
    /\ hpc[h] = "fail"
    /\ delivery' = [delivery EXCEPT ![handling[h]] = "retryable"]
    /\ DropDelivery(h)
    /\ UNCHANGED vars

\* The process serving the request dies; its row stays 'processing'.
HookCrash(h) ==
    /\ "crash" \in Faults
    /\ crashes < MaxCrashes
    /\ hpc[h] # "idle"
    /\ crashes' = crashes + 1
    /\ IF hpc[h] = "applying"
       THEN /\ memory' \in {memory, Remembered(hrec[h][2], hrec[h][1])}
            /\ orphaned' = orphaned \cup {hrec[h][1]}
       ELSE UNCHANGED <<memory, orphaned>>
    /\ DropDelivery(h)
    /\ UNCHANGED <<jobVars, reserved, completions, workerVars, delivery>>

HookStep(h) ==
    \/ Receive(h) \/ Insert(h) \/ InsertRefused(h) \/ Fanout(h)
    \/ HookSkip(h) \/ HookReserve(h) \/ HookApplyOk(h) \/ HookApplied(h)
    \/ HookEnqueue(h) \/ HookFinish(h) \/ HookFail(h)

HookFault(h) ==
    \/ HookApplyFails(h) \/ HookReleaseFails(h) \/ HookFinishUnaudited(h)
    \/ HookRaises(h) \/ HookCrash(h)

HookNext ==
    \/ \E h \in Handlers : HookStep(h) \/ HookFault(h)
    \/ /\ \/ \E j \in Subscribing : Enqueue(j)
          \/ \E w \in Workers : Step(w) \/ Fault(w)
          \/ Tick
       /\ UNCHANGED hookVars

HookSpec == HookInit /\ [][HookNext]_allVars

-----------------------------------------------------------------------------
(***************************************************************************)
(* A delivery id is worked on by one handler: the row's UNIQUE insert, not *)
(* the lookup before it, decides between simultaneous redeliveries.  And a *)
(* record version is applied by one thread at a time, a request's or a     *)
(* sync worker's, which holds its reservation.                             *)
(***************************************************************************)
HandlersExclusive ==
    \A h \in Handlers :
        /\ \A g \in Handlers \ {h} :
               hpc[g] \notin {"idle", "insert"} /\ hpc[h] \notin {"idle", "insert"} =>
                   handling[g] # handling[h]
        /\ hpc[h] = "applying" =>
               /\ hrec[h][1] \in reserved
               /\ \A w \in Workers : pc[w] = "applying" => rec[w] # hrec[h][1]
               /\ \A g \in Handlers \ {h} : hpc[g] = "applying" => hrec[g][1] # hrec[h][1]

(***************************************************************************)
(* A record version that some apply_record completed is settled for good:  *)
(* its reservation stands and no thread, a request's or a worker's, is     *)
(* inside apply_record with it.  What a failed call left in memory is not  *)
(* settled: its reservation may be gone and the record applied again.      *)
(***************************************************************************)
CompletedIsSettled ==
    \A r \in Records : completions[r] > 0 =>
        /\ r \in reserved
        /\ \A w \in Workers : pc[w] = "applying" => rec[w] # r
        /\ \A h \in Handlers : hpc[h] = "applying" => hrec[h][1] # r

(***************************************************************************)
(* A delivery that names a resource and carries no records has queued a    *)
(* sync job of its own when it is answered as applied, even when the rows  *)
(* it found were webhook jobs or there was none.                           *)
(***************************************************************************)
RecordlessDeliveryQueues ==
    \A d \in Named :
        delivery[d] = "succeeded" /\ HookRecords[d] = {} =>
            \E p \in Projects \cup {NoProject} : status[HookJob[d][p]] # "absent"
=============================================================================
