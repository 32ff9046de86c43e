----------------------------- MODULE Decisions -----------------------------
(***************************************************************************)
(* The approval inbox: proposed runbook commands (approvals/service.py),   *)
(* requests to refresh a repository and proposed memories (api/routes.py). *)
(*                                                                         *)
(* Every handler reads the row, requires a pending status, acts, and then  *)
(* updates the row by its id, in connections of their own, so two people   *)
(* may decide one item at once.  An approved refresh runs after the        *)
(* response, as a background task of the thread that approved it.          *)
(***************************************************************************)
EXTENDS Naturals, FiniteSets

CONSTANTS
  Actions,    \* proposed commands
  Refreshes,  \* refresh requests, each for one person, project and reason
  Proposals,  \* proposed memories, each one text
  Deciders,   \* threads that serve the people who decide
  MaxFaults,  \* bound: errors of the database, the audit or a provider
  MaxCrashes  \* bound: ends of the process

Items == Actions \union Refreshes \union Proposals
None == "none"

ASSUME DecisionAssumption ==
  /\ Actions \intersect Refreshes = {} /\ Proposals \intersect (Actions \union Refreshes) = {}
  /\ None \notin Items /\ MaxFaults \in Nat /\ MaxCrashes \in Nat

VARIABLES
  status,    \* of the row; "absent" before it is proposed
  memories,  \* the proposals whose text is company memory
  ingested,  \* the refreshes whose repository was read again
  synced,    \* the refreshes that have their connector job
  pc, item, approves,  \* per decider: place, item and choice
  faults, crashes,
  verdict,   \* history: the decision written last
  verdicts,  \* history: how often a decision was written
  unheard    \* history: refreshes whose thread ended on an error nobody handles

effects == <<memories, ingested, synced>>
history == <<verdict, verdicts, unheard>>
vars == <<status, effects, pc, item, approves, faults, crashes, history>>

Pending == "pending"  \* 'pending' of a command, 'pending_approval' of the others
Settled == {"allowed", "approved", "denied", "succeeded", "failed"}

Init ==
  /\ status = [i \in Items |-> "absent"]
  /\ memories = {} /\ ingested = {} /\ synced = {}
  /\ pc = [d \in Deciders |-> "free"] /\ item = [d \in Deciders |-> None]
  /\ approves = [d \in Deciders |-> FALSE]
  /\ faults = 0 /\ crashes = 0
  /\ verdict = [i \in Items |-> None] /\ verdicts = [i \in Items |-> 0] /\ unheard = {}

Go(d, place) == pc' = [pc EXCEPT ![d] = place] /\ UNCHANGED <<item, approves>>
Leave(d) ==
  /\ pc' = [pc EXCEPT ![d] = "free"] /\ item' = [item EXCEPT ![d] = None]
  /\ approves' = [approves EXCEPT ![d] = FALSE]
At(d, place) == pc[d] = place
SetStatus(i, s) == status' = [status EXCEPT ![i] = s]
Faultless == UNCHANGED <<faults, crashes>>
Fault == faults < MaxFaults /\ faults' = faults + 1 /\ UNCHANGED crashes

(***************************************************************************)
(* Proposing.  Only the first of equal requests inserts a row: the lookup, *)
(* or after a race the UNIQUE key, answers the others.                     *)
(***************************************************************************)
Insert(i, s) ==
  /\ status[i] = "absent" /\ SetStatus(i, s)
  /\ UNCHANGED <<effects, pc, item, approves, history>> /\ Faultless

(* The gate allows, denies or asks for approval. *)
ProposeCommand(i) == i \in Actions /\ \E s \in {Pending, "allowed", "denied"} : Insert(i, s)

ProposeRefresh(i) == i \in Refreshes /\ Insert(i, Pending)

(* A text that was denied is not answered by the lookup, and refused. *)
ProposeMemory(i) == i \in Proposals /\ Insert(i, Pending)

(***************************************************************************)
(* Resolving                                                               *)
(***************************************************************************)
ReadAlways(d, i) ==  \* Mutant: denying a memory writes it as well
  /\ At(d, "free") /\ status[i] = Pending
  /\ \E yes \in BOOLEAN :
       /\ approves' = [approves EXCEPT ![d] = yes] /\ item' = [item EXCEPT ![d] = i]
       /\ pc' = [pc EXCEPT ![d] = IF i \in Proposals THEN "remember" ELSE "write"]
  /\ UNCHANGED <<status, effects, history>> /\ Faultless

ReadSettled(d, i) ==  \* Mutant: what was decided can be decided again
  /\ At(d, "free") /\ status[i] \in {Pending, "approved", "denied"}
  /\ \E yes \in BOOLEAN :
       /\ approves' = [approves EXCEPT ![d] = yes] /\ item' = [item EXCEPT ![d] = i]
       /\ pc' = [pc EXCEPT ![d] = IF yes /\ i \in Proposals THEN "remember" ELSE "write"]
  /\ UNCHANGED <<status, effects, history>> /\ Faultless

Read(d, i) ==
  /\ At(d, "free") /\ status[i] = Pending
  /\ \E yes \in BOOLEAN :
       /\ approves' = [approves EXCEPT ![d] = yes] /\ item' = [item EXCEPT ![d] = i]
       /\ pc' = [pc EXCEPT ![d] = IF yes /\ i \in Proposals THEN "remember" ELSE "write"]
  /\ UNCHANGED <<status, effects, history>> /\ Faultless

(* CompanyMemory.create. *)
Remember(d) ==
  /\ At(d, "remember") /\ memories' = memories \union {item[d]} /\ Go(d, "write")
  /\ UNCHANGED <<status, ingested, synced, history>> /\ Faultless

Decision(d) == IF ~approves[d] THEN "denied"
               ELSE IF item[d] \in Refreshes THEN "queued" ELSE "approved"

(* The UPDATE names the row by its id only. *)
Write(d) ==
  /\ At(d, "write") /\ SetStatus(item[d], Decision(d))
  /\ verdict' = [verdict EXCEPT ![item[d]] = Decision(d)]
  /\ verdicts' = [verdicts EXCEPT ![item[d]] = @ + 1]
  /\ Go(d, "audit")
  /\ UNCHANGED <<effects, unheard>> /\ Faultless

(* An error before the UPDATE leaves the item pending. *)
ResolveRaises(d) ==
  /\ (At(d, "remember") \/ At(d, "write")) /\ Leave(d) /\ Fault
  /\ UNCHANGED <<status, effects, history>>

(* The background task is added after the audit. *)
Audit(d) ==
  /\ At(d, "audit")
  /\ IF approves[d] /\ item[d] \in Refreshes THEN Go(d, "task") ELSE Leave(d)
  /\ UNCHANGED <<status, effects, history>> /\ Faultless

AuditRaises(d) ==
  /\ At(d, "audit") /\ Leave(d) /\ Fault
  /\ unheard' = unheard \union ({item[d]} \intersect Refreshes)
  /\ UNCHANGED <<status, effects, verdict, verdicts>>

(***************************************************************************)
(* _run_repository_refresh                                                 *)
(***************************************************************************)
ReadQueued(d) ==
  /\ At(d, "task")
  /\ IF status[item[d]] = "queued" THEN Go(d, "claim") ELSE Leave(d)
  /\ UNCHANGED <<status, effects, history>> /\ Faultless

ClaimAnyway(d) ==  \* Mutant: the claim trusts the read before it
  /\ At(d, "claim") /\ SetStatus(item[d], "running") /\ Go(d, "ingest")
  /\ UNCHANGED <<effects, history>> /\ Faultless

(* The claim is an UPDATE of a row that is still queued. *)
Claim(d) ==
  /\ At(d, "claim")
  /\ IF status[item[d]] = "queued"
     THEN SetStatus(item[d], "running") /\ Go(d, "ingest")
     ELSE UNCHANGED status /\ Leave(d)
  /\ UNCHANGED <<effects, history>> /\ Faultless

Ingest(d) ==
  /\ At(d, "ingest") /\ ingested' = ingested \union {item[d]} /\ Go(d, "enqueue")
  /\ UNCHANGED <<status, memories, synced, history>> /\ Faultless

(* Idempotent by the key of the request. *)
Enqueue(d) ==
  /\ At(d, "enqueue") /\ synced' = synced \union {item[d]} /\ Go(d, "succeed")
  /\ UNCHANGED <<status, memories, ingested, history>> /\ Faultless

Succeed(d) ==
  /\ At(d, "succeed") /\ SetStatus(item[d], "succeeded") /\ Go(d, "tell")
  /\ UNCHANGED <<effects, history>> /\ Faultless

Tell(d) ==
  /\ At(d, "tell") /\ Leave(d) /\ UNCHANGED <<status, effects, history>> /\ Faultless

InTry(d) == pc[d] \in {"ingest", "enqueue", "succeed", "tell"}

(* The audit of a success is inside the try: its error fails the refresh. *)
RefreshRaises(d) ==
  /\ InTry(d) /\ Go(d, "fail") /\ Fault /\ UNCHANGED <<status, effects, history>>

FailSilently(d) ==  \* Mutant: the handler does not write the row
  /\ At(d, "fail") /\ UNCHANGED status /\ Leave(d)
  /\ UNCHANGED <<effects, history>> /\ Faultless

Fail(d) ==
  /\ At(d, "fail") /\ SetStatus(item[d], "failed") /\ Leave(d)
  /\ UNCHANGED <<effects, history>> /\ Faultless

(* Nothing catches an error of the claim or of the handler itself. *)
RefreshDies(d) ==
  /\ pc[d] \in {"task", "claim", "fail"} /\ Leave(d) /\ Fault
  /\ unheard' = unheard \union {item[d]}
  /\ UNCHANGED <<status, effects, verdict, verdicts>>

Crash ==
  /\ crashes < MaxCrashes /\ crashes' = crashes + 1
  /\ pc' = [d \in Deciders |-> "free"] /\ item' = [d \in Deciders |-> None]
  /\ approves' = [d \in Deciders |-> FALSE]
  /\ UNCHANGED <<status, effects, faults, history>>

Resolve(d) == Remember(d) \/ Write(d) \/ Audit(d)
Refresh(d) == ReadQueued(d) \/ Claim(d) \/ Ingest(d) \/ Enqueue(d) \/ Succeed(d) \/ Tell(d) \/ Fail(d)
Fails(d) == ResolveRaises(d) \/ AuditRaises(d) \/ RefreshRaises(d) \/ RefreshDies(d)

Next ==
  \/ \E i \in Items : ProposeCommand(i) \/ ProposeRefresh(i) \/ ProposeMemory(i)
  \/ \E d \in Deciders : (\E i \in Items : Read(d, i)) \/ Resolve(d) \/ Refresh(d) \/ Fails(d)
  \/ Crash

Spec == Init /\ [][Next]_vars

(* A request's thread, once started, runs on; people decide if they like. *)
FairSpec == Spec /\ \A d \in Deciders : WF_vars(Resolve(d) \/ Refresh(d))

(***************************************************************************)
(* Properties                                                              *)
(***************************************************************************)
Held(i) == \E d \in Deciders : item[d] = i

TypeOK ==
  /\ status \in [Items -> Settled \union {"absent", Pending, "queued", "running"}]
  /\ memories \subseteq Proposals /\ ingested \subseteq Refreshes /\ synced \subseteq ingested
  /\ \A d \in Deciders : pc[d] = "free" <=> item[d] = None

(* A repository is read again only while the decision written last is an   *)
(* approval: a denial that slips in before the background task claims the  *)
(* request stops it, wherever the task then is.                            *)
DenialStops ==
  [][\A i \in Refreshes : status[i] # "running" /\ status'[i] = "running" => verdict[i] = "queued"]_vars

(* An item whose status is final and that no thread holds keeps it and is  *)
(* not picked up again: only somebody who read it while it was pending may *)
(* still change it.                                                        *)
SettledRests ==
  [][\A i \in Items : status[i] \in Settled /\ ~Held(i) => status'[i] = status[i] /\ ~Held(i)']_vars

(* What one person decided, with no error or crash in the way, is what was *)
(* done once the thread is through: a memory is written, and a repository  *)
(* read and scheduled, if and only if it was approved.                     *)
DecisionTakesEffect ==
  \A i \in Items : verdicts[i] <= 1 /\ faults = 0 /\ crashes = 0 /\ ~Held(i) =>
    /\ i \in Proposals => (status[i] = "approved" <=> i \in memories)
    /\ i \in Refreshes => (status[i] = "succeeded" <=> i \in synced)
    /\ i \in Refreshes => (verdict[i] = "queued" <=> i \in ingested)

(* A refresh that was queued is answered, unless its thread ended with the *)
(* process or on an error outside its try block.                           *)
RefreshSettles ==
  \A i \in Refreshes : status[i] = "queued" ~> status[i] \in Settled \/ i \in unheard \/ crashes > 0
=============================================================================
