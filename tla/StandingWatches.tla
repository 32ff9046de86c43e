--------------------------- MODULE StandingWatches ---------------------------
(***************************************************************************)
(* Standing watches (backend/app/orgops/watch.py) over tasks and plans: a  *)
(* background worker and request threads run the checks, file what is new  *)
(* as a finding under its fingerprint, and draft a plan for a conflict.    *)
(* Two runs of one watch may overlap; the UNIQUE fingerprint decides which *)
(* of them found something new.  When a watch is due is left open, and a   *)
(* finding's status, which no code reads, is left out.                     *)
(***************************************************************************)
EXTENDS ActionPlans, FiniteSets

CONSTANTS
    Watches,
    Runners,   \* the watch worker, and request threads of POST /watches/{id}/run
    NoWatch, NoFinding

VARIABLES
    findings,            \* watch -> fingerprints of org_watch_findings
    planOf,              \* <<watch, fingerprint, plan>>: the plan a finding names
    drafts,              \* <<watch, fingerprint, plan>>: the plans drafted for it
    rpc, watch, found, filing, draft

findingVars == <<findings, planOf, drafts>>
runnerVars  == <<rpc, watch, found, filing, draft>>
allVars == <<vars, findingVars, runnerVars>>

\* The parts the code hashes: a blocker's status, a conflict's memory.
Fingerprints ==
    [kind : {"blocker"}, task : Tasks, of : TASK_STATUSES]
    \cup [kind : {"conflict"}, task : Tasks, of : Units]

BlockerFindings == {[kind |-> "blocker", task |-> t, of |-> status[t]] : t \in Blockers}

\* One conflict for each task that has any.
ConflictFindings ==
    LET T == {t \in Tasks : Conflicts(t) # {}}
    IN {{[kind |-> "conflict", task |-> t, of |-> f[t]] : t \in T} :
            f \in {g \in [T -> Units] : \A t \in T : g[t] \in Conflicts(t)}}

WatchInit ==
    /\ Init
    /\ findings = [w \in Watches |-> {}]
    /\ planOf = {}
    /\ drafts = {}
    /\ rpc = [r \in Runners |-> "idle"]
    /\ watch = [r \in Runners |-> NoWatch]
    /\ found = [r \in Runners |-> {}]
    /\ filing = [r \in Runners |-> NoFinding]
    /\ draft = [r \in Runners |-> NoPlan]

-----------------------------------------------------------------------------
\* run reads the watch's row, then find_blockers the tasks.
CheckBlockers(r) ==
    /\ rpc[r] = "idle"
    /\ \E w \in Watches : watch' = [watch EXCEPT ![r] = w]
    /\ found' = [found EXCEPT ![r] = BlockerFindings]
    /\ rpc' = [rpc EXCEPT ![r] = "conflicts"]
    /\ UNCHANGED <<vars, findingVars, filing, draft>>

\* Mutant: conflicts are looked for only when nothing blocks.
CheckConflictsElse(r) ==
    /\ rpc[r] = "conflicts"
    /\ \E C \in ConflictFindings :
        found' = [found EXCEPT ![r] = IF @ = {} THEN C ELSE @]
    /\ rpc' = [rpc EXCEPT ![r] = "record"]
    /\ UNCHANGED <<vars, findingVars, watch, filing, draft>>

CheckConflicts(r) ==
    /\ rpc[r] = "conflicts"
    /\ \E C \in ConflictFindings : found' = [found EXCEPT ![r] = @ \cup C]
    /\ rpc' = [rpc EXCEPT ![r] = "record"]
    /\ UNCHANGED <<vars, findingVars, watch, filing, draft>>

\* A check raises: the run goes on with what it has found so far.
CheckRaises(r) ==
    /\ "read" \in Faults
    /\ errors < MaxErrors
    /\ \/ /\ rpc[r] = "idle"
          /\ \E w \in Watches : watch' = [watch EXCEPT ![r] = w]
       \/ /\ rpc[r] = "conflicts"
          /\ UNCHANGED watch
    /\ rpc' = [rpc EXCEPT ![r] = "record"]
    /\ errors' = errors + 1
    /\ UNCHANGED <<taskVars, memoryVars, planVars, deciderVars, findingVars,
                   found, filing, draft>>

\* Mutant: the run drafts a fix for everything it finds.
RecordAlways(r) ==
    /\ rpc[r] = "record"
    /\ \E f \in found[r] :
        /\ found' = [found EXCEPT ![r] = @ \ {f}]
        /\ findings' = [findings EXCEPT ![watch[r]] = @ \cup {f}]
        /\ IF f.kind = "conflict"
           THEN /\ filing' = [filing EXCEPT ![r] = f]
                /\ rpc' = [rpc EXCEPT ![r] = "draft"]
           ELSE UNCHANGED <<filing, rpc>>
    /\ UNCHANGED <<vars, planOf, drafts, watch, draft>>

\* INSERT OR IGNORE: only a new finding goes on to draft its fix.
Record(r) ==
    /\ rpc[r] = "record"
    /\ \E f \in found[r] :
        /\ found' = [found EXCEPT ![r] = @ \ {f}]
        /\ findings' = [findings EXCEPT ![watch[r]] = @ \cup {f}]
        /\ IF f \notin findings[watch[r]] /\ f.kind = "conflict"
           THEN /\ filing' = [filing EXCEPT ![r] = f]
                /\ rpc' = [rpc EXCEPT ![r] = "draft"]
           ELSE UNCHANGED <<filing, rpc>>
    /\ UNCHANGED <<vars, planOf, drafts, watch, draft>>

DraftPlan(r) ==
    /\ rpc[r] = "draft"
    /\ \E p \in Plans \ AgentPlans :
        /\ Propose(p, <<Resolution(filing[r].task, filing[r].of)>>)
        /\ draft' = [draft EXCEPT ![r] = p]
        /\ drafts' = drafts \cup {<<watch[r], filing[r], p>>}
    /\ rpc' = [rpc EXCEPT ![r] = "link"]
    /\ UNCHANGED <<findings, planOf, watch, found, filing>>

\* propose_plan raises: it is logged, the finding stays without a plan.
DraftFails(r) ==
    /\ "draft" \in Faults
    /\ errors < MaxErrors
    /\ rpc[r] = "draft"
    /\ errors' = errors + 1
    /\ rpc' = [rpc EXCEPT ![r] = "record"]
    /\ filing' = [filing EXCEPT ![r] = NoFinding]
    /\ UNCHANGED <<taskVars, memoryVars, planVars, deciderVars, findingVars,
                   watch, found, draft>>

\* Mutant: the finding never learns of its plan.
LinkForgotten(r) ==
    /\ rpc[r] = "link"
    /\ rpc' = [rpc EXCEPT ![r] = "record"]
    /\ filing' = [filing EXCEPT ![r] = NoFinding]
    /\ draft' = [draft EXCEPT ![r] = NoPlan]
    /\ UNCHANGED <<vars, findingVars, watch, found>>

LinkPlan(r) ==
    /\ rpc[r] = "link"
    /\ planOf' = planOf \cup {<<watch[r], filing[r], draft[r]>>}
    /\ rpc' = [rpc EXCEPT ![r] = "record"]
    /\ filing' = [filing EXCEPT ![r] = NoFinding]
    /\ draft' = [draft EXCEPT ![r] = NoPlan]
    /\ UNCHANGED <<vars, findings, drafts, watch, found>>

LeaveRun(r) ==
    /\ rpc' = [rpc EXCEPT ![r] = "idle"]
    /\ watch' = [watch EXCEPT ![r] = NoWatch]
    /\ found' = [found EXCEPT ![r] = {}]
    /\ filing' = [filing EXCEPT ![r] = NoFinding]
    /\ draft' = [draft EXCEPT ![r] = NoPlan]

EndRun(r) ==
    /\ rpc[r] = "record"
    /\ found[r] = {}
    /\ LeaveRun(r)
    /\ UNCHANGED <<vars, findingVars>>

\* The process dies, or a database error ends the run.
RunCrash(r) ==
    /\ "crash" \in Faults
    /\ errors < MaxErrors
    /\ rpc[r] # "idle"
    /\ errors' = errors + 1
    /\ LeaveRun(r)
    /\ UNCHANGED <<taskVars, memoryVars, planVars, deciderVars, findingVars>>

RunWatch(r) ==
    \/ CheckBlockers(r) \/ CheckConflicts(r) \/ Record(r)
    \/ DraftPlan(r) \/ LinkPlan(r) \/ EndRun(r)

RunFails(r) == CheckRaises(r) \/ DraftFails(r) \/ RunCrash(r)

WatchNext ==
    \/ Plan /\ UNCHANGED <<findingVars, runnerVars>>
    \/ \E r \in Runners : RunWatch(r) \/ RunFails(r)

WatchSpec == WatchInit /\ [][WatchNext]_allVars

\* The watch worker loops for ever; people and agents need not act.
FairWatchSpec == WatchSpec /\ \A r \in Runners : WF_allVars(RunWatch(r))

-----------------------------------------------------------------------------
(***************************************************************************)
(* A watch drafts at most one plan for a finding, however its scheduled    *)
(* and its requested runs overlap: the approval queue is not filled with   *)
(* the same fix.                                                           *)
(***************************************************************************)
OnePlanPerFinding ==
    \A x, y \in drafts : x[1] = y[1] /\ x[2] = y[2] => x[3] = y[3]

(***************************************************************************)
(* Until an error strikes, a conflict that is on file offers the plan that *)
(* reconciles it, unless a run is just drafting it: the run that lost the  *)
(* race for the finding may leave the drafting to the one that won it.     *)
(***************************************************************************)
ConflictOffersFix ==
    errors = 0 =>
        \A w \in Watches : \A f \in findings[w] :
            f.kind = "conflict" =>
                \/ \E r \in Runners : watch[r] = w /\ filing[r] = f
                \/ \E x \in planOf : /\ x[1] = w /\ x[2] = f
                                     /\ operations[x[3]] = <<Resolution(f.task, f.of)>>

(***************************************************************************)
(* A conflict that lasts is found, even when the run that met it first     *)
(* failed or died.                                                         *)
(***************************************************************************)
FiledConflict(w, t) == \E f \in findings[w] : f.kind = "conflict" /\ f.task = t

ConflictIsNoticed ==
    \A w \in Watches, t \in Tasks :
        Conflicts(t) # {} ~> FiledConflict(w, t) \/ Conflicts(t) = {}
=============================================================================
