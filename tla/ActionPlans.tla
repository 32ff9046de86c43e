----------------------------- MODULE ActionPlans -----------------------------
(***************************************************************************)
(* Gated organizational changes (backend/app/orgops/service.py): agents    *)
(* propose plans, an owner or admin approves or rejects them, and only an  *)
(* approval changes tasks.  approve_plan checks one read of the plan, then *)
(* applies its operations one by one, each in connections of its own, and  *)
(* writes the plan's row last and by id: people who decide at once, and    *)
(* errors between two operations, meet in between.                         *)
(*                                                                         *)
(* The module also holds the reads of the same service: which tasks hold   *)
(* others up (find_blockers) and which tasks company memory has overtaken  *)
(* (find_conflicts).  Timestamps appear as order: older relates the memory *)
(* rows by updated_at, news says which were written after a task was.      *)
(***************************************************************************)
EXTENDS Naturals, Sequences

CONSTANTS
    Tasks,        \* ids of org_tasks, those created later included
    Units,        \* ids of memory_units, those recorded later included
    Plans,        \* ids of org_action_plans
    Owners,
    Deciders,     \* request threads of POST /plans/{id}/approve and reject
    NoPlan, NoTask,
    Blank,        \* the empty string: no owner, a field an operation leaves alone
    Kind,         \* task -> "task", "gate", "step" or "goal"
    DependsOn,    \* task that exists from the start -> the tasks it waits for
    Cites,        \* task that exists from the start -> its source memories
    Known,        \* the memories that exist from the start, oldest first
    Subject,      \* unit -> what it is about
    Content,      \* unit -> what it says
    Settles,      \* the contents that read as settled
    UpdatesOf,    \* <<new, old>> contents related by UPDATES, not CONTRADICTS
    AgentPlans,   \* the plan ids that agents use, watches take the others
    Proposals,    \* the operation sequences agents propose
    Faults,       \* which faults the environment may inject
    MaxErrors     \* bound on the faults of one behaviour

FaultKinds == {"crash", "apply", "read", "draft"}
OPEN_TASK_STATUSES == {"open", "in_progress", "blocked"}
TASK_STATUSES == OPEN_TASK_STATUSES \cup {"done", "cancelled"}
Seeded == DOMAIN DependsOn
KnownSet == {Known[i] : i \in DOMAIN Known}

Operations ==
    [op : {"update_task"}, task : Tasks, status : TASK_STATUSES \cup {Blank},
     owner : Owners \cup {Blank}, sources : SUBSET Units]
    \cup [op : {"create_task"}, depends : SUBSET Tasks, sources : SUBSET Units]
    \cup [op : {"add_memory"}, unit : Units]

ASSUME PlanAssumption ==
    /\ NoPlan \notin Plans
    /\ NoTask \notin Tasks
    /\ Blank \notin Owners \cup TASK_STATUSES
    /\ Seeded \subseteq Tasks
    /\ DependsOn \in [Seeded -> SUBSET Seeded]
    /\ Cites \in [Seeded -> SUBSET Units]
    /\ Kind \in [Tasks -> {"task", "gate", "step", "goal"}]
    /\ \A W \in SUBSET Seeded \ {{}} : \E t \in W : DependsOn[t] \cap W = {}
    /\ Known \in Seq(Units)
    /\ AgentPlans \subseteq Plans
    /\ Proposals \subseteq Seq(Operations)
    /\ Faults \subseteq FaultKinds
    /\ MaxErrors \in Nat

VARIABLES
    status, owner, evidence, dependsOn,  \* org_tasks
    known, latest, older, news, edges,   \* memory_units, memory_relationships
    plan, operations, applied,           \* org_action_plans, and what was applied
    pc, held, at, seen,                  \* approve_plan / reject_plan, per decider
    errors

taskVars   == <<status, owner, evidence, dependsOn>>
memoryVars == <<known, latest, older, news, edges>>
planVars   == <<plan, operations, applied>>
deciderVars == <<pc, held, at, seen>>
vars == <<taskVars, memoryVars, planVars, deciderVars, errors>>

Exists(t) == status[t] # "absent"

NoRow == [task |-> NoTask]

-----------------------------------------------------------------------------
\* A workspace whose tasks were opened after the memories they cite.
Init ==
    /\ status = [t \in Tasks |-> IF t \in Seeded THEN "open" ELSE "absent"]
    /\ owner = [t \in Tasks |-> Blank]
    /\ evidence = [t \in Tasks |-> IF t \in Seeded THEN Cites[t] ELSE {}]
    /\ dependsOn = [t \in Tasks |-> IF t \in Seeded THEN DependsOn[t] ELSE {}]
    /\ known = KnownSet
    /\ latest = KnownSet
    /\ older = {x \in KnownSet \X KnownSet :
                    \E i, j \in DOMAIN Known : i < j /\ Known[i] = x[1] /\ Known[j] = x[2]}
    /\ news = {}
    /\ edges = {}
    /\ plan = [p \in Plans |-> "absent"]
    /\ operations = [p \in Plans |-> <<>>]
    /\ applied = [p \in Plans |-> <<>>]
    /\ pc = [d \in Deciders |-> "idle"]
    /\ held = [d \in Deciders |-> NoPlan]
    /\ at = [d \in Deciders |-> 1]
    /\ seen = [d \in Deciders |-> NoRow]
    /\ errors = 0

-----------------------------------------------------------------------------
(***************************************************************************)
(* find_blockers: unfinished tasks that others wait for and whose own      *)
(* dependencies are all closed; steps and goals are ready, not blocking.   *)
(***************************************************************************)
Dependents(t) == {u \in Tasks : Exists(u) /\ t \in dependsOn[u]}

\* Mutant: a cancelled dependency still counts.
UnmetUnlessDone(t) == {u \in dependsOn[t] : Exists(u) /\ status[u] # "done"}

Unmet(t) == {u \in dependsOn[t] : Exists(u) /\ status[u] \notin {"done", "cancelled"}}

Blockers ==
    {t \in Tasks : /\ Exists(t)
                   /\ status[t] \notin {"done", "cancelled"}
                   /\ Dependents(t) # {}
                   /\ Unmet(t) = {}
                   /\ Kind[t] \notin {"step", "goal"}}

(***************************************************************************)
(* find_conflicts: an open task one of whose current source memories is    *)
(* contradicted, updated or restated by a settled current memory written   *)
(* after the task.  Which of several such memories is named is left open.  *)
(***************************************************************************)
Contradicting(e, u) ==
    /\ u \in latest /\ u # e
    /\ Content[u] \in Settles
    /\ <<e, u>> \in edges \/ <<u, e>> \in edges \/ Subject[e] = Subject[u]

Conflicts(t) ==
    IF status[t] \notin OPEN_TASK_STATUSES THEN {}
    ELSE {u \in Units : /\ <<t, u>> \in news
                        /\ \E e \in evidence[t] \cap latest : Contradicting(e, u)}

\* The resolution find_conflicts computes for a conflict.
Resolution(t, u) ==
    [op |-> "update_task", task |-> t, status |-> "done", owner |-> Blank, sources |-> {u}]

-----------------------------------------------------------------------------
(***************************************************************************)
(* CompanyMemory.create with the given content: the newest current memory  *)
(* of the subject is refreshed when it says the same; otherwise a row is   *)
(* added, and an UPDATES relation retires the older one.                   *)
(***************************************************************************)
\* u's updated_at is now: later than every other row and every task.
Written(u) ==
    /\ known' = known \cup {u}
    /\ older' = {x \in older : x[1] # u} \cup {<<v, u>> : v \in known \ {u}}
    /\ news' = news \cup {<<t, u>> : t \in {x \in Tasks : Exists(x)}}

\* The newest of S, by updated_at; none of the empty set.
Newest(S) == {u \in S : \A v \in S \ {u} : <<v, u>> \in older}

Retired(u, previous) == IF <<Content[u], Content[previous]>> \in UpdatesOf THEN {previous} ELSE {}

Remember(u) ==
    LET current == {v \in latest : Subject[v] = Subject[u]}
    IN \/ \E previous \in Newest(current) :
            /\ Content[previous] = Content[u]
            /\ Written(previous)
            /\ UNCHANGED <<latest, edges>>
       \/ \E previous \in Newest(current) :
            /\ Content[previous] # Content[u]
            /\ u \notin known
            /\ Written(u)
            /\ edges' = edges \cup {<<u, previous>>}
            /\ latest' = (latest \cup {u}) \ Retired(u, previous)
       \/ /\ current = {}
          /\ u \notin known
          /\ Written(u)
          /\ latest' = latest \cup {u}
          /\ UNCHANGED edges

\* A connector, a person or an agent's accepted proposal adds a memory.
Learn(u) ==
    /\ Remember(u)
    /\ UNCHANGED <<taskVars, planVars, deciderVars, errors>>

-----------------------------------------------------------------------------
\* The task ids an operation names.
Named(o) ==
    CASE o.op = "update_task" -> {o.task}
      [] o.op = "create_task" -> o.depends
      [] OTHER -> {}

\* propose_plan: nothing is applied, and the ids are taken as they come (the
\* route looks the updated tasks up, the console agent looks nothing up).
Propose(p, ops) ==
    /\ plan[p] = "absent"
    /\ plan' = [plan EXCEPT ![p] = "pending_approval"]
    /\ operations' = [operations EXCEPT ![p] = ops]
    /\ applied' = [applied EXCEPT ![p] = [i \in DOMAIN ops |-> 0]]
    /\ UNCHANGED <<taskVars, memoryVars, deciderVars, errors>>

LeavePlan(d) ==
    /\ pc' = [pc EXCEPT ![d] = "idle"]
    /\ held' = [held EXCEPT ![d] = NoPlan]
    /\ at' = [at EXCEPT ![d] = 1]
    /\ seen' = [seen EXCEPT ![d] = NoRow]

\* Mutant: the plan's status is not looked at.
ReadSettled(d) ==
    /\ pc[d] = "idle"
    /\ \E p \in Plans, next \in {"apply", "reject"} :
        /\ plan[p] # "absent"
        /\ held' = [held EXCEPT ![d] = p]
        /\ pc' = [pc EXCEPT ![d] = next]
    /\ UNCHANGED <<taskVars, memoryVars, planVars, at, seen, errors>>

\* approve_plan and reject_plan read the row; a settled plan is returned as it is.
ReadPending(d) ==
    /\ pc[d] = "idle"
    /\ \E p \in Plans, next \in {"apply", "reject"} :
        /\ plan[p] = "pending_approval"
        /\ held' = [held EXCEPT ![d] = p]
        /\ pc' = [pc EXCEPT ![d] = next]
    /\ UNCHANGED <<taskVars, memoryVars, planVars, at, seen, errors>>

Operation(d) == operations[held[d]][at[d]]

NextOp(d, op) ==
    /\ pc[d] = "apply"
    /\ at[d] \in DOMAIN operations[held[d]]
    /\ Operation(d).op = op

\* The operation took effect; the loop goes on with the next one.
Advance(d) ==
    /\ applied' = [applied EXCEPT ![held[d]][at[d]] = @ + 1]
    /\ at' = [at EXCEPT ![d] = @ + 1]

\* _apply update_task, first connection: the row is read.
ReadTask(d) ==
    /\ NextOp(d, "update_task")
    /\ Exists(Operation(d).task)
    /\ LET t == Operation(d).task
       IN seen' = [seen EXCEPT ![d] =
            [task |-> t, status |-> status[t], owner |-> owner[t], evidence |-> evidence[t]]]
    /\ pc' = [pc EXCEPT ![d] = "write"]
    /\ UNCHANGED <<taskVars, memoryVars, planVars, held, at, errors>>

\* No row has this id: the result says ok is False, and the loop goes on.
MissTask(d) ==
    /\ NextOp(d, "update_task")
    /\ ~Exists(Operation(d).task)
    /\ at' = [at EXCEPT ![d] = @ + 1]
    /\ UNCHANGED <<taskVars, memoryVars, planVars, pc, held, seen, errors>>

Filled(field, old) == IF field = Blank THEN old ELSE field

\* Mutant: a field the operation leaves alone is emptied.
WriteTaskBare(d) ==
    /\ pc[d] = "write"
    /\ LET o == Operation(d)
           t == o.task
       IN /\ status' = [status EXCEPT ![t] = Filled(o.status, seen[d].status)]
          /\ owner' = [owner EXCEPT ![t] = o.owner]
          /\ evidence' = [evidence EXCEPT ![t] = seen[d].evidence \cup o.sources]
          /\ news' = {n \in news : n[1] # t}
          /\ seen' = [seen EXCEPT ![d] = NoRow]
    /\ Advance(d)
    /\ pc' = [pc EXCEPT ![d] = "apply"]
    /\ UNCHANGED <<dependsOn, known, latest, older, edges, plan, operations, held, errors>>

\* _apply update_task, second connection: every field is written, the ones
\* the operation leaves alone from the row read before.
WriteTask(d) ==
    /\ pc[d] = "write"
    /\ LET o == Operation(d)
           t == o.task
       IN /\ status' = [status EXCEPT ![t] = Filled(o.status, seen[d].status)]
          /\ owner' = [owner EXCEPT ![t] = Filled(o.owner, seen[d].owner)]
          /\ evidence' = [evidence EXCEPT ![t] = seen[d].evidence \cup o.sources]
          /\ news' = {n \in news : n[1] # t}
          /\ seen' = [seen EXCEPT ![d] = NoRow]
    /\ Advance(d)
    /\ pc' = [pc EXCEPT ![d] = "apply"]
    /\ UNCHANGED <<dependsOn, known, latest, older, edges, plan, operations, held, errors>>

\* A new id is random: no plan on file can name it.
Fresh(t) ==
    /\ ~Exists(t)
    /\ \A p \in Plans : \A i \in DOMAIN operations[p] : t \notin Named(operations[p][i])

\* _apply create_task: a new open task that waits for the given ones.
CreateTask(d) ==
    /\ NextOp(d, "create_task")
    /\ \E t \in Tasks :
        /\ Fresh(t)
        /\ status' = [status EXCEPT ![t] = "open"]
        /\ evidence' = [evidence EXCEPT ![t] = Operation(d).sources]
        /\ dependsOn' = [dependsOn EXCEPT ![t] = Operation(d).depends]
    /\ Advance(d)
    /\ UNCHANGED <<owner, memoryVars, plan, operations, pc, held, seen, errors>>

\* _apply add_memory.
AddMemory(d) ==
    /\ NextOp(d, "add_memory")
    /\ Remember(Operation(d).unit)
    /\ Advance(d)
    /\ UNCHANGED <<taskVars, plan, operations, pc, held, seen, errors>>

\* Mutant: an operation that raises is recorded as not ok and passed over.
ApplySkips(d) ==
    /\ "apply" \in Faults
    /\ errors < MaxErrors
    /\ pc[d] \in {"apply", "write"}
    /\ at[d] \in DOMAIN operations[held[d]]
    /\ at' = [at EXCEPT ![d] = @ + 1]
    /\ pc' = [pc EXCEPT ![d] = "apply"]
    /\ errors' = errors + 1
    /\ UNCHANGED <<taskVars, memoryVars, planVars, held, seen>>

\* An operation, or the plan's UPDATE, raises: the request ends, what was
\* applied stays, and the plan is still pending approval.
ApplyRaises(d) ==
    /\ "apply" \in Faults
    /\ errors < MaxErrors
    /\ pc[d] \in {"apply", "write"}
    /\ errors' = errors + 1
    /\ LeavePlan(d)
    /\ UNCHANGED <<taskVars, memoryVars, planVars>>

\* add_memory raises after its rows are written (the graph is updated last).
MemoryRaises(d) ==
    /\ "apply" \in Faults
    /\ errors < MaxErrors
    /\ NextOp(d, "add_memory")
    /\ Remember(Operation(d).unit)
    /\ applied' = [applied EXCEPT ![held[d]][at[d]] = @ + 1]
    /\ errors' = errors + 1
    /\ LeavePlan(d)
    /\ UNCHANGED <<taskVars, plan, operations>>

\* approve_plan's last statement, by id: whatever the status is by now.
Approve(d) ==
    /\ pc[d] = "apply"
    /\ at[d] \notin DOMAIN operations[held[d]]
    /\ plan' = [plan EXCEPT ![held[d]] = "approved"]
    /\ LeavePlan(d)
    /\ UNCHANGED <<taskVars, memoryVars, operations, applied, errors>>

\* reject_plan's UPDATE, by id.
Reject(d) ==
    /\ pc[d] = "reject"
    /\ plan' = [plan EXCEPT ![held[d]] = "denied"]
    /\ LeavePlan(d)
    /\ UNCHANGED <<taskVars, memoryVars, operations, applied, errors>>

\* The process serving the decision dies.
Crash(d) ==
    /\ "crash" \in Faults
    /\ errors < MaxErrors
    /\ pc[d] # "idle"
    /\ errors' = errors + 1
    /\ LeavePlan(d)
    /\ UNCHANGED <<taskVars, memoryVars, planVars>>

Decide(d) ==
    \/ ReadPending(d) \/ ReadTask(d) \/ MissTask(d) \/ WriteTask(d) \/ CreateTask(d)
    \/ AddMemory(d) \/ Approve(d) \/ Reject(d)

DecideFails(d) == ApplyRaises(d) \/ MemoryRaises(d) \/ Crash(d)

Plan ==
    \/ \E u \in Units : Learn(u)
    \/ \E p \in AgentPlans, ops \in Proposals : Propose(p, ops)
    \/ \E d \in Deciders : Decide(d) \/ DecideFails(d)

PlanSpec == Init /\ [][Plan]_vars

-----------------------------------------------------------------------------
PlanTypeOK ==
    /\ status \in [Tasks -> TASK_STATUSES \cup {"absent"}]
    /\ owner \in [Tasks -> Owners \cup {Blank}]
    /\ evidence \in [Tasks -> SUBSET Units]
    /\ dependsOn \in [Tasks -> SUBSET Tasks]
    /\ latest \subseteq known /\ known \subseteq Units
    /\ older \subseteq Units \X Units
    /\ edges \subseteq Units \X Units
    /\ news \subseteq Tasks \X Units
    /\ plan \in [Plans -> {"absent", "pending_approval", "approved", "denied"}]
    /\ operations \in [Plans -> Seq(Operations)]
    /\ DOMAIN applied = Plans
    /\ \A p \in Plans : applied[p] \in [DOMAIN operations[p] -> Nat]
    /\ pc \in [Deciders -> {"idle", "apply", "write", "reject"}]
    /\ held \in [Deciders -> Plans \cup {NoPlan}]
    /\ at \in [Deciders -> Nat \ {0}]
    /\ \A d \in Deciders : pc[d] # "idle" => held[d] \in Plans /\ plan[held[d]] # "absent"
    /\ errors \in Nat

(***************************************************************************)
(* An approved plan was applied completely, as far as its tasks exist:     *)
(* wherever an error or another decision struck, the row says approved     *)
(* only after every operation took effect, and an operation never ran      *)
(* without those before it.  The exception is an update of a task that no  *)
(* row holds: it changes nothing, and the plan is approved all the same.   *)
(***************************************************************************)
Effected(p, i) ==
    \/ applied[p][i] >= 1
    \/ operations[p][i].op = "update_task" /\ ~Exists(operations[p][i].task)

ApprovedIsApplied ==
    \A p \in Plans :
        /\ plan[p] = "approved" => \A i \in DOMAIN operations[p] : Effected(p, i)
        /\ \A i \in DOMAIN operations[p] : i > 1 /\ applied[p][i] >= 1 => Effected(p, i - 1)

(***************************************************************************)
(* A plan that is settled and that nobody is in the middle of deciding on  *)
(* rests for good: no later approval, and nobody who was late, takes it up *)
(* again, and neither its status nor what was applied of it changes.       *)
(***************************************************************************)
AtRest(p) ==
    /\ plan[p] \in {"approved", "denied"}
    /\ \A d \in Deciders : held[d] # p

SettledPlansRest ==
    [][\A p \in Plans : AtRest(p) =>
        AtRest(p)' /\ plan'[p] = plan[p] /\ applied'[p] = applied[p]]_vars

(***************************************************************************)
(* A plan changes only the fields its operations name.  A write is made    *)
(* from a row read earlier, so this rests on nobody having written the     *)
(* task in between.                                                        *)
(***************************************************************************)
FieldsKept ==
    [][\A d \in Deciders :
        pc[d] = "write" /\ pc'[d] = "apply" =>
            LET o == Operation(d)
                t == o.task
            IN seen[d].status = status[t] /\ seen[d].owner = owner[t] =>
                /\ o.status = Blank => status'[t] = status[t]
                /\ o.owner = Blank => owner'[t] = owner[t]]_vars

Waiting(t) == \E u \in dependsOn[t] : status[u] \in OPEN_TASK_STATUSES

(***************************************************************************)
(* Nothing stalls unexplained: a set of unfinished tasks that holds a      *)
(* waiting task, and with every task also those it waits for, holds one    *)
(* that find_blockers reports, or a step or goal that is ready to run.     *)
(***************************************************************************)
StallIsExplained ==
    \A W \in SUBSET {t \in Tasks : status[t] \in OPEN_TASK_STATUSES} :
        /\ \E t \in W : Waiting(t)
        /\ \A t \in W : \A u \in dependsOn[t] : status[u] \in OPEN_TASK_STATUSES => u \in W
        => \E b \in W : b \in Blockers \/ (Kind[b] \in {"step", "goal"} /\ ~Waiting(b))
=============================================================================
