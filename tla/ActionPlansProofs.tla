--------------------------- MODULE ActionPlansProofs ---------------------------
(***************************************************************************)
(* Proofs about ActionPlans, for any tasks, memories, plans and deciders:  *)
(* the type invariant, that an approved plan was applied completely and in *)
(* order, that a settled plan rests, and that every stall is explained;    *)
(* and about StandingWatches, for any number of runs beside the deciders:  *)
(* one plan for a finding, and a fix for every conflict on file.           *)
(***************************************************************************)
EXTENDS StandingWatches, TLAPS

\* The parts of a decider's state the type invariant rests on.
Deciding ==
    /\ DOMAIN seen = Deciders
    /\ \A d \in Deciders :
        /\ pc[d] \in {"idle", "reject"} => at[d] = 1
        /\ pc[d] = "write" =>
            /\ at[d] \in DOMAIN operations[held[d]]
            /\ Operation(d).op = "update_task"
            /\ seen[d].status \in TASK_STATUSES \cup {"absent"}
            /\ seen[d].owner \in Owners \cup {Blank}
            /\ seen[d].evidence \in SUBSET Units

TypeInv == PlanTypeOK /\ Deciding

-----------------------------------------------------------------------------
(* What an operation holds, by its kind. *)
LEMMA OperationFields ==
    ASSUME NEW o \in Operations
    PROVE  /\ o.op = "update_task" =>
                /\ o.task \in Tasks
                /\ o.status \in TASK_STATUSES \cup {Blank}
                /\ o.owner \in Owners \cup {Blank}
                /\ o.sources \in SUBSET Units
           /\ o.op = "create_task" =>
                /\ o.depends \in SUBSET Tasks
                /\ o.sources \in SUBSET Units
           /\ o.op = "add_memory" => o.unit \in Units
  BY DEF Operations

(* The operation a decider is at is one of its plan's. *)
LEMMA AtOperation ==
    ASSUME TypeInv, NEW d \in Deciders, pc[d] # "idle",
           at[d] \in DOMAIN operations[held[d]]
    PROVE  /\ held[d] \in Plans
           /\ Operation(d) \in Operations
  <1>1. held[d] \in Plans
    BY DEF TypeInv, PlanTypeOK
  <1>2. operations[held[d]] \in Seq(Operations)
    BY <1>1 DEF TypeInv, PlanTypeOK
  <1>3. operations[held[d]][at[d]] \in Operations
    BY <1>2
  <1> QED
    BY <1>1, <1>3 DEF Operation

(* Creating a memory keeps the types of the memory tables. *)
LEMMA RememberTyped ==
    ASSUME PlanTypeOK, NEW u \in Units, Remember(u)
    PROVE  /\ latest' \subseteq known' /\ known' \subseteq Units
           /\ older' \subseteq Units \X Units
           /\ edges' \subseteq Units \X Units
           /\ news' \subseteq Tasks \X Units
  <1>1. latest \subseteq known /\ known \subseteq Units
    BY DEF PlanTypeOK
  <1>2. ASSUME NEW v \in Units, Written(v)
        PROVE  /\ v \in known' /\ known \subseteq known' /\ known' \subseteq Units
               /\ older' \subseteq Units \X Units
               /\ news' \subseteq Tasks \X Units
    BY <1>1, <1>2 DEF PlanTypeOK, Written
  <1>3. PICK v \in Units :
            /\ Written(v)
            /\ latest' \subseteq latest \cup {v}
            /\ \/ edges' = edges
               \/ \E w \in Units : edges' = edges \cup {<<v, w>>}
    BY <1>1 DEF Remember, Newest
  <1>4. edges' \subseteq Units \X Units
    BY <1>3 DEF PlanTypeOK
  <1> QED
    BY <1>1, <1>2, <1>3, <1>4

-----------------------------------------------------------------------------
LEMMA TypeInit == Init => TypeInv
  <1> SUFFICES ASSUME Init PROVE TypeInv
    OBVIOUS
  <1>1. KnownSet \subseteq Units
    BY PlanAssumption DEF KnownSet
  <1>2. /\ status \in [Tasks -> TASK_STATUSES \cup {"absent"}]
        /\ evidence \in [Tasks -> SUBSET Units]
        /\ dependsOn \in [Tasks -> SUBSET Tasks]
    BY PlanAssumption DEF Init, TASK_STATUSES, OPEN_TASK_STATUSES, Seeded
  <1>3. /\ operations \in [Plans -> Seq(Operations)]
        /\ DOMAIN applied = Plans
        /\ \A p \in Plans : applied[p] \in [DOMAIN operations[p] -> Nat]
    BY DEF Init
  <1>4. PlanTypeOK
    BY <1>1, <1>2, <1>3 DEF Init, PlanTypeOK
  <1>5. Deciding
    BY DEF Init, Deciding
  <1> QED
    BY <1>4, <1>5 DEF TypeInv

(* Leaving a plan keeps the types of the deciders' variables. *)
LEMMA LeavePlanTyped ==
    ASSUME TypeInv, NEW d \in Deciders, LeavePlan(d), UNCHANGED operations,
           plan' \in [Plans -> {"absent", "pending_approval", "approved", "denied"}],
           \A p \in Plans : plan[p] # "absent" => plan'[p] # "absent"
    PROVE  /\ pc' \in [Deciders -> {"idle", "apply", "write", "reject"}]
           /\ held' \in [Deciders -> Plans \cup {NoPlan}]
           /\ at' \in [Deciders -> Nat \ {0}]
           /\ \A e \in Deciders : pc'[e] # "idle" => held'[e] \in Plans /\ plan'[held'[e]] # "absent"
           /\ Deciding'
  <1>1. /\ pc' \in [Deciders -> {"idle", "apply", "write", "reject"}]
        /\ held' \in [Deciders -> Plans \cup {NoPlan}]
        /\ at' \in [Deciders -> Nat \ {0}]
    BY DEF TypeInv, PlanTypeOK, LeavePlan
  <1>2. \A e \in Deciders : pc'[e] # "idle" => held'[e] \in Plans /\ plan'[held'[e]] # "absent"
    BY DEF TypeInv, PlanTypeOK, LeavePlan
  <1>3. Deciding'
    BY DEF TypeInv, PlanTypeOK, Deciding, LeavePlan, Operation
  <1> QED
    BY <1>1, <1>2, <1>3

(* A proposed plan keeps the types, an agent's or a watch's. *)
LEMMA ProposeTyped ==
    ASSUME TypeInv, NEW p \in Plans, NEW ops \in Seq(Operations), Propose(p, ops)
    PROVE  TypeInv'
  <1> USE DEF TypeInv
  <1>1. \A d \in Deciders : pc[d] # "idle" => held[d] # p
    BY DEF Propose, PlanTypeOK
  <1>2. PlanTypeOK'
    <2>1. \A q \in Plans : applied'[q] \in [DOMAIN operations'[q] -> Nat]
      BY DEF Propose, PlanTypeOK
    <2>2. operations' \in [Plans -> Seq(Operations)] /\ DOMAIN applied' = Plans
      BY DEF Propose, PlanTypeOK
    <2>3. /\ plan' \in [Plans -> {"absent", "pending_approval", "approved", "denied"}]
          /\ \A d \in Deciders : pc'[d] # "idle" => held'[d] \in Plans /\ plan'[held'[d]] # "absent"
      BY <1>1 DEF Propose, PlanTypeOK, deciderVars
    <2> QED
      BY <2>1, <2>2, <2>3 DEF Propose, PlanTypeOK, taskVars, memoryVars, deciderVars
  <1>3. Deciding'
    <2>1. \A d \in Deciders : pc[d] = "write" => operations'[held[d]] = operations[held[d]]
      BY <1>1 DEF Propose, PlanTypeOK
    <2> QED
      BY <2>1 DEF Propose, Deciding, Operation, deciderVars
  <1> QED
    BY <1>2, <1>3

LEMMA TypeStep == TypeInv /\ [Plan]_vars => TypeInv'
  <1> SUFFICES ASSUME TypeInv, [Plan]_vars PROVE TypeInv'
    OBVIOUS
  <1> USE DEF TypeInv
  <1>1. ASSUME NEW u \in Units, Learn(u) PROVE TypeInv'
    <2>1. PlanTypeOK'
      BY <1>1, RememberTyped DEF Learn, PlanTypeOK, taskVars, planVars, deciderVars
    <2>2. Deciding'
      BY <1>1 DEF Learn, Deciding, Operation, planVars, deciderVars
    <2> QED
      BY <2>1, <2>2
  <1>2. ASSUME NEW p \in AgentPlans, NEW ops \in Proposals, Propose(p, ops) PROVE TypeInv'
    BY <1>2, ProposeTyped, PlanAssumption
  <1>3. ASSUME NEW d \in Deciders, ReadPending(d) PROVE TypeInv'
    <2>1. PlanTypeOK'
      BY <1>3 DEF ReadPending, PlanTypeOK, taskVars, memoryVars, planVars
    <2>2. Deciding'
      BY <1>3 DEF ReadPending, PlanTypeOK, Deciding, Operation, planVars
    <2> QED
      BY <2>1, <2>2
  <1>4. ASSUME NEW d \in Deciders, ReadTask(d) PROVE TypeInv'
    <2>1. /\ at[d] \in DOMAIN operations[held[d]] /\ Operation(d).op = "update_task"
          /\ Operation(d).task \in Tasks
      BY <1>4, AtOperation, OperationFields DEF ReadTask, NextOp
    <2>2. PlanTypeOK'
      BY <1>4 DEF ReadTask, NextOp, PlanTypeOK, taskVars, memoryVars, planVars
    <2>3. Deciding'
      BY <1>4, <2>1 DEF ReadTask, NextOp, PlanTypeOK, Deciding, Operation, taskVars, planVars
    <2> QED
      BY <2>2, <2>3
  <1>12. ASSUME NEW d \in Deciders, MissTask(d) PROVE TypeInv'
    <2>1. at' \in [Deciders -> Nat \ {0}]
      BY <1>12 DEF MissTask, PlanTypeOK
    <2>2. PlanTypeOK'
      BY <1>12, <2>1 DEF MissTask, PlanTypeOK, taskVars, memoryVars, planVars
    <2>3. Deciding'
      BY <1>12 DEF MissTask, NextOp, PlanTypeOK, Deciding, Operation, planVars
    <2> QED
      BY <2>2, <2>3
  <1>5. ASSUME NEW d \in Deciders, WriteTask(d) PROVE TypeInv'
    <2> DEFINE o == Operation(d)
               t == o.task
    <2>1. /\ pc[d] = "write" /\ at[d] \in DOMAIN operations[held[d]] /\ held[d] \in Plans
          /\ t \in Tasks /\ o.status \in TASK_STATUSES \cup {Blank}
          /\ o.owner \in Owners \cup {Blank} /\ o.sources \in SUBSET Units
      BY <1>5, AtOperation, OperationFields DEF WriteTask, Deciding
    <2>2. /\ Filled(o.status, seen[d].status) \in TASK_STATUSES \cup {"absent"}
          /\ Filled(o.owner, seen[d].owner) \in Owners \cup {Blank}
          /\ (seen[d].evidence \cup o.sources) \in SUBSET Units
      BY <2>1 DEF Deciding, Filled
    <2> HIDE DEF o
    <2>3. /\ status' \in [Tasks -> TASK_STATUSES \cup {"absent"}]
          /\ owner' \in [Tasks -> Owners \cup {Blank}]
          /\ evidence' \in [Tasks -> SUBSET Units]
      BY <1>5, <2>1, <2>2 DEF WriteTask, PlanTypeOK, o
    <2>4. /\ DOMAIN applied' = Plans
          /\ \A p \in Plans : applied'[p] \in [DOMAIN operations'[p] -> Nat]
          /\ at' \in [Deciders -> Nat \ {0}]
      BY <1>5, <2>1 DEF WriteTask, Advance, PlanTypeOK
    <2>5. PlanTypeOK'
      BY <1>5, <2>3, <2>4 DEF WriteTask, PlanTypeOK
    <2>6. Deciding'
      BY <1>5 DEF WriteTask, Advance, PlanTypeOK, Deciding, Operation
    <2> QED
      BY <2>5, <2>6
  <1>6. ASSUME NEW d \in Deciders, CreateTask(d) PROVE TypeInv'
    <2>1. /\ at[d] \in DOMAIN operations[held[d]] /\ held[d] \in Plans
          /\ Operation(d).depends \in SUBSET Tasks /\ Operation(d).sources \in SUBSET Units
      BY <1>6, AtOperation, OperationFields DEF CreateTask, NextOp
    <2>2. /\ status' \in [Tasks -> TASK_STATUSES \cup {"absent"}]
          /\ evidence' \in [Tasks -> SUBSET Units]
          /\ dependsOn' \in [Tasks -> SUBSET Tasks]
      BY <1>6, <2>1 DEF CreateTask, PlanTypeOK, TASK_STATUSES, OPEN_TASK_STATUSES
    <2>3. /\ DOMAIN applied' = Plans
          /\ \A p \in Plans : applied'[p] \in [DOMAIN operations'[p] -> Nat]
          /\ at' \in [Deciders -> Nat \ {0}]
      BY <1>6, <2>1 DEF CreateTask, Advance, PlanTypeOK
    <2>4. PlanTypeOK'
      BY <1>6, <2>2, <2>3 DEF CreateTask, PlanTypeOK, memoryVars
    <2>5. Deciding'
      BY <1>6 DEF CreateTask, NextOp, Advance, PlanTypeOK, Deciding, Operation
    <2> QED
      BY <2>4, <2>5
  <1>7. ASSUME NEW d \in Deciders, AddMemory(d) PROVE TypeInv'
    <2>1. /\ at[d] \in DOMAIN operations[held[d]] /\ held[d] \in Plans
          /\ Operation(d).unit \in Units
      BY <1>7, AtOperation, OperationFields DEF AddMemory, NextOp
    <2>2. /\ DOMAIN applied' = Plans
          /\ \A p \in Plans : applied'[p] \in [DOMAIN operations'[p] -> Nat]
          /\ at' \in [Deciders -> Nat \ {0}]
      BY <1>7, <2>1 DEF AddMemory, Advance, PlanTypeOK
    <2>3. PlanTypeOK'
      BY <1>7, <2>1, <2>2, RememberTyped DEF AddMemory, PlanTypeOK, taskVars
    <2>4. Deciding'
      BY <1>7 DEF AddMemory, NextOp, Advance, PlanTypeOK, Deciding, Operation
    <2> QED
      BY <2>3, <2>4
  <1>8. ASSUME NEW d \in Deciders, Approve(d) \/ Reject(d) PROVE TypeInv'
    <2>1. /\ plan' \in [Plans -> {"absent", "pending_approval", "approved", "denied"}]
          /\ \A p \in Plans : plan[p] # "absent" => plan'[p] # "absent"
          /\ LeavePlan(d) /\ UNCHANGED <<taskVars, memoryVars, operations, applied, errors>>
      BY <1>8 DEF Approve, Reject, PlanTypeOK
    <2>2. PlanTypeOK' /\ Deciding'
      BY <2>1, LeavePlanTyped DEF PlanTypeOK, taskVars, memoryVars
    <2> QED
      BY <2>2
  <1>9. ASSUME NEW d \in Deciders, ApplyRaises(d) \/ Crash(d) PROVE TypeInv'
    <2>1. LeavePlan(d) /\ errors' = errors + 1 /\ UNCHANGED <<taskVars, memoryVars, planVars>>
      BY <1>9 DEF ApplyRaises, Crash
    <2>2. PlanTypeOK' /\ Deciding'
      BY <2>1, LeavePlanTyped DEF PlanTypeOK, taskVars, memoryVars, planVars
    <2> QED
      BY <2>2
  <1>10. ASSUME NEW d \in Deciders, MemoryRaises(d) PROVE TypeInv'
    <2>1. /\ at[d] \in DOMAIN operations[held[d]] /\ held[d] \in Plans
          /\ Operation(d).unit \in Units
      BY <1>10, AtOperation, OperationFields DEF MemoryRaises, NextOp
    <2>2. /\ DOMAIN applied' = Plans
          /\ \A p \in Plans : applied'[p] \in [DOMAIN operations'[p] -> Nat]
      BY <1>10, <2>1 DEF MemoryRaises, PlanTypeOK
    <2>3. LeavePlan(d) /\ errors' = errors + 1 /\ UNCHANGED <<taskVars, plan, operations>>
      BY <1>10 DEF MemoryRaises
    <2>4. /\ latest' \subseteq known' /\ known' \subseteq Units
          /\ older' \subseteq Units \X Units
          /\ edges' \subseteq Units \X Units
          /\ news' \subseteq Tasks \X Units
      BY <1>10, <2>1, RememberTyped DEF MemoryRaises
    <2>5. PlanTypeOK' /\ Deciding'
      BY <2>2, <2>3, <2>4, LeavePlanTyped DEF PlanTypeOK, taskVars
    <2> QED
      BY <2>5
  <1>11. CASE UNCHANGED vars
    BY <1>11 DEF PlanTypeOK, Deciding, Operation, vars, taskVars, memoryVars, planVars, deciderVars
  <1> QED
    BY <1>1, <1>2, <1>3, <1>4, <1>5, <1>6, <1>7, <1>8, <1>9, <1>10, <1>11, <1>12
       DEF Plan, Decide, DecideFails

(* The type invariant of tasks, memories, plans and their deciders. *)
THEOREM PlanTypeCorrect == PlanSpec => []PlanTypeOK
  <1>1. TypeInv => PlanTypeOK
    BY DEF TypeInv
  <1> QED
    BY TypeInit, TypeStep, <1>1, PTL DEF PlanSpec

-----------------------------------------------------------------------------
(***************************************************************************)
(* A task that is about to be written has a row, and rows stay: the second *)
(* connection of update_task finds the row that the first one read.        *)
(***************************************************************************)
WritesExisting ==
    \A d \in Deciders : pc[d] = "write" =>
        /\ seen[d].status # "absent"
        /\ \A t \in Tasks : t = Operation(d).task => Exists(t)

LEMMA TasksStay ==
    ASSUME TypeInv, WritesExisting, [Plan]_vars, NEW t \in Tasks, Exists(t)
    PROVE  Exists(t)'
  <1> USE DEF Exists
  <1>1. ASSUME NEW d \in Deciders, WriteTask(d) PROVE Exists(t)'
    <2>1. Operation(d).status \in TASK_STATUSES \cup {Blank} /\ seen[d].status # "absent"
      BY <1>1, AtOperation, OperationFields
         DEF WriteTask, TypeInv, Deciding, WritesExisting
    <2>2. Filled(Operation(d).status, seen[d].status) # "absent"
      BY <2>1 DEF Filled, TASK_STATUSES, OPEN_TASK_STATUSES
    <2> QED
      BY <1>1, <2>2 DEF WriteTask, TypeInv, PlanTypeOK
  <1>2. ASSUME NEW d \in Deciders, CreateTask(d) PROVE Exists(t)'
    BY <1>2 DEF CreateTask, TypeInv, PlanTypeOK
  <1>3. ASSUME NEW d \in Deciders, Decide(d) \/ DecideFails(d),
               ~WriteTask(d), ~CreateTask(d)
        PROVE  UNCHANGED status
    BY <1>3 DEF Decide, DecideFails, ReadPending, ReadTask, MissTask, AddMemory, Approve, Reject,
                ApplyRaises, MemoryRaises, Crash, taskVars
  <1>4. ASSUME NEW u \in Units, Learn(u) PROVE UNCHANGED status
    BY <1>4 DEF Learn, taskVars
  <1>5. ASSUME NEW p \in AgentPlans, NEW ops \in Proposals, Propose(p, ops) PROVE UNCHANGED status
    BY <1>5 DEF Propose, taskVars
  <1>6. CASE UNCHANGED vars
    BY <1>6 DEF vars, taskVars
  <1> QED
    BY <1>1, <1>2, <1>3, <1>4, <1>5, <1>6 DEF Plan

(* An id that a plan on file names is never given to a new task. *)
LEMMA MissingStays ==
    ASSUME TypeInv, WritesExisting, [Plan]_vars,
           NEW p \in Plans, NEW i \in DOMAIN operations[p],
           NEW t \in Named(operations[p][i]), ~Exists(t)
    PROVE  ~Exists(t)'
  <1> USE DEF Exists
  <1>0. t \in Tasks
    <2>1. operations[p][i] \in Operations
      BY DEF TypeInv, PlanTypeOK
    <2> QED
      BY <2>1, OperationFields DEF Named
  <1>1. ASSUME NEW d \in Deciders, WriteTask(d) PROVE ~Exists(t)'
    <2>1. Operation(d).task # t
      BY <1>0, <1>1 DEF WriteTask, WritesExisting
    <2> QED
      BY <1>0, <1>1, <2>1 DEF WriteTask, TypeInv, PlanTypeOK
  <1>2. ASSUME NEW d \in Deciders, CreateTask(d) PROVE ~Exists(t)'
    <2>1. PICK u \in Tasks : Fresh(u) /\ status' = [status EXCEPT ![u] = "open"]
      BY <1>2 DEF CreateTask
    <2>2. u # t
      BY <2>1 DEF Fresh
    <2> QED
      BY <1>0, <2>1, <2>2 DEF TypeInv, PlanTypeOK
  <1>3. ASSUME NEW d \in Deciders, Decide(d) \/ DecideFails(d),
               ~WriteTask(d), ~CreateTask(d)
        PROVE  UNCHANGED status
    BY <1>3 DEF Decide, DecideFails, ReadPending, ReadTask, MissTask, AddMemory, Approve, Reject,
                ApplyRaises, MemoryRaises, Crash, taskVars
  <1>4. ASSUME NEW u \in Units, Learn(u) PROVE UNCHANGED status
    BY <1>4 DEF Learn, taskVars
  <1>5. ASSUME NEW q \in AgentPlans, NEW ops \in Proposals, Propose(q, ops) PROVE UNCHANGED status
    BY <1>5 DEF Propose, taskVars
  <1>6. CASE UNCHANGED vars
    BY <1>6 DEF vars, taskVars
  <1> QED
    BY <1>1, <1>2, <1>3, <1>4, <1>5, <1>6 DEF Plan

(* Whoever proposes a plan leaves the ongoing writes alone. *)
LEMMA ProposeWrites ==
    ASSUME TypeInv, WritesExisting, NEW p \in Plans, NEW ops \in Seq(Operations), Propose(p, ops)
    PROVE  WritesExisting'
  <1>1. \A d \in Deciders : pc[d] # "idle" => held[d] \in Plans /\ held[d] # p
    BY DEF Propose, TypeInv, PlanTypeOK
  <1>2. \A d \in Deciders : pc[d] = "write" => Operation(d)' = Operation(d)
    BY <1>1 DEF Propose, deciderVars, Operation, TypeInv, PlanTypeOK
  <1>3. UNCHANGED <<pc, seen, status>>
    BY DEF Propose, deciderVars, taskVars
  <1> QED
    BY <1>2, <1>3 DEF WritesExisting, Exists

LEMMA WritesStep == TypeInv /\ WritesExisting /\ [Plan]_vars => WritesExisting'
  <1> SUFFICES ASSUME TypeInv, WritesExisting, [Plan]_vars PROVE WritesExisting'
    OBVIOUS
  <1>t. \A t \in Tasks : Exists(t) => Exists(t)'
    BY TasksStay
  <1>1. ASSUME NEW d \in Deciders, ReadTask(d) PROVE WritesExisting'
    <2>1. /\ Operation(d).task \in Tasks /\ Exists(Operation(d).task)
          /\ at[d] \in DOMAIN operations[held[d]] /\ UNCHANGED <<operations, held, at>>
      BY <1>1, AtOperation, OperationFields DEF ReadTask, NextOp, planVars
    <2>2. seen'[d].status # "absent"
      BY <1>1, <2>1 DEF ReadTask, Exists, Deciding, TypeInv
    <2>3. \A e \in Deciders : Operation(e)' = Operation(e)
      BY <2>1 DEF Operation
    <2>4. \A e \in Deciders \ {d} : pc'[e] = pc[e] /\ seen'[e] = seen[e]
      BY <1>1 DEF ReadTask, Deciding, TypeInv, PlanTypeOK
    <2> QED
      BY <1>t, <2>1, <2>2, <2>3, <2>4 DEF WritesExisting
  <1>2. ASSUME NEW d \in Deciders, Decide(d) \/ DecideFails(d), ~ReadTask(d) PROVE WritesExisting'
    <2>1. \A e \in Deciders : pc'[e] = "write" =>
              pc[e] = "write" /\ seen'[e] = seen[e] /\ held'[e] = held[e] /\ at'[e] = at[e]
      BY <1>2 DEF Decide, DecideFails, ReadPending, MissTask, WriteTask, CreateTask, AddMemory,
                  Approve, Reject, ApplyRaises, MemoryRaises, Crash, LeavePlan, Advance, NextOp,
                  TypeInv, PlanTypeOK, Deciding
    <2>2. UNCHANGED operations
      BY <1>2 DEF Decide, DecideFails, ReadPending, MissTask, WriteTask, CreateTask, AddMemory,
                  Approve, Reject, ApplyRaises, MemoryRaises, Crash, planVars
    <2>3. \A e \in Deciders : pc'[e] = "write" => Operation(e)' = Operation(e)
      BY <2>1, <2>2 DEF Operation
    <2> QED
      BY <1>t, <2>1, <2>3 DEF WritesExisting
  <1>3. ASSUME NEW u \in Units, Learn(u) PROVE WritesExisting'
    <2>1. UNCHANGED <<operations, pc, held, at, seen>>
      BY <1>3 DEF Learn, planVars, deciderVars
    <2> QED
      BY <1>t, <2>1 DEF WritesExisting, Operation
  <1>4. ASSUME NEW p \in AgentPlans, NEW ops \in Proposals, Propose(p, ops) PROVE WritesExisting'
    BY <1>4, ProposeWrites, PlanAssumption
  <1>5. CASE UNCHANGED vars
    <2>1. UNCHANGED <<operations, pc, held, at, seen>>
      BY <1>5 DEF vars, planVars, deciderVars
    <2> QED
      BY <1>t, <2>1 DEF WritesExisting, Operation
  <1> QED
    BY <1>1, <1>2, <1>3, <1>4, <1>5 DEF Plan

-----------------------------------------------------------------------------
(***************************************************************************)
(* The operations before the one a decider is at took effect, or name a    *)
(* task that no row holds: the loop only passes over those.                *)
(***************************************************************************)
BehindIsApplied ==
    \A d \in Deciders, p \in Plans : pc[d] # "idle" /\ held[d] = p =>
        \A i \in DOMAIN operations[p] : i < at[d] => Effected(p, i)

ApplyInv == ApprovedIsApplied /\ BehindIsApplied /\ WritesExisting

LEMMA ApplyInit == Init => ApplyInv
  BY DEF Init, ApplyInv, ApprovedIsApplied, BehindIsApplied, WritesExisting

(* What took effect, or had no task to take effect on, stays so. *)
LEMMA EffectedStays ==
    ASSUME TypeInv, WritesExisting, [Plan]_vars, UNCHANGED operations,
           \A p \in Plans : \A i \in DOMAIN operations[p] : applied[p][i] >= 1 => applied'[p][i] >= 1
    PROVE  \A p \in Plans : \A i \in DOMAIN operations[p] : Effected(p, i) => Effected(p, i)'
  <1> SUFFICES ASSUME NEW p \in Plans, NEW i \in DOMAIN operations[p],
                      operations[p][i].op = "update_task", ~Exists(operations[p][i].task)
               PROVE  Effected(p, i)'
    BY DEF Effected
  <1> PICK t : t = operations[p][i].task
    OBVIOUS
  <1>1. t \in Named(operations[p][i])
    BY DEF Named
  <1>2. ~Exists(t)'
    BY <1>1, MissingStays
  <1> QED
    BY <1>2 DEF Effected, Exists

(* An operation that takes effect keeps the invariant, whatever the decider
   does next with its own variables. *)
LEMMA AdvanceApplied ==
    ASSUME TypeInv, ApplyInv, [Plan]_vars, NEW d \in Deciders, pc[d] # "idle",
           at[d] \in DOMAIN operations[held[d]],
           applied' = [applied EXCEPT ![held[d]][at[d]] = @ + 1],
           UNCHANGED <<plan, operations>>
    PROVE  /\ ApprovedIsApplied'
           /\ \A e \in Deciders, p \in Plans : pc[e] # "idle" /\ held[e] = p =>
                \A i \in DOMAIN operations[p] :
                    i < at[e] \/ (e = d /\ i <= at[e]) => Effected(p, i)'
  <1>1. held[d] \in Plans
    BY DEF TypeInv, PlanTypeOK
  <1>2. \A p \in Plans : \A i \in DOMAIN operations[p] :
            /\ applied[p][i] \in Nat
            /\ applied'[p][i] = IF p = held[d] /\ i = at[d] THEN applied[p][i] + 1 ELSE applied[p][i]
    BY <1>1 DEF TypeInv, PlanTypeOK
  <1>3. \A p \in Plans : \A i \in DOMAIN operations[p] :
            i \in Nat \ {0} /\ (i > 1 => i - 1 \in DOMAIN operations[p])
    <2>1. \A p \in Plans : /\ DOMAIN operations[p] = 1..Len(operations[p])
                           /\ Len(operations[p]) \in Nat
      BY DEF TypeInv, PlanTypeOK
    <2> QED
      BY <2>1
  <1>4. \A p \in Plans : p = held[d] => \A i \in DOMAIN operations[p] : i < at[d] => Effected(p, i)
    BY DEF ApplyInv, BehindIsApplied
  <1>e. \A p \in Plans : \A i \in DOMAIN operations[p] : Effected(p, i) => Effected(p, i)'
    BY <1>2, EffectedStays DEF ApplyInv
  <1>n. \A p \in Plans : \A i \in DOMAIN operations[p] : p = held[d] /\ i = at[d] => Effected(p, i)'
    BY <1>1, <1>2 DEF Effected
  <1>5. \A p \in Plans : plan'[p] = "approved" => \A i \in DOMAIN operations'[p] : Effected(p, i)'
    BY <1>e DEF ApplyInv, ApprovedIsApplied
  <1>6. ASSUME NEW p \in Plans, NEW i \in DOMAIN operations[p], i > 1, applied'[p][i] >= 1
        PROVE  Effected(p, i - 1)'
    <2>1. i - 1 \in DOMAIN operations[p]
      BY <1>3, <1>6
    <2>2. CASE p = held[d] /\ i = at[d]
      <3>1. Effected(p, i - 1)
        BY <1>3, <1>4, <2>1, <2>2
      <3> QED
        BY <1>e, <2>1, <3>1
    <2>3. CASE ~(p = held[d] /\ i = at[d])
      <3>1. Effected(p, i - 1)
        BY <1>2, <1>6, <2>3 DEF ApplyInv, ApprovedIsApplied
      <3> QED
        BY <1>e, <2>1, <3>1
    <2> QED
      BY <2>2, <2>3
  <1>7. ApprovedIsApplied'
    BY <1>5, <1>6 DEF ApprovedIsApplied
  <1>8. ASSUME NEW e \in Deciders, NEW p \in Plans, pc[e] # "idle", held[e] = p,
               NEW i \in DOMAIN operations[p], i < at[e] \/ (e = d /\ i <= at[e])
        PROVE  Effected(p, i)'
    <2>1. at[e] \in Nat /\ i \in Nat
      BY <1>3, <1>8 DEF TypeInv, PlanTypeOK
    <2>2. CASE i < at[e]
      <3>1. Effected(p, i)
        BY <1>8, <2>2 DEF ApplyInv, BehindIsApplied
      <3> QED
        BY <1>e, <1>8, <3>1
    <2>3. CASE e = d /\ i = at[e]
      BY <1>n, <2>3, <1>8
    <2> QED
      BY <1>8, <2>1, <2>2, <2>3
  <1> QED
    BY <1>7, <1>8

(* A plan is proposed with nothing applied of it. *)
LEMMA ProposeApplied ==
    ASSUME TypeInv, ApplyInv, NEW p \in Plans, NEW ops \in Seq(Operations), Propose(p, ops)
    PROVE  ApplyInv'
  <1>1. \A d \in Deciders : pc[d] # "idle" => held[d] \in Plans /\ held[d] # p
    BY DEF Propose, TypeInv, PlanTypeOK
  <1>2. \A q \in Plans : q # p => /\ operations'[q] = operations[q]
                                  /\ applied'[q] = applied[q] /\ plan'[q] = plan[q]
    BY DEF Propose, TypeInv, PlanTypeOK
  <1>3. /\ plan'[p] = "pending_approval" /\ operations'[p] = ops
        /\ applied'[p] = [i \in DOMAIN ops |-> 0]
    BY DEF Propose, TypeInv, PlanTypeOK
  <1>e. UNCHANGED status
    BY DEF Propose, taskVars
  <1>4. ApprovedIsApplied'
    BY <1>2, <1>3, <1>e DEF ApplyInv, ApprovedIsApplied, Effected, Exists
  <1>5. BehindIsApplied'
    BY <1>1, <1>2, <1>e DEF Propose, deciderVars, ApplyInv, BehindIsApplied, Effected, Exists
  <1>6. WritesExisting'
    BY ProposeWrites DEF ApplyInv
  <1> QED
    BY <1>4, <1>5, <1>6 DEF ApplyInv

(* A step that neither applies nor approves anything, and takes nobody
   further through a plan. *)
LEMMA IdleApplied ==
    ASSUME TypeInv, ApplyInv, [Plan]_vars, UNCHANGED <<operations, applied>>,
           \A p \in Plans : plan'[p] = "approved" => plan[p] = "approved",
           \A d \in Deciders : pc'[d] # "idle" =>
                \/ held'[d] \in Plans /\ at'[d] = 1
                \/ pc[d] # "idle" /\ held'[d] = held[d] /\ at'[d] = at[d]
    PROVE  ApplyInv'
  <1>e. \A p \in Plans : \A i \in DOMAIN operations[p] : Effected(p, i) => Effected(p, i)'
    BY EffectedStays DEF ApplyInv
  <1>i. \A p \in Plans : \A i \in DOMAIN operations[p] :
            i \in Nat \ {0} /\ (i > 1 => i - 1 \in DOMAIN operations[p])
    <2>1. \A p \in Plans : /\ DOMAIN operations[p] = 1..Len(operations[p])
                           /\ Len(operations[p]) \in Nat
      BY DEF TypeInv, PlanTypeOK
    <2> QED
      BY <2>1
  <1>1. ApprovedIsApplied'
    BY <1>e, <1>i DEF ApplyInv, ApprovedIsApplied
  <1>2. ASSUME NEW d \in Deciders, NEW p \in Plans, pc'[d] # "idle", held'[d] = p,
               NEW i \in DOMAIN operations[p], i < at'[d]
        PROVE  Effected(p, i)'
    <2>1. CASE at'[d] = 1
      BY <1>2, <1>i, <2>1
    <2>2. CASE pc[d] # "idle" /\ held'[d] = held[d] /\ at'[d] = at[d]
      <3>1. Effected(p, i)
        BY <1>2, <2>2 DEF ApplyInv, BehindIsApplied
      <3> QED
        BY <1>2, <3>1, <1>e
    <2> QED
      BY <1>2, <2>1, <2>2
  <1>3. BehindIsApplied'
    BY <1>2 DEF BehindIsApplied
  <1> QED
    BY <1>1, <1>3, WritesStep DEF ApplyInv

LEMMA ApplyStep == TypeInv /\ ApplyInv /\ [Plan]_vars => ApplyInv'
  <1> SUFFICES ASSUME TypeInv, ApplyInv, [Plan]_vars PROVE ApplyInv'
    OBVIOUS
  <1>w. WritesExisting'
    BY WritesStep DEF ApplyInv
  <1>1. ASSUME NEW u \in Units, Learn(u) PROVE ApplyInv'
    BY <1>1, IdleApplied DEF Learn, planVars, deciderVars, TypeInv, PlanTypeOK
  <1>2. ASSUME NEW p \in AgentPlans, NEW ops \in Proposals, Propose(p, ops) PROVE ApplyInv'
    BY <1>2, ProposeApplied, PlanAssumption
  <1>3. ASSUME NEW d \in Deciders, ReadPending(d) PROVE ApplyInv'
    <2>1. at[d] = 1
      BY <1>3 DEF ReadPending, TypeInv, Deciding
    <2>2. \A e \in Deciders : e = d \/ (pc'[e] = pc[e] /\ held'[e] = held[e])
      BY <1>3 DEF ReadPending, TypeInv, PlanTypeOK
    <2>3. held'[d] \in Plans /\ UNCHANGED <<plan, operations, applied, at>>
      BY <1>3 DEF ReadPending, TypeInv, PlanTypeOK, planVars
    <2> QED
      BY <2>1, <2>2, <2>3, IdleApplied
  <1>4. ASSUME NEW d \in Deciders, ReadTask(d) PROVE ApplyInv'
    <2>1. \A e \in Deciders : pc'[e] # "idle" => pc[e] # "idle"
      BY <1>4 DEF ReadTask, NextOp, TypeInv, PlanTypeOK
    <2> QED
      BY <1>4, <2>1, IdleApplied DEF ReadTask, planVars
  <1>5. ASSUME NEW d \in Deciders, WriteTask(d) \/ CreateTask(d) \/ AddMemory(d) PROVE ApplyInv'
    <2>1. /\ pc[d] # "idle" /\ at[d] \in DOMAIN operations[held[d]]
          /\ Advance(d) /\ UNCHANGED <<plan, operations, held>>
      BY <1>5 DEF WriteTask, CreateTask, AddMemory, NextOp, TypeInv, Deciding
    <2>2. \A e \in Deciders : pc'[e] # "idle" => pc[e] # "idle"
      BY <1>5, <2>1 DEF WriteTask, CreateTask, AddMemory, TypeInv, PlanTypeOK
    <2>3. /\ ApprovedIsApplied'
          /\ \A e \in Deciders, p \in Plans : pc[e] # "idle" /\ held[e] = p =>
                \A i \in DOMAIN operations[p] :
                    i < at[e] \/ (e = d /\ i <= at[e]) => Effected(p, i)'
      BY <2>1, AdvanceApplied DEF Advance
    <2>4. at' = [at EXCEPT ![d] = @ + 1] /\ at \in [Deciders -> Nat \ {0}]
      BY <2>1 DEF Advance, TypeInv, PlanTypeOK
    <2>5. \A p \in Plans : DOMAIN operations[p] \subseteq Nat
      BY DEF TypeInv, PlanTypeOK
    <2>6. BehindIsApplied'
      <3> SUFFICES ASSUME NEW e \in Deciders, NEW p \in Plans, pc'[e] # "idle", held'[e] = p,
                          NEW i \in DOMAIN operations[p], i < at'[e]
                   PROVE  Effected(p, i)'
        BY <2>1 DEF BehindIsApplied
      <3>1. pc[e] # "idle" /\ held[e] = p /\ i \in Nat
        BY <2>1, <2>2, <2>5
      <3>2. i < at[e] \/ (e = d /\ i <= at[e])
        BY <2>4, <3>1
      <3> QED
        BY <2>3, <3>1, <3>2
    <2> QED
      BY <1>w, <2>3, <2>6 DEF ApplyInv
  <1>6. ASSUME NEW d \in Deciders, ApplyRaises(d) \/ Crash(d) \/ Reject(d) PROVE ApplyInv'
    <2>1. LeavePlan(d) /\ UNCHANGED <<operations, applied>>
      BY <1>6 DEF ApplyRaises, Crash, Reject, planVars
    <2>2. \A p \in Plans : plan'[p] = "approved" => plan[p] = "approved"
      BY <1>6 DEF ApplyRaises, Crash, Reject, planVars, TypeInv, PlanTypeOK
    <2>3. \A e \in Deciders : pc'[e] # "idle" =>
              pc[e] # "idle" /\ held'[e] = held[e] /\ at'[e] = at[e]
      BY <2>1 DEF LeavePlan, TypeInv, PlanTypeOK
    <2> QED
      BY <2>1, <2>2, <2>3, IdleApplied
  <1>7. ASSUME NEW d \in Deciders, MemoryRaises(d) PROVE ApplyInv'
    <2>1. /\ pc[d] # "idle" /\ at[d] \in DOMAIN operations[held[d]] /\ LeavePlan(d)
          /\ applied' = [applied EXCEPT ![held[d]][at[d]] = @ + 1]
          /\ UNCHANGED <<plan, operations>>
      BY <1>7 DEF MemoryRaises, NextOp
    <2>2. /\ ApprovedIsApplied'
          /\ \A e \in Deciders, p \in Plans : pc[e] # "idle" /\ held[e] = p =>
                \A i \in DOMAIN operations[p] : i < at[e] => Effected(p, i)'
      BY <2>1, AdvanceApplied
    <2>3. \A e \in Deciders : pc'[e] # "idle" =>
              pc[e] # "idle" /\ held'[e] = held[e] /\ at'[e] = at[e]
      BY <2>1 DEF LeavePlan, TypeInv, PlanTypeOK
    <2>4. BehindIsApplied'
      BY <2>1, <2>2, <2>3 DEF BehindIsApplied
    <2> QED
      BY <1>w, <2>2, <2>4 DEF ApplyInv
  <1>8. ASSUME NEW d \in Deciders, Approve(d) PROVE ApplyInv'
    <2>1. \A i \in DOMAIN operations[held[d]] : Effected(held[d], i)
      <3>1. held[d] \in Plans /\ at[d] \in Nat \ {0} /\ pc[d] = "apply"
        BY <1>8 DEF Approve, TypeInv, PlanTypeOK
      <3>2. DOMAIN operations[held[d]] = 1..Len(operations[held[d]]) /\ Len(operations[held[d]]) \in Nat
        BY <3>1 DEF TypeInv, PlanTypeOK
      <3>3. \A i \in DOMAIN operations[held[d]] : i < at[d]
        BY <1>8, <3>1, <3>2 DEF Approve
      <3> QED
        BY <3>1, <3>3 DEF ApplyInv, BehindIsApplied
    <2>2. \A p \in Plans : plan'[p] = "approved" => plan[p] = "approved" \/ p = held[d]
      BY <1>8 DEF Approve, TypeInv, PlanTypeOK
    <2>3. UNCHANGED <<status, operations, applied>>
      BY <1>8 DEF Approve, taskVars
    <2>4. ApprovedIsApplied'
      BY <2>1, <2>2, <2>3 DEF ApplyInv, ApprovedIsApplied, Effected, Exists
    <2>5. \A e \in Deciders : pc'[e] # "idle" =>
              pc[e] # "idle" /\ held'[e] = held[e] /\ at'[e] = at[e]
      BY <1>8 DEF Approve, LeavePlan, TypeInv, PlanTypeOK
    <2>6. BehindIsApplied'
      BY <2>3, <2>5 DEF ApplyInv, BehindIsApplied, Effected, Exists
    <2> QED
      BY <1>w, <2>4, <2>6 DEF ApplyInv
  <1>10. ASSUME NEW d \in Deciders, MissTask(d) PROVE ApplyInv'
    <2>1. /\ pc[d] = "apply" /\ at[d] \in DOMAIN operations[held[d]] /\ held[d] \in Plans
          /\ at' = [at EXCEPT ![d] = @ + 1] /\ at \in [Deciders -> Nat \ {0}]
          /\ UNCHANGED <<plan, operations, applied, pc, held, status>>
      BY <1>10 DEF MissTask, NextOp, TypeInv, PlanTypeOK, planVars, taskVars
    <2>2. Effected(held[d], at[d])
      BY <1>10 DEF MissTask, NextOp, Operation, Effected
    <2>3. ApprovedIsApplied'
      BY <2>1 DEF ApplyInv, ApprovedIsApplied, Effected, Exists
    <2>4. ASSUME NEW e \in Deciders, NEW p \in Plans, pc[e] # "idle", held[e] = p,
                 NEW i \in DOMAIN operations[p], i < at'[e]
          PROVE  Effected(p, i)
      <3>1. i \in Nat
        BY <2>4 DEF TypeInv, PlanTypeOK
      <3>2. i < at[e] \/ (e = d /\ i = at[e])
        BY <2>1, <2>4, <3>1
      <3> QED
        BY <2>2, <2>4, <3>2 DEF ApplyInv, BehindIsApplied
    <2>5. BehindIsApplied'
      BY <2>1, <2>4 DEF BehindIsApplied, Effected, Exists
    <2> QED
      BY <1>w, <2>3, <2>5 DEF ApplyInv
  <1>9. CASE UNCHANGED vars
    BY <1>9, IdleApplied DEF vars, planVars, deciderVars
  <1> QED
    BY <1>1, <1>2, <1>3, <1>4, <1>5, <1>6, <1>7, <1>8, <1>9, <1>10 DEF Plan, Decide, DecideFails

(* A plan says approved only after every one of its operations took effect,
   in order, but for the updates of tasks that no row holds: however approvals
   overlap and whatever raises in between. *)
THEOREM ApprovedPlansApplied == PlanSpec => []ApprovedIsApplied
  <1>1. ApplyInv => ApprovedIsApplied
    BY DEF ApplyInv
  <1> QED
    BY TypeInit, TypeStep, ApplyInit, ApplyStep, <1>1, PTL DEF PlanSpec

-----------------------------------------------------------------------------
(* A settled plan that nobody holds is never taken up again: deciders take
   only pending plans, and only a decider that holds a plan writes it. *)
THEOREM SettledRest == PlanSpec => SettledPlansRest
  <1>1. ASSUME TypeInv, [Plan]_vars, NEW p \in Plans, AtRest(p)
        PROVE  AtRest(p)' /\ plan'[p] = plan[p] /\ applied'[p] = applied[p]
    <2>1. p # NoPlan
      BY PlanAssumption
    <2>2. ASSUME NEW u \in Units, Learn(u) PROVE UNCHANGED <<plan, applied, held>>
      BY <2>2 DEF Learn, planVars, deciderVars
    <2>3. ASSUME NEW q \in AgentPlans, NEW ops \in Proposals, Propose(q, ops)
          PROVE  plan'[p] = plan[p] /\ applied'[p] = applied[p] /\ UNCHANGED held
      <3>1. p # q
        BY <1>1, <2>3 DEF Propose, AtRest
      <3> QED
        BY <1>1, <2>3, <3>1 DEF Propose, deciderVars, TypeInv, PlanTypeOK
    <2>4. ASSUME NEW d \in Deciders, Decide(d) \/ DecideFails(d)
          PROVE  /\ plan'[p] = plan[p] /\ applied'[p] = applied[p]
                 /\ \A e \in Deciders : held'[e] # p
      <3>1. held[d] # p
        BY <1>1 DEF AtRest
      <3>2. ASSUME ReadPending(d)
            PROVE  UNCHANGED <<plan, applied>> /\ \A e \in Deciders : held'[e] # p
        BY <1>1, <3>2 DEF ReadPending, AtRest, planVars, TypeInv, PlanTypeOK
      <3>3. ASSUME ~ReadPending(d)
            PROVE  UNCHANGED held \/ LeavePlan(d)
        BY <2>4, <3>3 DEF Decide, DecideFails, ReadTask, MissTask, WriteTask, CreateTask, AddMemory,
                          Approve, Reject, ApplyRaises, MemoryRaises, Crash
      <3>4. ASSUME ~ReadPending(d)
            PROVE  plan'[p] = plan[p] /\ applied'[p] = applied[p]
        BY <1>1, <2>4, <3>1, <3>4 DEF Decide, DecideFails, ReadTask, MissTask, WriteTask, CreateTask,
              AddMemory, Approve, Reject, ApplyRaises, MemoryRaises, Crash, Advance,
              planVars, TypeInv, PlanTypeOK
      <3>5. ASSUME ~ReadPending(d)
            PROVE  \A e \in Deciders : held'[e] # p
        BY <1>1, <2>1, <3>3, <3>5 DEF LeavePlan, AtRest, TypeInv, PlanTypeOK
      <3> QED
        BY <3>2, <3>4, <3>5
    <2>5. CASE UNCHANGED vars
      BY <1>1, <2>5 DEF AtRest, vars, planVars, deciderVars
    <2> QED
      BY <1>1, <2>2, <2>3, <2>4, <2>5 DEF Plan, AtRest
  <1>2. TypeInv /\ [Plan]_vars =>
            [\A p \in Plans : AtRest(p) =>
                AtRest(p)' /\ plan'[p] = plan[p] /\ applied'[p] = applied[p]]_vars
    BY <1>1
  <1> QED
    BY TypeInit, TypeStep, <1>2, PTL DEF PlanSpec, SettledPlansRest

-----------------------------------------------------------------------------
(***************************************************************************)
(* No plan closes a circle of dependencies: a task is created after those  *)
(* it waits for, and no operation changes what an existing task waits for. *)
(***************************************************************************)
NoCircle == \A W \in SUBSET Tasks : W # {} => \E t \in W : dependsOn[t] \cap W = {}

\* A plan that was not proposed holds no operations.
OnFile == \A p \in Plans : plan[p] = "absent" => operations[p] = <<>>

NamedInPlan(t) == \E p \in Plans : \E i \in DOMAIN operations[p] : t \in Named(operations[p][i])

\* What is waited for exists, or never will.
DependenciesKnown == \A t \in Tasks : \A u \in dependsOn[t] : Exists(u) \/ NamedInPlan(u)

GraphInv == NoCircle /\ DependenciesKnown /\ OnFile /\ WritesExisting

LEMMA GraphInit == Init => GraphInv
  <1> SUFFICES ASSUME Init PROVE GraphInv
    OBVIOUS
  <1>1. \A t \in Tasks : dependsOn[t] = IF t \in Seeded THEN DependsOn[t] ELSE {}
    BY DEF Init
  <1>2. \A t \in Seeded : DependsOn[t] \subseteq Seeded
    BY PlanAssumption
  <1>3. ASSUME NEW W \in SUBSET Tasks, W # {}
        PROVE  \E t \in W : dependsOn[t] \cap W = {}
    <2>1. CASE W \cap Seeded = {}
      BY <1>1, <1>3, <2>1
    <2>2. CASE W \cap Seeded # {}
      <3>1. PICK t \in W \cap Seeded : DependsOn[t] \cap (W \cap Seeded) = {}
        BY <2>2, PlanAssumption
      <3> QED
        BY <1>1, <1>2, <3>1
    <2> QED
      BY <2>1, <2>2
  <1>4. NoCircle
    BY <1>3 DEF NoCircle
  <1>5. DependenciesKnown
    BY <1>1, <1>2, PlanAssumption DEF Init, DependenciesKnown, Exists
  <1>6. WritesExisting /\ OnFile
    BY DEF Init, WritesExisting, OnFile
  <1> QED
    BY <1>4, <1>5, <1>6 DEF GraphInv

(* Plans on file keep their operations. *)
LEMMA NamedStays ==
    ASSUME TypeInv, OnFile, [Plan]_vars, NEW t, NamedInPlan(t)
    PROVE  NamedInPlan(t)'
  <1>1. PICK p \in Plans : \E i \in DOMAIN operations[p] : t \in Named(operations[p][i])
    BY DEF NamedInPlan
  <1>2. ASSUME UNCHANGED operations PROVE NamedInPlan(t)'
    BY <1>1, <1>2 DEF NamedInPlan
  <1>3. ASSUME NEW q \in AgentPlans, NEW ops \in Proposals, Propose(q, ops) PROVE NamedInPlan(t)'
    <2>1. p # q
      BY <1>1, <1>3 DEF Propose, OnFile
    <2>2. operations'[p] = operations[p]
      BY <1>3, <2>1 DEF Propose, TypeInv, PlanTypeOK
    <2> QED
      BY <1>1, <2>2 DEF NamedInPlan
  <1>4. ASSUME NEW d \in Deciders, Decide(d) \/ DecideFails(d) PROVE UNCHANGED operations
    BY <1>4 DEF Decide, DecideFails, ReadPending, ReadTask, MissTask, WriteTask, CreateTask,
                AddMemory, Approve, Reject, ApplyRaises, MemoryRaises, Crash, planVars
  <1>5. ASSUME NEW u \in Units, Learn(u) PROVE UNCHANGED operations
    BY <1>5 DEF Learn, planVars
  <1>6. CASE UNCHANGED vars
    BY <1>2, <1>6 DEF vars, planVars
  <1> QED
    BY <1>2, <1>3, <1>4, <1>5, <1>6 DEF Plan

LEMMA OnFileStep == TypeInv /\ OnFile /\ [Plan]_vars => OnFile'
  <1> SUFFICES ASSUME TypeInv, OnFile, [Plan]_vars PROVE OnFile'
    OBVIOUS
  <1>1. ASSUME NEW q \in AgentPlans, NEW ops \in Proposals, Propose(q, ops) PROVE OnFile'
    BY <1>1 DEF Propose, OnFile, TypeInv, PlanTypeOK
  <1>2. ASSUME NEW d \in Deciders, Decide(d) \/ DecideFails(d) PROVE OnFile'
    <2>1. UNCHANGED operations /\ \A p \in Plans : plan'[p] = "absent" => plan[p] = "absent"
      BY <1>2 DEF Decide, DecideFails, ReadPending, ReadTask, MissTask, WriteTask, CreateTask,
                  AddMemory, Approve, Reject, ApplyRaises, MemoryRaises, Crash, planVars,
                  TypeInv, PlanTypeOK
    <2> QED
      BY <2>1 DEF OnFile
  <1>3. ASSUME NEW u \in Units, Learn(u) PROVE OnFile'
    BY <1>3 DEF Learn, planVars, OnFile
  <1>4. CASE UNCHANGED vars
    BY <1>4 DEF vars, planVars, OnFile
  <1> QED
    BY <1>1, <1>2, <1>3, <1>4 DEF Plan

(* Only create_task adds a dependency, and none leads to the new task. *)
LEMMA CircleStep == TypeInv /\ GraphInv /\ [Plan]_vars => NoCircle' /\ DependenciesKnown'
  <1> SUFFICES ASSUME TypeInv, GraphInv, [Plan]_vars PROVE NoCircle' /\ DependenciesKnown'
    OBVIOUS
  <1>0. /\ \A t \in Tasks : Exists(t) => Exists(t)'
        /\ \A t : NamedInPlan(t) => NamedInPlan(t)'
        /\ \A t \in Tasks : dependsOn[t] \subseteq Tasks
    BY TasksStay, NamedStays DEF GraphInv, TypeInv, PlanTypeOK
  <1>1. ASSUME UNCHANGED dependsOn PROVE NoCircle' /\ DependenciesKnown'
    BY <1>0, <1>1 DEF GraphInv, NoCircle, DependenciesKnown
  <1>2. ASSUME NEW d \in Deciders, CreateTask(d) PROVE NoCircle' /\ DependenciesKnown'
    <2> DEFINE new == Operation(d).depends
    <2>1. /\ held[d] \in Plans /\ new \in SUBSET Tasks
          /\ at[d] \in DOMAIN operations[held[d]] /\ Operation(d).op = "create_task"
      BY <1>2, AtOperation, OperationFields DEF CreateTask, NextOp
    <2>2. \A u \in new : NamedInPlan(u)
      BY <2>1 DEF NamedInPlan, Named, Operation
    <2>3. PICK t \in Tasks : Fresh(t) /\ dependsOn' = [dependsOn EXCEPT ![t] = new]
      BY <1>2 DEF CreateTask
    <2>f. ~Exists(t) /\ ~NamedInPlan(t)
      BY <2>3 DEF Fresh, NamedInPlan
    <2> HIDE DEF new
    <2>4. /\ dependsOn'[t] = new
          /\ \A u \in Tasks \ {t} : dependsOn'[u] = dependsOn[u]
      BY <2>3 DEF TypeInv, PlanTypeOK
    <2>5. \A u \in Tasks : t \notin dependsOn'[u]
      BY <2>2, <2>f, <2>4 DEF GraphInv, DependenciesKnown
    <2>6. ASSUME NEW W \in SUBSET Tasks, W # {}
          PROVE  \E u \in W : dependsOn'[u] \cap W = {}
      <3>1. CASE W \ {t} = {}
        BY <2>5, <2>6, <3>1
      <3>2. CASE W \ {t} # {}
        <4>1. PICK u \in W \ {t} : dependsOn[u] \cap (W \ {t}) = {}
          BY <3>2 DEF GraphInv, NoCircle
        <4> QED
          BY <2>4, <2>5, <4>1
      <3> QED
        BY <3>1, <3>2
    <2>7. DependenciesKnown'
      BY <1>0, <2>1, <2>2, <2>4 DEF GraphInv, DependenciesKnown
    <2> QED
      BY <2>6, <2>7 DEF NoCircle
  <1>3. ASSUME NEW d \in Deciders, Decide(d) \/ DecideFails(d), ~CreateTask(d)
        PROVE  UNCHANGED dependsOn
    BY <1>3 DEF Decide, DecideFails, ReadPending, ReadTask, MissTask, WriteTask, AddMemory,
                Approve, Reject, ApplyRaises, MemoryRaises, Crash, taskVars
  <1>4. ASSUME NEW u \in Units, Learn(u) PROVE UNCHANGED dependsOn
    BY <1>4 DEF Learn, taskVars
  <1>5. ASSUME NEW p \in AgentPlans, NEW ops \in Proposals, Propose(p, ops) PROVE UNCHANGED dependsOn
    BY <1>5 DEF Propose, taskVars
  <1>6. CASE UNCHANGED vars
    BY <1>1, <1>6 DEF vars, taskVars
  <1> QED
    BY <1>1, <1>2, <1>3, <1>4, <1>5, <1>6 DEF Plan

(***************************************************************************)
(* Among the members of W that others in W wait for, one waits for none of *)
(* them; whatever is open and holds it up would be in W and waited for.    *)
(***************************************************************************)
LEMMA StallHasRoot ==
    ASSUME TypeInv, NoCircle PROVE StallIsExplained
  <1> SUFFICES ASSUME NEW W \in SUBSET {t \in Tasks : status[t] \in OPEN_TASK_STATUSES},
                      \E t \in W : Waiting(t),
                      \A t \in W : \A u \in dependsOn[t] : status[u] \in OPEN_TASK_STATUSES => u \in W
               PROVE  \E b \in W : b \in Blockers \/ (Kind[b] \in {"step", "goal"} /\ ~Waiting(b))
    BY DEF StallIsExplained
  <1> DEFINE D == {u \in W : \E t \in W : u \in dependsOn[t]}
  <1>1. D # {} /\ D \in SUBSET Tasks
    BY DEF Waiting
  <1>2. PICK b \in D : dependsOn[b] \cap D = {}
    BY <1>1 DEF NoCircle
  <1>3. \A u \in dependsOn[b] : status[u] \notin OPEN_TASK_STATUSES
    BY <1>2
  <1>4. b \in W /\ b \in Tasks /\ ~Waiting(b)
    BY <1>2, <1>3 DEF Waiting
  <1>5. Unmet(b) = {}
    BY <1>3, <1>4 DEF Unmet, Exists, TypeInv, PlanTypeOK, TASK_STATUSES
  <1>6. /\ Exists(b) /\ status[b] \notin {"done", "cancelled"}
        /\ Dependents(b) # {}
    BY <1>2, <1>4 DEF Exists, Dependents, OPEN_TASK_STATUSES
  <1> QED
    BY <1>4, <1>5, <1>6 DEF Blockers

(* Whatever plans are approved, unfinished work that waits has a task that
   find_blockers reports, or a step or goal that is ready to run. *)
THEOREM StallsExplained == PlanSpec => []StallIsExplained
  <1>1. TypeInv /\ GraphInv /\ [Plan]_vars => GraphInv'
    BY WritesStep, CircleStep, OnFileStep DEF GraphInv
  <1>2. TypeInv /\ GraphInv => StallIsExplained
    BY StallHasRoot DEF GraphInv
  <1> QED
    BY TypeInit, TypeStep, GraphInit, <1>1, <1>2, PTL DEF PlanSpec

-----------------------------------------------------------------------------
(* Only the write of the decider's own operation ends its "write" step by
   going on, and it fills what the operation leaves blank from the row read. *)
THEOREM KeepsFields == PlanSpec => FieldsKept
  <1>1. ASSUME TypeInv, [Plan]_vars, NEW d \in Deciders, pc[d] = "write", pc'[d] = "apply",
               seen[d].status = status[Operation(d).task], seen[d].owner = owner[Operation(d).task]
        PROVE  LET o == Operation(d)
                   t == o.task
               IN /\ o.status = Blank => status'[t] = status[t]
                  /\ o.owner = Blank => owner'[t] = owner[t]
    <2>1. WriteTask(d)
      <3>1. ASSUME NEW e \in Deciders, Decide(e) \/ DecideFails(e) PROVE WriteTask(d)
        <4>1. e = d
          BY <1>1, <3>1 DEF Decide, DecideFails, ReadPending, ReadTask, MissTask, WriteTask, CreateTask,
                AddMemory, Approve, Reject, ApplyRaises, MemoryRaises, Crash, LeavePlan,
                TypeInv, PlanTypeOK
        <4> QED
          BY <1>1, <3>1, <4>1 DEF Decide, DecideFails, ReadPending, ReadTask, MissTask, CreateTask,
                AddMemory, Approve, Reject, ApplyRaises, MemoryRaises, Crash, LeavePlan, NextOp,
                TypeInv, PlanTypeOK
      <3>2. ASSUME NEW u \in Units, Learn(u) PROVE FALSE
        BY <1>1, <3>2 DEF Learn, deciderVars
      <3>3. ASSUME NEW p \in AgentPlans, NEW ops \in Proposals, Propose(p, ops) PROVE FALSE
        BY <1>1, <3>3 DEF Propose, deciderVars
      <3>4. CASE UNCHANGED vars
        BY <1>1, <3>4 DEF vars, deciderVars
      <3> QED
        BY <1>1, <3>1, <3>2, <3>3, <3>4 DEF Plan
    <2>2. Operation(d).task \in Tasks
      BY <1>1, AtOperation, OperationFields DEF TypeInv, Deciding
    <2> QED
      BY <1>1, <2>1, <2>2 DEF WriteTask, Filled, TypeInv, PlanTypeOK
  <1>2. TypeInv /\ [Plan]_vars =>
            [\A d \in Deciders :
                pc[d] = "write" /\ pc'[d] = "apply" =>
                    LET o == Operation(d)
                        t == o.task
                    IN seen[d].status = status[t] /\ seen[d].owner = owner[t] =>
                        /\ o.status = Blank => status'[t] = status[t]
                        /\ o.owner = Blank => owner'[t] = owner[t]]_vars
    BY <1>1
  <1> QED
    BY TypeInit, TypeStep, <1>2, PTL DEF PlanSpec, FieldsKept
-----------------------------------------------------------------------------
(***************************************************************************)
(* Standing watches over the plans, for any watches and any number of      *)
(* overlapping runs.                                                       *)
(***************************************************************************)
Triples == Watches \X Fingerprints \X Plans

\* A run between its INSERT of a new conflict and the link to its plan.
Filing(r) == rpc[r] \in {"draft", "link"}

WatchTypeOK ==
    /\ findings \in [Watches -> SUBSET Fingerprints]
    /\ planOf \subseteq Triples
    /\ drafts \subseteq Triples
    /\ rpc \in [Runners -> {"idle", "conflicts", "record", "draft", "link"}]
    /\ watch \in [Runners -> Watches \cup {NoWatch}]
    /\ found \in [Runners -> SUBSET Fingerprints]
    /\ filing \in [Runners -> Fingerprints \cup {NoFinding}]
    /\ draft \in [Runners -> Plans \cup {NoPlan}]
    /\ \A r \in Runners :
        /\ rpc[r] # "idle" => watch[r] \in Watches
        /\ Filing(r) => filing[r] \in Fingerprints /\ filing[r].kind = "conflict"
        /\ rpc[r] = "link" => draft[r] \in Plans

\* What the checks find has a fingerprint.
LEMMA FoundTyped ==
    ASSUME PlanTypeOK
    PROVE  /\ BlockerFindings \in SUBSET Fingerprints
           /\ \A C \in ConflictFindings : C \in SUBSET Fingerprints
  <1>1. BlockerFindings \in SUBSET Fingerprints
    BY DEF PlanTypeOK, BlockerFindings, Blockers, Exists, Fingerprints
  <1>2. ASSUME NEW C \in ConflictFindings PROVE C \in SUBSET Fingerprints
    <2> DEFINE T == {t \in Tasks : Conflicts(t) # {}}
    <2>1. PICK f \in [T -> Units] :
            C = {[kind |-> "conflict", task |-> t, of |-> f[t]] : t \in T}
      BY <1>2 DEF ConflictFindings
    <2>2. \A t \in T : t \in Tasks /\ f[t] \in Units
      BY <2>1
    <2> HIDE DEF T
    <2> QED BY <2>1, <2>2 DEF Fingerprints
  <1> QED BY <1>1, <1>2

LEMMA ResolutionTyped ==
    ASSUME NEW f \in Fingerprints, f.kind = "conflict"
    PROVE  <<Resolution(f.task, f.of)>> \in Seq(Operations)
  <1>1. f.task \in Tasks /\ f.of \in Units
    BY DEF Fingerprints
  <1>2. Resolution(f.task, f.of) \in Operations
    BY <1>1 DEF Resolution, Operations, TASK_STATUSES
  <1> QED BY <1>2

LEMMA WatchTypeInit == WatchInit => TypeInv /\ WatchTypeOK
  <1> SUFFICES ASSUME WatchInit PROVE TypeInv /\ WatchTypeOK
    OBVIOUS
  <1>1. TypeInv
    BY TypeInit DEF WatchInit
  <1> QED BY <1>1 DEF WatchInit, WatchTypeOK, Filing

\* What a step of people and agents is to the runs.
PlanAside == Plan /\ UNCHANGED <<findingVars, runnerVars>>

\* A failing run counts an error and leaves tasks, plans and memories alone.
LEMMA ErrorTyped ==
    ASSUME TypeInv, errors' = errors + 1,
           UNCHANGED <<taskVars, memoryVars, planVars, deciderVars>>
    PROVE  TypeInv'
  BY DEF TypeInv, PlanTypeOK, Deciding, Operation, taskVars, memoryVars, planVars, deciderVars

LEMMA UnchangedTyped == ASSUME TypeInv, UNCHANGED vars PROVE TypeInv'
  BY TypeStep

LEMMA WatchTypeStep == TypeInv /\ WatchTypeOK /\ [WatchNext]_allVars => TypeInv' /\ WatchTypeOK'
  <1> SUFFICES ASSUME TypeInv, WatchTypeOK, [WatchNext]_allVars PROVE TypeInv' /\ WatchTypeOK'
    OBVIOUS
  <1> DEFINE Goal == TypeInv' /\ WatchTypeOK'
  <1> USE DEF WatchTypeOK, Filing
  <1>1. ASSUME PlanAside PROVE Goal
    BY <1>1, TypeStep DEF PlanAside, findingVars, runnerVars
  <1>2. ASSUME NEW r \in Runners, CheckBlockers(r) PROVE Goal
    <2>1. BlockerFindings \in SUBSET Fingerprints
      BY FoundTyped DEF TypeInv
    <2> QED BY <1>2, <2>1, UnchangedTyped DEF CheckBlockers, findingVars
  <1>3. ASSUME NEW r \in Runners, CheckConflicts(r) PROVE Goal
    <2> PICK C \in ConflictFindings : found' = [found EXCEPT ![r] = @ \cup C]
      BY <1>3 DEF CheckConflicts
    <2>1. C \in SUBSET Fingerprints
      BY FoundTyped DEF TypeInv
    <2> QED BY <1>3, <2>1, UnchangedTyped DEF CheckConflicts, findingVars
  <1>4. ASSUME NEW r \in Runners, CheckRaises(r) PROVE Goal
    <2>1. TypeInv'
      BY <1>4, ErrorTyped DEF CheckRaises
    <2> QED BY <1>4, <2>1 DEF CheckRaises, findingVars
  <1>5. ASSUME NEW r \in Runners, Record(r) PROVE Goal
    <2> PICK f \in found[r] :
            /\ found' = [found EXCEPT ![r] = @ \ {f}]
            /\ findings' = [findings EXCEPT ![watch[r]] = @ \cup {f}]
            /\ IF f \notin findings[watch[r]] /\ f.kind = "conflict"
               THEN /\ filing' = [filing EXCEPT ![r] = f]
                    /\ rpc' = [rpc EXCEPT ![r] = "draft"]
               ELSE UNCHANGED <<filing, rpc>>
      BY <1>5 DEF Record
    <2>1. f \in Fingerprints /\ rpc[r] = "record" /\ UNCHANGED <<vars, planOf, drafts, watch, draft>>
      BY <1>5 DEF Record
    <2>2. WatchTypeOK'
      <3>1. CASE f \notin findings[watch[r]] /\ f.kind = "conflict"
        BY <2>1, <3>1
      <3>2. CASE ~(f \notin findings[watch[r]] /\ f.kind = "conflict")
        BY <2>1, <3>2
      <3> QED BY <3>1, <3>2
    <2> QED BY <2>1, <2>2, UnchangedTyped
  <1>6. ASSUME NEW r \in Runners, DraftPlan(r) PROVE Goal
    <2> PICK p \in Plans \ AgentPlans :
            /\ Propose(p, <<Resolution(filing[r].task, filing[r].of)>>)
            /\ draft' = [draft EXCEPT ![r] = p]
            /\ drafts' = drafts \cup {<<watch[r], filing[r], p>>}
      BY <1>6 DEF DraftPlan
    <2>1. /\ filing[r] \in Fingerprints /\ filing[r].kind = "conflict" /\ watch[r] \in Watches
          /\ rpc' = [rpc EXCEPT ![r] = "link"]
          /\ UNCHANGED <<findings, planOf, watch, found, filing>>
      BY <1>6 DEF DraftPlan
    <2>2. TypeInv'
      BY <2>1, ProposeTyped, ResolutionTyped
    <2> QED BY <2>1, <2>2 DEF Triples
  <1>7. ASSUME NEW r \in Runners, DraftFails(r) PROVE Goal
    <2>1. TypeInv'
      BY <1>7, ErrorTyped DEF DraftFails
    <2> QED BY <1>7, <2>1 DEF DraftFails, findingVars
  <1>8. ASSUME NEW r \in Runners, LinkPlan(r) PROVE Goal
    <2>1. watch[r] \in Watches /\ filing[r] \in Fingerprints /\ draft[r] \in Plans
      BY <1>8 DEF LinkPlan
    <2> QED BY <1>8, <2>1, UnchangedTyped DEF LinkPlan, Triples
  <1>9. ASSUME NEW r \in Runners, EndRun(r) PROVE Goal
    BY <1>9, UnchangedTyped DEF EndRun, LeaveRun, findingVars
  <1>10. ASSUME NEW r \in Runners, RunCrash(r) PROVE Goal
    <2>1. TypeInv'
      BY <1>10, ErrorTyped DEF RunCrash
    <2> QED BY <1>10, <2>1 DEF RunCrash, LeaveRun, findingVars
  <1>11. ASSUME UNCHANGED allVars PROVE Goal
    BY <1>11, UnchangedTyped DEF allVars, findingVars, runnerVars
  <1> HIDE DEF WatchTypeOK, Filing
  <1> QED
    BY <1>1, <1>2, <1>3, <1>4, <1>5, <1>6, <1>7, <1>8, <1>9, <1>10, <1>11
    DEF WatchNext, RunWatch, RunFails, PlanAside

LEMMA WatchTyped == WatchSpec => [](TypeInv /\ WatchTypeOK)
  BY WatchTypeInit, WatchTypeStep, PTL DEF WatchSpec

(***************************************************************************)
(* Who files what: the finding a run drafts for is on file and is nobody   *)
(* else's, and it has no draft before that run makes one.                  *)
(***************************************************************************)
FilingInv ==
    /\ \A r \in Runners : Filing(r) => filing[r] \in findings[watch[r]]
    /\ \A q, r \in Runners :
          Filing(q) /\ Filing(r) /\ q # r /\ watch[q] = watch[r] => filing[q] # filing[r]
    /\ \A x \in drafts : x[2] \in findings[x[1]]
    /\ \A r \in Runners : rpc[r] = "draft" =>
          \A x \in drafts : ~(x[1] = watch[r] /\ x[2] = filing[r])
    /\ \A x, y \in drafts : x[1] = y[1] /\ x[2] = y[2] => x[3] = y[3]

LEMMA FilingInit == WatchInit => FilingInv
  BY DEF WatchInit, FilingInv, Filing

LEMMA FilingStep == WatchTypeOK /\ FilingInv /\ [WatchNext]_allVars => FilingInv'
  <1> SUFFICES ASSUME WatchTypeOK, FilingInv, [WatchNext]_allVars PROVE FilingInv'
    OBVIOUS
  <1>t. /\ findings \in [Watches -> SUBSET Fingerprints]
        /\ drafts \subseteq Triples
        /\ rpc \in [Runners -> {"idle", "conflicts", "record", "draft", "link"}]
        /\ watch \in [Runners -> Watches \cup {NoWatch}]
        /\ filing \in [Runners -> Fingerprints \cup {NoFinding}]
        /\ \A r \in Runners : rpc[r] # "idle" => watch[r] \in Watches
    BY DEF WatchTypeOK
  <1> USE DEF FilingInv, Filing, Triples
  <1>1. ASSUME UNCHANGED <<findingVars, runnerVars>> PROVE FilingInv'
    BY <1>1 DEF findingVars, runnerVars
  <1>2. ASSUME NEW r \in Runners, CheckBlockers(r) \/ CheckConflicts(r) \/ CheckRaises(r)
        PROVE  FilingInv'
    <2>1. /\ ~Filing(r) /\ ~Filing(r)' /\ UNCHANGED <<findings, drafts, filing>>
          /\ \A q \in Runners \ {r} : rpc'[q] = rpc[q] /\ watch'[q] = watch[q]
      BY <1>2, <1>t DEF CheckBlockers, CheckConflicts, CheckRaises, findingVars
    <2> QED BY <2>1
  <1>3. ASSUME NEW r \in Runners, Record(r) PROVE FilingInv'
    <2> PICK f \in found[r] :
            /\ findings' = [findings EXCEPT ![watch[r]] = @ \cup {f}]
            /\ IF f \notin findings[watch[r]] /\ f.kind = "conflict"
               THEN /\ filing' = [filing EXCEPT ![r] = f]
                    /\ rpc' = [rpc EXCEPT ![r] = "draft"]
               ELSE UNCHANGED <<filing, rpc>>
      BY <1>3 DEF Record
    <2>1. rpc[r] = "record" /\ watch[r] \in Watches /\ UNCHANGED <<drafts, watch>>
      BY <1>3, <1>t DEF Record
    <2>2. /\ f \in findings'[watch[r]]
          /\ \A w \in Watches : findings[w] \subseteq findings'[w]
      BY <2>1, <1>t
    <2>3. CASE f \notin findings[watch[r]] /\ f.kind = "conflict"
      <3>1. /\ filing'[r] = f /\ rpc'[r] = "draft"
            /\ \A q \in Runners \ {r} : filing'[q] = filing[q] /\ rpc'[q] = rpc[q]
        BY <2>3, <1>t
      <3>2. \A q \in Runners \ {r} : Filing(q) /\ watch[q] = watch[r] => filing[q] # f
        BY <2>3
      <3>3. \A x \in drafts : ~(x[1] = watch[r] /\ x[2] = f)
        BY <2>3
      <3> QED BY <2>1, <2>2, <3>1, <3>2, <3>3, <1>t
    <2>4. CASE ~(f \notin findings[watch[r]] /\ f.kind = "conflict")
      BY <2>1, <2>2, <2>4, <1>t
    <2> QED BY <2>3, <2>4
  <1>4. ASSUME NEW r \in Runners, DraftPlan(r) PROVE FilingInv'
    <2> PICK p \in Plans : drafts' = drafts \cup {<<watch[r], filing[r], p>>}
      BY <1>4 DEF DraftPlan
    <2>1. /\ rpc[r] = "draft" /\ rpc' = [rpc EXCEPT ![r] = "link"]
          /\ UNCHANGED <<findings, watch, filing>>
      BY <1>4 DEF DraftPlan
    <2>2. \A x \in drafts : ~(x[1] = watch[r] /\ x[2] = filing[r])
      BY <2>1
    <2>3. \A q \in Runners : rpc'[q] = "draft" =>
              q # r /\ rpc[q] = "draft" /\ ~(watch[q] = watch[r] /\ filing[q] = filing[r])
      BY <2>1, <1>t
    <2>4. \A q \in Runners : Filing(q)' <=> Filing(q)
      BY <2>1, <1>t
    <2>5. filing[r] \in findings[watch[r]]
      BY <2>1
    <2> QED BY <2>1, <2>2, <2>3, <2>4, <2>5
  <1>5. ASSUME NEW r \in Runners, DraftFails(r) \/ LinkPlan(r) \/ EndRun(r) \/ RunCrash(r)
        PROVE  FilingInv'
    <2>1. /\ ~Filing(r)' /\ UNCHANGED <<findings, drafts>>
          /\ \A q \in Runners \ {r} :
                rpc'[q] = rpc[q] /\ watch'[q] = watch[q] /\ filing'[q] = filing[q]
      BY <1>5, <1>t DEF DraftFails, LinkPlan, EndRun, RunCrash, LeaveRun, findingVars
    <2> QED BY <2>1
  <1> HIDE DEF FilingInv, Filing
  <1> QED
    BY <1>1, <1>2, <1>3, <1>4, <1>5 DEF WatchNext, RunWatch, RunFails, allVars

(***************************************************************************)
(* Runs of one watch may overlap as they like: a finding gets one plan.    *)
(***************************************************************************)
THEOREM OnePlanEach == WatchSpec => []OnePlanPerFinding
  <1>1. FilingInv => OnePlanPerFinding
    BY DEF FilingInv, OnePlanPerFinding
  <1> QED
    BY <1>1, FilingInit, FilingStep, WatchTyped, PTL DEF WatchSpec
(***************************************************************************)
(* Until an error strikes, a conflict on file is being worked on or names  *)
(* a plan that is on file and reconciles it.                               *)
(***************************************************************************)
Fixes(p, f) == plan[p] # "absent" /\ operations[p] = <<Resolution(f.task, f.of)>>

Offered(w, f) ==
    \/ \E r \in Runners : Filing(r) /\ watch[r] = w /\ filing[r] = f
    \/ \E x \in planOf : x[1] = w /\ x[2] = f /\ Fixes(x[3], f)

OfferInv ==
    /\ \A r \in Runners : rpc[r] = "link" => Fixes(draft[r], filing[r])
    /\ errors = 0 =>
        \A w \in Watches : \A f \in findings[w] : f.kind = "conflict" => Offered(w, f)

LEMMA OfferInit == WatchInit => OfferInv
  BY DEF WatchInit, OfferInv

\* The plans on file stay on file with their operations, and errors add up.
PlansKept ==
    /\ \A p \in Plans : plan[p] # "absent" =>
          plan'[p] # "absent" /\ operations'[p] = operations[p]
    /\ errors' = 0 => errors = 0

LEMMA PlanKeepsPlans ==
    ASSUME TypeInv, [Plan]_vars
    PROVE  PlansKept
  <1>t. /\ plan \in [Plans -> {"absent", "pending_approval", "approved", "denied"}]
        /\ operations \in [Plans -> Seq(Operations)]
        /\ errors \in Nat
        /\ \A d \in Deciders : pc[d] # "idle" => held[d] \in Plans
    BY DEF TypeInv, PlanTypeOK
  <1> USE DEF PlansKept
  <1>1. ASSUME NEW u \in Units, Learn(u) PROVE PlansKept
    BY <1>1 DEF Learn, planVars
  <1>2. ASSUME NEW p \in AgentPlans, NEW ops \in Proposals, Propose(p, ops) PROVE PlansKept
    BY <1>2, <1>t DEF Propose
  <1>3. ASSUME NEW d \in Deciders, ReadPending(d) \/ ReadTask(d) \/ MissTask(d) PROVE PlansKept
    BY <1>3 DEF ReadPending, ReadTask, MissTask, planVars
  <1>4. ASSUME NEW d \in Deciders, WriteTask(d) \/ CreateTask(d) \/ AddMemory(d) PROVE PlansKept
    BY <1>4 DEF WriteTask, CreateTask, AddMemory
  <1>5. ASSUME NEW d \in Deciders, Approve(d) \/ Reject(d) PROVE PlansKept
    BY <1>5, <1>t DEF Approve, Reject
  <1>6. ASSUME NEW d \in Deciders, ApplyRaises(d) \/ MemoryRaises(d) \/ Crash(d) PROVE PlansKept
    BY <1>6, <1>t DEF ApplyRaises, MemoryRaises, Crash, planVars
  <1>7. ASSUME UNCHANGED vars PROVE PlansKept
    BY <1>7 DEF vars, planVars
  <1> QED
    BY <1>1, <1>2, <1>3, <1>4, <1>5, <1>6, <1>7 DEF Plan, Decide, DecideFails

LEMMA FixesKept ==
    ASSUME PlansKept, NEW p \in Plans, NEW f, Fixes(p, f)
    PROVE  Fixes(p, f)'
  BY DEF PlansKept, Fixes

\* An offer lasts when the runs that made it keep it up.
LEMMA OfferedKept ==
    ASSUME WatchTypeOK, PlansKept, planOf \subseteq planOf', NEW w, NEW f, Offered(w, f),
           \A r \in Runners : Filing(r) /\ watch[r] = w /\ filing[r] = f => Offered(w, f)'
    PROVE  Offered(w, f)'
  <1>1. CASE \E r \in Runners : Filing(r) /\ watch[r] = w /\ filing[r] = f
    BY <1>1
  <1>2. ASSUME NEW x \in planOf, x[1] = w, x[2] = f, Fixes(x[3], f)
        PROVE  Offered(w, f)'
    <2>1. x[3] \in Plans
      BY DEF WatchTypeOK, Triples
    <2>2. Fixes(x[3], f)'
      BY <1>2, <2>1, FixesKept
    <2> QED BY <1>2, <2>2 DEF Offered
  <1> QED BY <1>1, <1>2 DEF Offered

\* A run that does not file leaves the others' offers alone.
LEMMA OthersOffer ==
    ASSUME WatchTypeOK, PlansKept, planOf \subseteq planOf', NEW r \in Runners, ~Filing(r),
           \A q \in Runners \ {r} : rpc'[q] = rpc[q] /\ watch'[q] = watch[q] /\ filing'[q] = filing[q],
           NEW w, NEW f, Offered(w, f)
    PROVE  Offered(w, f)'
  <1>1. ASSUME NEW q \in Runners, Filing(q), watch[q] = w, filing[q] = f PROVE Offered(w, f)'
    BY <1>1 DEF Offered, Filing
  <1> QED BY <1>1, OfferedKept

LEMMA OfferStep ==
    TypeInv /\ WatchTypeOK /\ OfferInv /\ [WatchNext]_allVars => OfferInv'
  <1> SUFFICES ASSUME TypeInv, WatchTypeOK, OfferInv, [WatchNext]_allVars PROVE OfferInv'
    OBVIOUS
  <1>t. /\ findings \in [Watches -> SUBSET Fingerprints]
        /\ planOf \subseteq Triples
        /\ rpc \in [Runners -> {"idle", "conflicts", "record", "draft", "link"}]
        /\ watch \in [Runners -> Watches \cup {NoWatch}]
        /\ filing \in [Runners -> Fingerprints \cup {NoFinding}]
        /\ draft \in [Runners -> Plans \cup {NoPlan}]
        /\ \A r \in Runners : rpc[r] # "idle" => watch[r] \in Watches
        /\ \A r \in Runners : rpc[r] = "link" => draft[r] \in Plans
        /\ plan \in [Plans -> {"absent", "pending_approval", "approved", "denied"}]
        /\ operations \in [Plans -> Seq(Operations)]
        /\ errors \in Nat
    BY DEF WatchTypeOK, TypeInv, PlanTypeOK
  <1> USE DEF OfferInv, Filing, Triples
  <1>1. ASSUME [Plan]_vars, UNCHANGED <<findingVars, runnerVars>> PROVE OfferInv'
    <2>1. PlansKept
      BY <1>1, PlanKeepsPlans
    <2>2. \A w, f : Offered(w, f) => Offered(w, f)'
      BY <2>1, <1>1, OfferedKept DEF findingVars, runnerVars, Offered
    <2>3. \A r \in Runners : rpc'[r] = "link" => Fixes(draft[r], filing[r])'
      BY <2>1, <1>1, <1>t DEF findingVars, runnerVars, PlansKept, Fixes
    <2> QED BY <2>1, <2>2, <2>3, <1>1 DEF findingVars, PlansKept
  <1>2. ASSUME NEW r \in Runners, CheckBlockers(r) \/ CheckConflicts(r) PROVE OfferInv'
    <2>1. /\ ~Filing(r) /\ ~Filing(r)' /\ UNCHANGED <<findings, planOf, filing, draft, plan, operations, errors>>
          /\ \A q \in Runners \ {r} : rpc'[q] = rpc[q] /\ watch'[q] = watch[q]
      BY <1>2, <1>t DEF CheckBlockers, CheckConflicts, findingVars, vars, planVars
    <2>2. PlansKept
      BY <2>1 DEF PlansKept
    <2>3. \A w, f : Offered(w, f) => Offered(w, f)'
      BY <2>1, <2>2, OthersOffer
    <2>4. \A q \in Runners : rpc'[q] = "link" => Fixes(draft[q], filing[q])'
      BY <2>1 DEF Fixes
    <2> QED BY <2>1, <2>3, <2>4
  <1>3. ASSUME NEW r \in Runners, CheckRaises(r) \/ DraftFails(r) \/ RunCrash(r) PROVE OfferInv'
    <2>1. /\ ~Filing(r)' /\ UNCHANGED <<plan, operations>> /\ errors' # 0
          /\ \A q \in Runners \ {r} : rpc'[q] = rpc[q] /\ filing'[q] = filing[q] /\ draft'[q] = draft[q]
      BY <1>3, <1>t DEF CheckRaises, DraftFails, RunCrash, LeaveRun, planVars
    <2> QED BY <2>1 DEF Fixes
  <1>4. ASSUME NEW r \in Runners, Record(r) PROVE OfferInv'
    <2> PICK f \in found[r] :
            /\ findings' = [findings EXCEPT ![watch[r]] = @ \cup {f}]
            /\ IF f \notin findings[watch[r]] /\ f.kind = "conflict"
               THEN /\ filing' = [filing EXCEPT ![r] = f]
                    /\ rpc' = [rpc EXCEPT ![r] = "draft"]
               ELSE UNCHANGED <<filing, rpc>>
      BY <1>4 DEF Record
    <2>1. /\ rpc[r] = "record" /\ watch[r] \in Watches
          /\ UNCHANGED <<planOf, watch, draft, plan, operations, errors>>
      BY <1>4, <1>t DEF Record, vars, planVars
    <2>k. PlansKept
      BY <2>1 DEF PlansKept
    <2>l. ASSUME \A q \in Runners \ {r} : filing'[q] = filing[q] /\ rpc'[q] = rpc[q]
          PROVE  \A w, f1 : Offered(w, f1) => Offered(w, f1)'
      BY <2>1, <2>k, <2>l, OthersOffer
    <2>2. CASE f \notin findings[watch[r]] /\ f.kind = "conflict"
      <3>1. /\ filing'[r] = f /\ rpc'[r] = "draft"
            /\ \A q \in Runners \ {r} : filing'[q] = filing[q] /\ rpc'[q] = rpc[q]
        BY <2>2, <1>t
      <3>2. \A w \in Watches : \A g \in findings'[w] : g \in findings[w] \/ (w = watch[r] /\ g = f)
        BY <2>1, <1>t
      <3>3. Offered(watch[r], f)'
        BY <2>1, <3>1 DEF Offered
      <3>4. \A q \in Runners : rpc'[q] = "link" => Fixes(draft[q], filing[q])'
        BY <2>1, <3>1 DEF Fixes
      <3>5. \A w, f1 : Offered(w, f1) => Offered(w, f1)'
        BY <2>l, <3>1
      <3> QED BY <2>1, <3>2, <3>3, <3>4, <3>5
    <2>3. CASE ~(f \notin findings[watch[r]] /\ f.kind = "conflict")
      <3>1. \A w \in Watches : \A g \in findings'[w] : g.kind = "conflict" => g \in findings[w]
        BY <2>1, <2>3, <1>t
      <3>2. \A w, f1 : Offered(w, f1) => Offered(w, f1)'
        BY <2>3, <2>l
      <3>3. \A q \in Runners : rpc'[q] = "link" => Fixes(draft[q], filing[q])'
        BY <2>1, <2>3 DEF Fixes
      <3> QED BY <2>1, <3>1, <3>2, <3>3
    <2> QED BY <2>2, <2>3
  <1>5. ASSUME NEW r \in Runners, DraftPlan(r) PROVE OfferInv'
    <2> PICK p \in Plans \ AgentPlans :
            /\ Propose(p, <<Resolution(filing[r].task, filing[r].of)>>)
            /\ draft' = [draft EXCEPT ![r] = p]
      BY <1>5 DEF DraftPlan
    <2>1. /\ rpc[r] = "draft" /\ rpc' = [rpc EXCEPT ![r] = "link"]
          /\ UNCHANGED <<findings, planOf, watch, filing, errors>>
          /\ draft'[r] = p /\ \A q \in Runners \ {r} : draft'[q] = draft[q]
      BY <1>5, <1>t DEF DraftPlan, Propose
    <2>2. /\ plan[p] = "absent" /\ plan'[p] # "absent"
          /\ operations'[p] = <<Resolution(filing[r].task, filing[r].of)>>
          /\ \A q \in Plans \ {p} : plan'[q] = plan[q] /\ operations'[q] = operations[q]
      BY <1>t DEF Propose
    <2>3. \A q \in Runners : rpc'[q] = "link" => Fixes(draft[q], filing[q])'
      BY <2>1, <2>2, <1>t DEF Fixes
    <2>4. PlansKept
      BY <2>1, <2>2 DEF PlansKept
    <2>5. \A q \in Runners : Filing(q)' <=> Filing(q)
      BY <2>1, <1>t
    <2>6. \A w, f : Offered(w, f) => Offered(w, f)'
      BY <2>1, <2>4, <2>5, OfferedKept DEF Offered
    <2> QED BY <2>1, <2>3, <2>6
  <1>6. ASSUME NEW r \in Runners, LinkPlan(r) PROVE OfferInv'
    <2>1. /\ planOf' = planOf \cup {<<watch[r], filing[r], draft[r]>>} /\ rpc[r] = "link"
          /\ ~Filing(r)' /\ UNCHANGED <<findings, watch, plan, operations, errors>>
          /\ \A q \in Runners \ {r} : rpc'[q] = rpc[q] /\ filing'[q] = filing[q] /\ draft'[q] = draft[q]
      BY <1>6, <1>t DEF LinkPlan, vars, planVars
    <2>2. Fixes(draft[r], filing[r])
      BY <2>1
    <2>3. PlansKept
      BY <2>1 DEF PlansKept
    <2>5. ASSUME NEW w, NEW f, Offered(w, f) PROVE Offered(w, f)'
      <3>1. ASSUME NEW q \in Runners \ {r}, Filing(q), watch[q] = w, filing[q] = f
            PROVE  Offered(w, f)'
        BY <2>1, <3>1 DEF Offered
      <3>2. ASSUME watch[r] = w, filing[r] = f PROVE Offered(w, f)'
        <4>1. Fixes(draft[r], f)
          BY <2>2, <3>2
        <4>2. <<w, f, draft[r]>> \in planOf' /\ plan' = plan /\ operations' = operations
          BY <2>1, <3>2
        <4>3. plan'[draft[r]] # "absent" /\ operations'[draft[r]] = <<Resolution(f.task, f.of)>>
          BY <4>1, <4>2 DEF Fixes
        <4> QED BY <4>2, <4>3 DEF Offered, Fixes
      <3> QED BY <2>1, <2>3, <2>5, <3>1, <3>2, OfferedKept
    <2>6. \A q \in Runners : rpc'[q] = "link" => Fixes(draft[q], filing[q])'
      BY <2>1 DEF Fixes
    <2> QED BY <2>1, <2>5, <2>6
  <1>7. ASSUME NEW r \in Runners, EndRun(r) PROVE OfferInv'
    <2>1. /\ ~Filing(r) /\ ~Filing(r)' /\ UNCHANGED <<findings, planOf, plan, operations, errors>>
          /\ \A q \in Runners \ {r} : /\ rpc'[q] = rpc[q] /\ watch'[q] = watch[q]
                                      /\ filing'[q] = filing[q] /\ draft'[q] = draft[q]
      BY <1>7, <1>t DEF EndRun, LeaveRun, findingVars, vars, planVars
    <2>2. PlansKept
      BY <2>1 DEF PlansKept
    <2>3. \A w, f : Offered(w, f) => Offered(w, f)'
      BY <2>1, <2>2, OthersOffer
    <2>4. \A q \in Runners : rpc'[q] = "link" => Fixes(draft[q], filing[q])'
      BY <2>1 DEF Fixes
    <2> QED BY <2>1, <2>3, <2>4
  <1> HIDE DEF OfferInv, Filing, Triples
  <1> QED
    BY <1>1, <1>2, <1>3, <1>4, <1>5, <1>6, <1>7 DEF WatchNext, RunWatch, RunFails, allVars

(***************************************************************************)
(* A conflict that is on file offers the plan that reconciles it, unless   *)
(* a run is just drafting it or an error has struck.                       *)
(***************************************************************************)
THEOREM ConflictsOffered == WatchSpec => []ConflictOffersFix
  <1>1. OfferInv => ConflictOffersFix
    <2> SUFFICES ASSUME OfferInv, errors = 0, NEW w \in Watches, NEW f \in findings[w], f.kind = "conflict"
                 PROVE  \/ \E r \in Runners : watch[r] = w /\ filing[r] = f
                        \/ \E x \in planOf : /\ x[1] = w /\ x[2] = f
                                             /\ operations[x[3]] = <<Resolution(f.task, f.of)>>
      BY DEF ConflictOffersFix
    <2>1. Offered(w, f)
      BY DEF OfferInv
    <2>2. CASE \E r \in Runners : Filing(r) /\ watch[r] = w /\ filing[r] = f
      BY <2>2
    <2>3. CASE \E x \in planOf : x[1] = w /\ x[2] = f /\ Fixes(x[3], f)
      BY <2>3 DEF Fixes
    <2> QED BY <2>1, <2>2, <2>3 DEF Offered
  <1> QED
    BY <1>1, OfferInit, OfferStep, WatchTyped, PTL DEF WatchSpec

-----------------------------------------------------------------------------
\* The runs leave the plans' progress to the deciders.
LEMMA WatchedApplyStep ==
    TypeInv /\ WatchTypeOK /\ ApplyInv /\ [WatchNext]_allVars => ApplyInv'
  <1> SUFFICES ASSUME TypeInv, WatchTypeOK, ApplyInv, [WatchNext]_allVars PROVE ApplyInv'
    OBVIOUS
  <1>1. ASSUME NEW r \in Runners, DraftPlan(r) PROVE ApplyInv'
    <2>1. filing[r] \in Fingerprints /\ filing[r].kind = "conflict"
      BY <1>1 DEF DraftPlan, WatchTypeOK, Filing
    <2> QED BY <1>1, <2>1, ProposeApplied, ResolutionTyped DEF DraftPlan
  <1>2. ASSUME NEW r \in Runners, RunWatch(r) \/ RunFails(r), ~DraftPlan(r)
        PROVE  UNCHANGED <<taskVars, planVars, deciderVars>>
    BY <1>2
    DEF RunWatch, RunFails, CheckBlockers, CheckConflicts, CheckRaises, Record, DraftFails,
        LinkPlan, EndRun, RunCrash, vars
  <1>3. ASSUME UNCHANGED <<taskVars, planVars, deciderVars>> PROVE ApplyInv'
    BY <1>3 DEF taskVars, planVars, deciderVars, ApplyInv, ApprovedIsApplied, BehindIsApplied,
                WritesExisting, Effected, Exists, Operation
  <1>4. ASSUME [Plan]_vars PROVE ApplyInv'
    BY <1>4, ApplyStep
  <1> QED BY <1>1, <1>2, <1>3, <1>4 DEF WatchNext, allVars

(***************************************************************************)
(* The plans that watches draft go through the same approval: beside any   *)
(* number of runs, an approved plan was applied completely and in order.   *)
(***************************************************************************)
THEOREM WatchedPlansApplied == WatchSpec => []ApprovedIsApplied
  <1>1. ApplyInv => ApprovedIsApplied
    BY DEF ApplyInv
  <1>2. WatchInit => ApplyInv
    BY ApplyInit DEF WatchInit
  <1> QED
    BY <1>1, <1>2, WatchedApplyStep, WatchTyped, PTL DEF WatchSpec
=============================================================================
