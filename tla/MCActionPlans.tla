--------------------------- MODULE MCActionPlans ---------------------------
(* Small instances of ActionPlans for TLC. *)
EXTENDS ActionPlans, TLC

CONSTANTS prep, gate, goal, new1, new2, old, newer, a1, a2, d1, d2, ana

\* goal waits for gate and gate for prep; gate cites old, which newer updates.
Graph == (prep :> {}) @@ (gate :> {prep}) @@ (goal :> {gate})
Sources == (prep :> {}) @@ (gate :> {old}) @@ (goal :> {})
Kinds == (prep :> "step") @@ (gate :> "gate") @@ (goal :> "goal") @@ (new1 :> "task") @@ (new2 :> "task")
OneSubject == [u \in Units |-> "review"]
OwnContent == [u \in Units |-> u]
Approving == {newer}
NewerUpdates == {<<newer, old>>}
JustOld == <<old>>

Set(t, s, o) == [op |-> "update_task", task |-> t, status |-> s, owner |-> o, sources |-> {}]
Cancel == <<Set(prep, "cancelled", Blank)>>
Split == <<[op |-> "create_task", depends |-> {gate}, sources |-> {old}], Set(gate, "blocked", Blank)>>
Own == <<[op |-> "add_memory", unit |-> newer], Set(gate, Blank, ana)>>

\* new2 is an id a model made up, unless a task of that id was created before.
Lost == <<Set(new2, "done", Blank), Set(gate, "in_progress", Blank)>>

ManyProposals == {Cancel, Split, Own, Lost}
DecisionFaults == {"crash", "apply"}
=============================================================================
