-------------------------- MODULE MCStandingWatches --------------------------
(* Small instances of StandingWatches for TLC. *)
EXTENDS StandingWatches, TLC

CONSTANTS gate, goal, old, contrary, newer, a1, a2, p1, p2,
          ana, d1, d2, r1, r2, w1

\* goal waits for gate, which cites old; two later memories settle its subject.
Graph == (gate :> {}) @@ (goal :> {gate})
Sources == (gate :> {old}) @@ (goal :> {})
Kinds == (gate :> "gate") @@ (goal :> "goal")
OneSubject == [u \in {old, contrary, newer} |-> "review"]
OwnContent == [u \in {old, contrary, newer} |-> u]
Approving == {contrary, newer}
NewerUpdates == {<<newer, old>>}
JustOld == <<old>>

Set(s) == [op |-> "update_task", task |-> gate, status |-> s, owner |-> Blank, sources |-> {}]

JustReopen == {<<Set("blocked")>>}
AllFaults == FaultKinds
=============================================================================
