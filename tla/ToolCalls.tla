------------------------------ MODULE ToolCalls ------------------------------
(***************************************************************************)
(* Connector write tools (backend/app/connectors/runtime.py): a write is   *)
(* recorded as connector_tool_calls row pending approval, a person's       *)
(* decision moves it to approved or denied, and the request thread that    *)
(* approved it claims and executes it.  A decision is checked against one  *)
(* read of the row and written later by id, so two people may both decide. *)
(***************************************************************************)
EXTENDS Naturals

CONSTANTS
    Calls,      \* (workspace, provider, tool, idempotency key) of a call
    Deciders,   \* request threads of POST .../tool-calls/{id}/resolve
    NoCall,
    Faults,     \* which faults the environment may inject
    MaxCrashes  \* bound on crashes of the server

FaultKinds == {"crash", "tool", "store", "audit"}

ASSUME ToolAssumption ==
    /\ NoCall \notin Calls
    /\ Faults \subseteq FaultKinds
    /\ MaxCrashes \in Nat

VARIABLES
    status,               \* connector_tool_calls.status
    pc, call,             \* where a thread stands, and with which row
    approvals, decisions, \* approvals, and decisions, a person wrote, per call
    executions,           \* writes that reached the provider, per call
    crashes

threadVars == <<pc, call>>
historyVars == <<approvals, decisions, executions>>
vars == <<status, threadVars, historyVars, crashes>>

Statuses == {"absent", "pending_approval", "approved", "denied", "executing",
             "succeeded", "failed"}
Steps == {"idle", "approve", "deny", "execute", "claim", "run", "store", "fail"}

\* A thread between its claim and its last write to the row.
Executing(t, c) == pc[t] \in {"run", "store", "fail"} /\ call[t] = c

Init ==
    /\ status = [c \in Calls |-> "absent"]
    /\ pc = [t \in Deciders |-> "idle"]
    /\ call = [t \in Deciders |-> NoCall]
    /\ approvals = [c \in Calls |-> 0]
    /\ decisions = [c \in Calls |-> 0]
    /\ executions = [c \in Calls |-> 0]
    /\ crashes = 0

\* request_write: the first request of a key inserts the row, every later one
\* is answered from it.
RequestWrite(c) ==
    /\ status[c] = "absent"
    /\ status' = [status EXCEPT ![c] = "pending_approval"]
    /\ UNCHANGED <<threadVars, historyVars, crashes>>

\* resolve_write reads the row; only a pending one may be decided.
Decide(t) ==
    /\ pc[t] = "idle"
    /\ \E c \in Calls, verdict \in {"approve", "deny"} :
        /\ status[c] = "pending_approval"
        /\ call' = [call EXCEPT ![t] = c]
        /\ pc' = [pc EXCEPT ![t] = verdict]
    /\ UNCHANGED <<status, historyVars, crashes>>

Leave(t) ==
    /\ pc' = [pc EXCEPT ![t] = "idle"]
    /\ call' = [call EXCEPT ![t] = NoCall]

\* The decision is written by id, whatever the row says by now.
Deny(t) ==
    /\ pc[t] = "deny"
    /\ status' = [status EXCEPT ![call[t]] = "denied"]
    /\ decisions' = [decisions EXCEPT ![call[t]] = @ + 1]
    /\ Leave(t)
    /\ UNCHANGED <<approvals, executions, crashes>>

Approve(t) ==
    /\ pc[t] = "approve"
    /\ status' = [status EXCEPT ![call[t]] = "approved"]
    /\ approvals' = [approvals EXCEPT ![call[t]] = @ + 1]
    /\ decisions' = [decisions EXCEPT ![call[t]] = @ + 1]
    /\ pc' = [pc EXCEPT ![t] = "execute"]
    /\ UNCHANGED <<call, executions, crashes>>

\* execute_approved reads the row: settled rows are returned, others refused.
Execute(t) ==
    /\ pc[t] = "execute"
    /\ IF status[call[t]] = "approved"
       THEN pc' = [pc EXCEPT ![t] = "claim"] /\ UNCHANGED call
       ELSE Leave(t)
    /\ UNCHANGED <<status, historyVars, crashes>>

\* The guarded claim.
Claim(t) ==
    /\ pc[t] = "claim"
    /\ IF status[call[t]] = "approved"
       THEN /\ status' = [status EXCEPT ![call[t]] = "executing"]
            /\ pc' = [pc EXCEPT ![t] = "run"]
            /\ UNCHANGED call
       ELSE Leave(t) /\ UNCHANGED status
    /\ UNCHANGED <<historyVars, crashes>>

\* Mutant: the result is recorded before the provider was asked.
RunStored(t) ==
    /\ pc[t] = "run"
    /\ status' = [status EXCEPT ![call[t]] = "succeeded"]
    /\ pc' = [pc EXCEPT ![t] = "store"]
    /\ UNCHANGED <<call, historyVars, crashes>>

\* connector.execute answers: the write happened at the provider.
RunOk(t) ==
    /\ pc[t] = "run"
    /\ executions' = [executions EXCEPT ![call[t]] = @ + 1]
    /\ pc' = [pc EXCEPT ![t] = "store"]
    /\ UNCHANGED <<status, call, approvals, decisions, crashes>>

\* The grant is gone, or execute raises: perhaps after the provider wrote.
RunFails(t) ==
    /\ "tool" \in Faults
    /\ pc[t] = "run"
    /\ \E n \in {0, 1} : executions' = [executions EXCEPT ![call[t]] = @ + n]
    /\ pc' = [pc EXCEPT ![t] = "fail"]
    /\ UNCHANGED <<status, call, approvals, decisions, crashes>>

\* The result is stored by id.
Store(t) ==
    /\ pc[t] = "store"
    /\ status' = [status EXCEPT ![call[t]] = "succeeded"]
    /\ Leave(t)
    /\ UNCHANGED <<historyVars, crashes>>

\* The result cannot be stored: the handler records a failure.
StoreFails(t) ==
    /\ "store" \in Faults
    /\ pc[t] = "store"
    /\ pc' = [pc EXCEPT ![t] = "fail"]
    /\ UNCHANGED <<status, call, historyVars, crashes>>

\* The result is stored but its audit event is not: the same handler runs.
StoreUnaudited(t) ==
    /\ "audit" \in Faults
    /\ pc[t] = "store"
    /\ status' = [status EXCEPT ![call[t]] = "succeeded"]
    /\ pc' = [pc EXCEPT ![t] = "fail"]
    /\ UNCHANGED <<call, historyVars, crashes>>

\* Mutant: a failure without a result is tried again under the old approval.
RecordFailureRetrying(t) ==
    /\ pc[t] = "fail"
    /\ status' = [status EXCEPT ![call[t]] = "approved"]
    /\ pc' = [pc EXCEPT ![t] = "execute"]
    /\ UNCHANGED <<call, historyVars, crashes>>

\* Mutant: the handler answers the error without writing the row.
RecordFailureUnwritten(t) ==
    /\ pc[t] = "fail"
    /\ Leave(t)
    /\ UNCHANGED <<status, historyVars, crashes>>

RecordFailure(t) ==
    /\ pc[t] = "fail"
    /\ status' = [status EXCEPT ![call[t]] = "failed"]
    /\ Leave(t)
    /\ UNCHANGED <<historyVars, crashes>>

\* The process dies, or an error leaves the handler: no code path looks for
\* rows left 'approved' or 'executing'.
Crash(t) ==
    /\ "crash" \in Faults
    /\ crashes < MaxCrashes
    /\ pc[t] # "idle"
    /\ crashes' = crashes + 1
    /\ Leave(t)
    /\ UNCHANGED <<status, historyVars>>

Step(t) ==
    \/ Deny(t) \/ Approve(t) \/ Execute(t) \/ Claim(t)
    \/ RunOk(t) \/ Store(t) \/ RecordFailure(t)

Fault(t) == RunFails(t) \/ StoreFails(t) \/ StoreUnaudited(t) \/ Crash(t)

Next ==
    \/ \E c \in Calls : RequestWrite(c)
    \/ \E t \in Deciders : Decide(t) \/ Step(t) \/ Fault(t)

Spec == Init /\ [][Next]_vars

\* A thread that took a decision runs on; people need not decide.
FairSpec == Spec /\ \A t \in Deciders : WF_vars(Step(t))

-----------------------------------------------------------------------------
TypeOK ==
    /\ status \in [Calls -> Statuses]
    /\ pc \in [Deciders -> Steps]
    /\ call \in [Deciders -> Calls \cup {NoCall}]
    /\ \A t \in Deciders : pc[t] # "idle" => call[t] \in Calls
    /\ approvals \in [Calls -> Nat]
    /\ decisions \in [Calls -> Nat]
    /\ executions \in [Calls -> Nat]
    /\ crashes \in Nat

(***************************************************************************)
(* A provider is never written to more often than a person approved the    *)
(* call, whatever the deciders overwrite and wherever an error strikes: an *)
(* execution that failed, or whose result was lost, is not tried again     *)
(* under the old approval.                                                 *)
(***************************************************************************)
ExecutionsApproved == \A c \in Calls : executions[c] <= approvals[c]

(***************************************************************************)
(* Of a call that was decided once, the row tells what happened, whichever *)
(* step failed: a denied call was never executed, a call that waits for    *)
(* its decision or its thread not yet, a succeeded one was, once.          *)
(***************************************************************************)
StatusTellsExecution ==
    \A c \in Calls : decisions[c] <= 1 =>
        /\ status[c] = "succeeded" => executions[c] = 1
        /\ status[c] \in {"absent", "pending_approval", "approved", "denied"} =>
                executions[c] = 0

(***************************************************************************)
(* A call that shows 'executing' has a thread that will still write its    *)
(* row, however many people approve it at once.  A crash breaks this: such *)
(* a row is never looked at again.                                         *)
(***************************************************************************)
ExecutingIsAttended ==
    \A c \in Calls :
        status[c] = "executing" /\ crashes = 0 => \E t \in Deciders : Executing(t, c)

(***************************************************************************)
(* An approved call settles, as long as no error leaves the handler.       *)
(***************************************************************************)
ApprovedSettles ==
    \A c \in Calls :
        status[c] \in {"approved", "executing"} ~>
            status[c] \in {"succeeded", "failed", "denied"} \/ crashes > 0
==============================================================================
