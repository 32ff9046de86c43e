--------------------------- MODULE ToolCallsProofs ---------------------------
(* Proofs about write approvals, for every number of calls and deciders. *)
EXTENDS ToolCalls, FiniteSetTheorems, TLAPS

LEMMA ToolTypeInit == Init => TypeOK
  BY DEF Init, TypeOK, Statuses, Steps

LEMMA ToolTypeStep == TypeOK /\ [Next]_vars => TypeOK'
  <1> SUFFICES ASSUME TypeOK, [Next]_vars PROVE TypeOK'
    OBVIOUS
  <1> USE DEF TypeOK, Statuses, Steps, threadVars, historyVars, Leave
  <1>1. ASSUME NEW c \in Calls, RequestWrite(c) PROVE TypeOK'
    BY <1>1 DEF RequestWrite
  <1>2. ASSUME NEW t \in Deciders, Decide(t) PROVE TypeOK'
    BY <1>2 DEF Decide
  <1>3. ASSUME NEW t \in Deciders, Deny(t) PROVE TypeOK'
    BY <1>3 DEF Deny
  <1>4. ASSUME NEW t \in Deciders, Approve(t) PROVE TypeOK'
    BY <1>4 DEF Approve
  <1>5. ASSUME NEW t \in Deciders, Execute(t) PROVE TypeOK'
    BY <1>5 DEF Execute
  <1>6. ASSUME NEW t \in Deciders, Claim(t) PROVE TypeOK'
    BY <1>6 DEF Claim
  <1>7. ASSUME NEW t \in Deciders, RunOk(t) PROVE TypeOK'
    BY <1>7 DEF RunOk
  <1>8. ASSUME NEW t \in Deciders, RunFails(t) PROVE TypeOK'
    BY <1>8 DEF RunFails
  <1>9. ASSUME NEW t \in Deciders, Store(t) PROVE TypeOK'
    BY <1>9 DEF Store
  <1>10. ASSUME NEW t \in Deciders, StoreFails(t) PROVE TypeOK'
    BY <1>10 DEF StoreFails
  <1>11. ASSUME NEW t \in Deciders, StoreUnaudited(t) PROVE TypeOK'
    BY <1>11 DEF StoreUnaudited
  <1>12. ASSUME NEW t \in Deciders, RecordFailure(t) PROVE TypeOK'
    BY <1>12 DEF RecordFailure
  <1>13. ASSUME NEW t \in Deciders, Crash(t) PROVE TypeOK'
    BY <1>13 DEF Crash
  <1>14. ASSUME UNCHANGED vars PROVE TypeOK'
    BY <1>14 DEF vars
  <1> QED
    BY <1>1, <1>2, <1>3, <1>4, <1>5, <1>6, <1>7, <1>8, <1>9, <1>10, <1>11, <1>12,
       <1>13, <1>14
    DEF Next, Step, Fault

(***************************************************************************)
(* Every reachable state is well typed.                                    *)
(***************************************************************************)
THEOREM ToolTypeCorrect == Spec => []TypeOK
  BY ToolTypeInit, ToolTypeStep, PTL DEF Spec

-----------------------------------------------------------------------------
(***************************************************************************)
(* The inductive invariant: a thread between its approval and the answer   *)
(* of the provider holds an approval that no execution has used.           *)
(***************************************************************************)
Spending == {"execute", "claim", "run"}
Holders(c) == {t \in Deciders : pc[t] \in Spending /\ call[t] = c}

ApprovalInv ==
    \A c \in Calls : executions[c] + Cardinality(Holders(c)) <= approvals[c]

LEMMA HoldersFinite ==
    ASSUME IsFiniteSet(Deciders), NEW c \in Calls
    PROVE  IsFiniteSet(Holders(c)) /\ Cardinality(Holders(c)) \in Nat
  BY FS_Subset, FS_CardinalityType DEF Holders

LEMMA ApprovalInit == Init => ApprovalInv
  <1> SUFFICES ASSUME Init, NEW c \in Calls
               PROVE  executions[c] + Cardinality(Holders(c)) <= approvals[c]
    BY DEF ApprovalInv
  <1>1. Holders(c) = {}
    BY DEF Init, Holders, Spending
  <1> QED BY <1>1, FS_EmptySet DEF Init

\* Steps that hand out, use or drop no approval.
LEMMA ApprovalFrame ==
    ASSUME ApprovalInv, UNCHANGED <<approvals, executions>>,
           \A c \in Calls : Holders(c)' = Holders(c)
    PROVE  ApprovalInv'
  BY DEF ApprovalInv

\* A thread that lets go of its approval: no more executions than before
\* plus its own.
LEMMA ApprovalSpent ==
    ASSUME TypeOK, ApprovalInv, IsFiniteSet(Deciders),
           NEW t \in Deciders, NEW n \in {0, 1}, NEW k \in Calls,
           call[t] = k, pc[t] \in Spending, pc'[t] \notin Spending,
           \A u \in Deciders \ {t} : pc'[u] = pc[u] /\ call'[u] = call[u],
           executions' = [executions EXCEPT ![k] = @ + n],
           approvals' = approvals
    PROVE  ApprovalInv'
  <1>1. \A c \in Calls \ {k} : Holders(c)' = Holders(c)
    BY DEF Holders
  <1>2. Holders(k)' = Holders(k) \ {t} /\ t \in Holders(k)
    BY DEF Holders
  <1>3. Cardinality(Holders(k) \ {t}) = Cardinality(Holders(k)) - 1
    BY <1>2, HoldersFinite, FS_RemoveElement
  <1>4. executions'[k] = executions[k] + n /\ executions[k] \in Nat /\ approvals[k] \in Nat
    BY DEF TypeOK
  <1>5. executions'[k] + Cardinality(Holders(k)') <= approvals'[k]
    <2>1. executions[k] + Cardinality(Holders(k)) <= approvals[k]
      BY DEF ApprovalInv
    <2>2. Cardinality(Holders(k)) \in Nat
      BY HoldersFinite
    <2>3. Cardinality(Holders(k)') = Cardinality(Holders(k)) - 1
      BY <1>2, <1>3
    <2> QED BY <1>4, <2>1, <2>2, <2>3
  <1>6. \A c \in Calls \ {k} : executions'[c] = executions[c]
    BY DEF TypeOK
  <1> QED BY <1>1, <1>5, <1>6 DEF ApprovalInv

LEMMA ApprovalGiven ==
    ASSUME TypeOK, ApprovalInv, IsFiniteSet(Deciders), NEW t \in Deciders, Approve(t),
           NEW k \in Calls, call[t] = k
    PROVE  ApprovalInv'
  <1>1. /\ pc[t] = "approve" /\ executions' = executions
        /\ approvals' = [approvals EXCEPT ![k] = @ + 1]
        /\ pc' = [pc EXCEPT ![t] = "execute"] /\ call' = call
    BY DEF Approve, TypeOK
  <1>2. \A c \in Calls \ {k} : Holders(c)' = Holders(c)
    BY <1>1 DEF Holders, TypeOK
  <1>3. Holders(k)' = Holders(k) \cup {t} /\ t \notin Holders(k)
    BY <1>1 DEF Holders, TypeOK, Spending
  <1>4. Cardinality(Holders(k) \cup {t}) = Cardinality(Holders(k)) + 1
    BY <1>1, <1>3, HoldersFinite, FS_AddElement
  <1>5. executions'[k] + Cardinality(Holders(k)') <= approvals'[k]
    <2>1. executions[k] + Cardinality(Holders(k)) <= approvals[k]
      BY <1>1 DEF ApprovalInv
    <2>2. Cardinality(Holders(k)) \in Nat
      BY <1>1, HoldersFinite
    <2>3. Cardinality(Holders(k)') = Cardinality(Holders(k)) + 1
      BY <1>3, <1>4
    <2>4. approvals'[k] = approvals[k] + 1 /\ approvals[k] \in Nat
          /\ executions[k] \in Nat /\ executions'[k] = executions[k]
      BY <1>1 DEF TypeOK
    <2> QED BY <2>1, <2>2, <2>3, <2>4
  <1>6. \A c \in Calls \ {k} : approvals'[c] = approvals[c] /\ executions'[c] = executions[c]
    BY <1>1 DEF TypeOK
  <1> QED BY <1>2, <1>5, <1>6 DEF ApprovalInv

\* A thread that leaves drops its approval unused, or had none.
LEMMA ApprovalLeft ==
    ASSUME TypeOK, ApprovalInv, IsFiniteSet(Deciders), NEW t \in Deciders,
           pc[t] # "idle", Leave(t), UNCHANGED <<approvals, executions>>
    PROVE  ApprovalInv'
  <1>1. /\ pc'[t] = "idle" /\ call[t] \in Calls
        /\ \A u \in Deciders \ {t} : pc'[u] = pc[u] /\ call'[u] = call[u]
    BY DEF Leave, TypeOK
  <1>2. CASE pc[t] \in Spending
    <2> DEFINE k == call[t]
    <2>1. executions' = [executions EXCEPT ![k] = @ + 0] /\ approvals' = approvals
      BY <1>1 DEF TypeOK
    <2>2. pc'[t] \notin Spending
      BY <1>1 DEF Spending
    <2> QED BY <1>1, <1>2, <2>1, <2>2, ApprovalSpent
  <1>3. CASE pc[t] \notin Spending
    <2>1. \A c \in Calls : Holders(c)' = Holders(c)
      BY <1>1, <1>3 DEF Holders, Spending
    <2> QED BY <2>1, ApprovalFrame
  <1> QED BY <1>2, <1>3

LEMMA ApprovalStep ==
    ASSUME IsFiniteSet(Deciders), TypeOK, ApprovalInv, [Next]_vars
    PROVE  ApprovalInv'
  <1> USE DEF threadVars, historyVars
  <1>t. pc \in [Deciders -> Steps] /\ call \in [Deciders -> Calls \cup {NoCall}]
    BY DEF TypeOK
  <1>1. ASSUME NEW c \in Calls, RequestWrite(c) PROVE ApprovalInv'
    BY <1>1, ApprovalFrame DEF RequestWrite, Holders
  <1>2. ASSUME NEW t \in Deciders, Decide(t) PROVE ApprovalInv'
    <2>1. \A c \in Calls : Holders(c)' = Holders(c)
      BY <1>2, <1>t DEF Decide, Holders, Spending
    <2> QED BY <1>2, <2>1, ApprovalFrame DEF Decide
  <1>3. ASSUME NEW t \in Deciders, Deny(t) PROVE ApprovalInv'
    BY <1>3, ApprovalLeft DEF Deny
  <1>4. ASSUME NEW t \in Deciders, Approve(t) PROVE ApprovalInv'
    <2>1. call[t] \in Calls
      BY <1>4 DEF Approve, TypeOK
    <2> QED BY <1>4, <2>1, ApprovalGiven
  <1>5. ASSUME NEW t \in Deciders, Execute(t) PROVE ApprovalInv'
    <2>1. CASE status[call[t]] = "approved"
      <3>1. \A c \in Calls : Holders(c)' = Holders(c)
        BY <1>5, <2>1, <1>t DEF Execute, Holders, Spending
      <3> QED BY <1>5, <3>1, ApprovalFrame DEF Execute
    <2>2. CASE status[call[t]] # "approved"
      BY <1>5, <2>2, ApprovalLeft DEF Execute
    <2> QED BY <2>1, <2>2
  <1>6. ASSUME NEW t \in Deciders, Claim(t) PROVE ApprovalInv'
    <2>1. CASE status[call[t]] = "approved"
      <3>1. \A c \in Calls : Holders(c)' = Holders(c)
        BY <1>6, <2>1, <1>t DEF Claim, Holders, Spending
      <3> QED BY <1>6, <3>1, ApprovalFrame DEF Claim
    <2>2. CASE status[call[t]] # "approved"
      BY <1>6, <2>2, ApprovalLeft DEF Claim
    <2> QED BY <2>1, <2>2
  <1>7. ASSUME NEW t \in Deciders, RunOk(t) PROVE ApprovalInv'
    <2> DEFINE k == call[t]
    <2>1. /\ k \in Calls /\ pc[t] = "run" /\ pc' = [pc EXCEPT ![t] = "store"]
          /\ call' = call /\ approvals' = approvals
          /\ executions' = [executions EXCEPT ![k] = @ + 1]
      BY <1>7 DEF RunOk, TypeOK
    <2>2. pc[t] \in Spending /\ pc'[t] \notin Spending
          /\ \A u \in Deciders \ {t} : pc'[u] = pc[u] /\ call'[u] = call[u]
      BY <2>1, <1>t DEF Spending
    <2> QED BY <2>1, <2>2, ApprovalSpent
  <1>8. ASSUME NEW t \in Deciders, RunFails(t) PROVE ApprovalInv'
    <2> DEFINE k == call[t]
    <2>1. /\ k \in Calls /\ pc[t] = "run" /\ pc' = [pc EXCEPT ![t] = "fail"]
          /\ call' = call /\ approvals' = approvals
      BY <1>8 DEF RunFails, TypeOK
    <2> PICK n \in {0, 1} : executions' = [executions EXCEPT ![k] = @ + n]
      BY <1>8 DEF RunFails
    <2>2. pc[t] \in Spending /\ pc'[t] \notin Spending
          /\ \A u \in Deciders \ {t} : pc'[u] = pc[u] /\ call'[u] = call[u]
      BY <2>1, <1>t DEF Spending
    <2> QED BY <2>1, <2>2, ApprovalSpent
  <1>9. ASSUME NEW t \in Deciders, Store(t) PROVE ApprovalInv'
    BY <1>9, ApprovalLeft DEF Store
  <1>10. ASSUME NEW t \in Deciders, StoreFails(t) \/ StoreUnaudited(t)
         PROVE  ApprovalInv'
    <2>1. \A c \in Calls : Holders(c)' = Holders(c)
      BY <1>10, <1>t DEF StoreFails, StoreUnaudited, Holders, Spending
    <2> QED BY <1>10, <2>1, ApprovalFrame DEF StoreFails, StoreUnaudited
  <1>11. ASSUME NEW t \in Deciders, RecordFailure(t) PROVE ApprovalInv'
    BY <1>11, ApprovalLeft DEF RecordFailure
  <1>12. ASSUME NEW t \in Deciders, Crash(t) PROVE ApprovalInv'
    BY <1>12, ApprovalLeft DEF Crash
  <1>13. ASSUME UNCHANGED vars PROVE ApprovalInv'
    BY <1>13, ApprovalFrame DEF vars, Holders
  <1> QED
    BY <1>1, <1>2, <1>3, <1>4, <1>5, <1>6, <1>7, <1>8, <1>9, <1>10, <1>11, <1>12, <1>13
    DEF Next, Step, Fault

(***************************************************************************)
(* However many people decide at once and wherever a thread dies, a write  *)
(* reaches its provider no more often than it was approved.                *)
(***************************************************************************)
THEOREM NoUnapprovedExecution ==
    ASSUME IsFiniteSet(Deciders)
    PROVE  Spec => []ExecutionsApproved
  <1>1. TypeOK /\ ApprovalInv => ExecutionsApproved
    <2> SUFFICES ASSUME TypeOK, ApprovalInv, NEW c \in Calls
                 PROVE  executions[c] <= approvals[c]
      BY DEF ExecutionsApproved
    <2>1. executions[c] \in Nat /\ approvals[c] \in Nat
      BY DEF TypeOK
    <2> QED BY <2>1, HoldersFinite DEF ApprovalInv
  <1>2. TypeOK /\ ApprovalInv /\ [Next]_vars => ApprovalInv'
    BY ApprovalStep
  <1> QED
    BY <1>1, <1>2, ApprovalInit, ToolTypeCorrect, PTL DEF Spec

-----------------------------------------------------------------------------
\* A step of thread t that leaves every other thread alone, and after which
\* either t still attends its call or the call no longer shows 'executing'.
LEMMA AttendedFrame ==
    ASSUME TypeOK, ExecutingIsAttended, NEW t \in Deciders,
           crashes' = crashes,
           \A u \in Deciders \ {t} : pc'[u] = pc[u] /\ call'[u] = call[u],
           \A c \in Calls : status'[c] = "executing" =>
                \/ Executing(t, c)'
                \/ status[c] = "executing" /\ ~Executing(t, c)
    PROVE  ExecutingIsAttended'
  <1> SUFFICES ASSUME NEW c \in Calls, status'[c] = "executing", crashes' = 0
               PROVE  \E u \in Deciders : Executing(u, c)'
    BY DEF ExecutingIsAttended
  <1>1. CASE Executing(t, c)'
    BY <1>1
  <1>2. CASE status[c] = "executing" /\ ~Executing(t, c)
    <2> PICK u \in Deciders : Executing(u, c)
      BY <1>2 DEF ExecutingIsAttended
    <2>1. u # t
      BY <1>2
    <2> QED BY <2>1 DEF Executing
  <1> QED BY <1>1, <1>2

LEMMA AttendedStep ==
    ASSUME TypeOK, ExecutingIsAttended, [Next]_vars
    PROVE  ExecutingIsAttended'
  <1> USE DEF threadVars, historyVars
  <1>t. /\ pc \in [Deciders -> Steps] /\ call \in [Deciders -> Calls \cup {NoCall}]
        /\ status \in [Calls -> Statuses]
    BY DEF TypeOK
  <1>1. ASSUME NEW c \in Calls, RequestWrite(c) PROVE ExecutingIsAttended'
    BY <1>1, <1>t DEF RequestWrite, ExecutingIsAttended, Executing
  <1>2. ASSUME NEW t \in Deciders, Decide(t) PROVE ExecutingIsAttended'
    <2>1. pc[t] = "idle" /\ UNCHANGED <<status, crashes>>
          /\ \A u \in Deciders \ {t} : pc'[u] = pc[u] /\ call'[u] = call[u]
      BY <1>2, <1>t DEF Decide
    <2> QED BY <2>1, AttendedFrame DEF Executing
  <1>3. ASSUME NEW t \in Deciders, Deny(t) \/ Approve(t) PROVE ExecutingIsAttended'
    <2>1. /\ pc[t] \in {"deny", "approve"} /\ call[t] \in Calls /\ crashes' = crashes
          /\ \A u \in Deciders \ {t} : pc'[u] = pc[u] /\ call'[u] = call[u]
          /\ status'[call[t]] # "executing"
          /\ \A c \in Calls \ {call[t]} : status'[c] = status[c]
      BY <1>3, <1>t DEF Deny, Approve, Leave, TypeOK
    <2> QED BY <2>1, AttendedFrame DEF Executing
  <1>4. ASSUME NEW t \in Deciders, Execute(t) PROVE ExecutingIsAttended'
    <2>1. pc[t] = "execute" /\ UNCHANGED <<status, crashes>>
          /\ \A u \in Deciders \ {t} : pc'[u] = pc[u] /\ call'[u] = call[u]
      BY <1>4, <1>t DEF Execute, Leave
    <2> QED BY <2>1, AttendedFrame DEF Executing
  <1>5. ASSUME NEW t \in Deciders, Claim(t) PROVE ExecutingIsAttended'
    <2>0. pc[t] = "claim" /\ call[t] \in Calls /\ crashes' = crashes
      BY <1>5 DEF Claim, TypeOK
    <2>1. CASE status[call[t]] = "approved"
      <3>1. /\ status' = [status EXCEPT ![call[t]] = "executing"]
            /\ pc' = [pc EXCEPT ![t] = "run"] /\ call' = call
        BY <1>5, <2>1 DEF Claim
      <3>2. /\ \A u \in Deciders \ {t} : pc'[u] = pc[u] /\ call'[u] = call[u]
            /\ Executing(t, call[t])'
            /\ \A c \in Calls \ {call[t]} : status'[c] = status[c]
        BY <3>1, <1>t DEF Executing
      <3>3. \A c \in Calls : ~Executing(t, c)
        BY <2>0 DEF Executing
      <3>4. \A c \in Calls : c = call[t] => Executing(t, c)'
        BY <3>1, <1>t DEF Executing
      <3> QED BY <2>0, <3>2, <3>3, <3>4, AttendedFrame
    <2>2. CASE status[call[t]] # "approved"
      <3>1. status' = status
            /\ \A u \in Deciders \ {t} : pc'[u] = pc[u] /\ call'[u] = call[u]
        BY <1>5, <2>2, <1>t DEF Claim, Leave
      <3> QED BY <2>0, <3>1, AttendedFrame DEF Executing
    <2> QED BY <2>1, <2>2
  <1>6. ASSUME NEW t \in Deciders, RunOk(t) \/ RunFails(t) \/ StoreFails(t)
        PROVE  ExecutingIsAttended'
    <2>1. /\ pc[t] \in {"run", "store"} /\ pc'[t] \in {"store", "fail"}
          /\ UNCHANGED <<status, call, crashes>>
          /\ \A u \in Deciders \ {t} : pc'[u] = pc[u]
      BY <1>6, <1>t DEF RunOk, RunFails, StoreFails
    <2>2. \A c \in Calls : Executing(t, c) => Executing(t, c)'
      BY <2>1 DEF Executing
    <2> QED BY <2>1, <2>2, AttendedFrame
  <1>7. ASSUME NEW t \in Deciders, Store(t) \/ StoreUnaudited(t) \/ RecordFailure(t)
        PROVE  ExecutingIsAttended'
    <2>1. /\ pc[t] \in {"store", "fail"} /\ call[t] \in Calls /\ crashes' = crashes
          /\ \A u \in Deciders \ {t} : pc'[u] = pc[u] /\ call'[u] = call[u]
          /\ status'[call[t]] # "executing"
          /\ \A c \in Calls \ {call[t]} : status'[c] = status[c]
      BY <1>7, <1>t DEF Store, StoreUnaudited, RecordFailure, Leave, TypeOK
    <2> QED BY <2>1, AttendedFrame DEF Executing
  <1>8. ASSUME NEW t \in Deciders, Crash(t) PROVE ExecutingIsAttended'
    BY <1>8 DEF Crash, TypeOK, ExecutingIsAttended
  <1>9. ASSUME UNCHANGED vars PROVE ExecutingIsAttended'
    BY <1>9 DEF vars, ExecutingIsAttended, Executing
  <1> QED
    BY <1>1, <1>2, <1>3, <1>4, <1>5, <1>6, <1>7, <1>8, <1>9 DEF Next, Step, Fault

(***************************************************************************)
(* While no error left a handler, every call shown as executing has a      *)
(* thread that will still write its outcome, for any number of deciders.   *)
(***************************************************************************)
THEOREM NoOrphanedExecution == Spec => []ExecutingIsAttended
  <1>1. Init => ExecutingIsAttended
    BY DEF Init, ExecutingIsAttended
  <1>2. TypeOK /\ ExecutingIsAttended /\ [Next]_vars => ExecutingIsAttended'
    BY AttendedStep
  <1> QED BY <1>1, <1>2, ToolTypeCorrect, PTL DEF Spec

-----------------------------------------------------------------------------
(***************************************************************************)
(* What the row tells.  As long as one decision was written of a call, one *)
(* thread at most is past its approval, and its place, the row's status    *)
(* and the number of executions say the same.  Further threads may hold    *)
(* the call: the first of them to write makes its second decision.         *)
(***************************************************************************)
Active(t, c) == pc[t] \in {"execute", "claim", "run", "store", "fail"} /\ call[t] = c

Tells(c) ==
    /\ decisions[c] = 0 <=> status[c] \in {"absent", "pending_approval"}
    /\ status[c] = "succeeded" => executions[c] = 1
    /\ status[c] \in {"absent", "pending_approval", "approved", "denied"} => executions[c] = 0
    /\ \A t \in Deciders : Active(t, c) =>
        /\ pc[t] \in {"execute", "claim"} => status[c] = "approved"
        /\ pc[t] = "run" => status[c] = "executing" /\ executions[c] = 0
        /\ pc[t] = "store" => status[c] = "executing" /\ executions[c] = 1
        /\ pc[t] = "fail" => status[c] \in {"executing", "succeeded"}
    /\ \A t, u \in Deciders : Active(t, c) /\ Active(u, c) => t = u

TellInv == \A c \in Calls : decisions[c] <= 1 => Tells(c)

\* A call that a step does not touch.
LEMMA TellsFrame ==
    ASSUME NEW c \in Calls, Tells(c), decisions'[c] = decisions[c],
           status'[c] = status[c], executions'[c] = executions[c],
           \A t \in Deciders : Active(t, c)' => Active(t, c) /\ pc'[t] = pc[t]
    PROVE  Tells(c)'
  BY DEF Tells

\* A step of one thread touches no call but the one it holds.
LEMMA TellsOthers ==
    ASSUME TellInv, NEW t \in Deciders, NEW k,
           \A u \in Deciders \ {t} : pc'[u] = pc[u] /\ call'[u] = call[u],
           \A c \in Calls \ {k} : ~Active(t, c)',
           \A c \in Calls \ {k} : /\ decisions'[c] = decisions[c]
                                 /\ status'[c] = status[c] /\ executions'[c] = executions[c],
           k \in Calls /\ decisions'[k] <= 1 => Tells(k)'
    PROVE  TellInv'
  <1> SUFFICES ASSUME NEW c \in Calls, decisions'[c] <= 1
               PROVE  Tells(c)'
    BY DEF TellInv
  <1>1. CASE c = k
    BY <1>1
  <1>2. CASE c # k
    <2>1. \A u \in Deciders : Active(u, c)' => Active(u, c) /\ pc'[u] = pc[u]
      BY <1>2 DEF Active
    <2> QED BY <1>2, <2>1, TellsFrame DEF TellInv
  <1> QED BY <1>1, <1>2

\* A thread that moves within one call, past its decision.
LEMMA TellsMove ==
    ASSUME TellInv, NEW t \in Deciders, NEW k \in Calls, call[t] = k, UNCHANGED decisions,
           \A u \in Deciders \ {t} : pc'[u] = pc[u] /\ call'[u] = call[u],
           call'[t] \in {k, NoCall},
           \A c \in Calls \ {k} : status'[c] = status[c] /\ executions'[c] = executions[c],
           decisions[k] <= 1 => Tells(k)'
    PROVE  TellInv'
  <1>1. \A c \in Calls \ {k} : ~Active(t, c)'
    BY ToolAssumption DEF Active
  <1> QED BY <1>1, TellsOthers

LEMMA TellInit == Init => TellInv
  BY DEF Init, TellInv, Tells, Active

LEMMA TellStep ==
    ASSUME TypeOK, TellInv, [Next]_vars
    PROVE  TellInv'
  <1> USE DEF threadVars, historyVars
  <1>t. /\ pc \in [Deciders -> Steps] /\ call \in [Deciders -> Calls \cup {NoCall}]
        /\ status \in [Calls -> Statuses] /\ decisions \in [Calls -> Nat]
        /\ executions \in [Calls -> Nat]
        /\ \A t \in Deciders : pc[t] # "idle" => call[t] \in Calls
    BY DEF TypeOK
  <1>1. ASSUME NEW c \in Calls, RequestWrite(c) PROVE TellInv'
    <2>1. /\ status[c] = "absent" /\ status'[c] = "pending_approval"
          /\ \A k \in Calls \ {c} : status'[k] = status[k]
          /\ UNCHANGED <<pc, call, decisions, executions>>
      BY <1>1, <1>t DEF RequestWrite
    <2>2. ASSUME NEW k \in Calls \ {c}, decisions'[k] <= 1 PROVE Tells(k)'
      BY <2>1, <2>2, TellsFrame DEF TellInv, Active
    <2>3. decisions'[c] <= 1 => Tells(c)'
      BY <2>1, <1>t DEF TellInv, Tells, Active
    <2> QED BY <2>2, <2>3 DEF TellInv
  <1>2. ASSUME NEW t \in Deciders, Decide(t) PROVE TellInv'
    <2>1. /\ pc'[t] \in {"approve", "deny"} /\ UNCHANGED <<status, decisions, executions>>
          /\ \A u \in Deciders \ {t} : pc'[u] = pc[u] /\ call'[u] = call[u]
      BY <1>2, <1>t DEF Decide
    <2>2. \A c \in Calls, u \in Deciders : Active(u, c)' => Active(u, c) /\ pc'[u] = pc[u]
      BY <2>1 DEF Active
    <2> QED BY <2>1, <2>2, TellsFrame DEF TellInv
  <1>3. ASSUME NEW t \in Deciders, Deny(t) \/ Approve(t) PROVE TellInv'
    <2> PICK k \in Calls : k = call[t]
      BY <1>3, <1>t DEF Deny, Approve
    <2>1. /\ \A u \in Deciders \ {t} : pc'[u] = pc[u] /\ call'[u] = call[u]
          /\ pc'[t] = "idle" \/ (pc'[t] = "execute" /\ call'[t] = k)
          /\ \A c \in Calls \ {k} : status'[c] = status[c] /\ decisions'[c] = decisions[c]
          /\ executions' = executions /\ decisions'[k] = decisions[k] + 1
          /\ status'[k] = IF pc'[t] = "idle" THEN "denied" ELSE "approved"
      BY <1>3, <1>t DEF Deny, Approve, Leave
    <2>2. \A c \in Calls \ {k} : ~Active(t, c)'
      BY <2>1 DEF Active
    <2>3. ASSUME decisions'[k] <= 1 PROVE Tells(k)'
      <3>1. decisions[k] = 0 /\ Tells(k) /\ decisions'[k] = 1
        BY <2>1, <2>3, <1>t DEF TellInv
      <3>2. status[k] \in {"absent", "pending_approval"} /\ executions[k] = 0
        BY <3>1 DEF Tells
      <3>3. \A u \in Deciders : ~Active(u, k)
        BY <3>1, <3>2 DEF Tells, Active
      <3>4. \A u \in Deciders : Active(u, k)' => u = t /\ pc'[t] = "execute"
        BY <2>1, <3>3 DEF Active
      <3> QED BY <2>1, <3>1, <3>2, <3>4 DEF Tells
    <2> QED BY <2>1, <2>2, <2>3, TellsOthers
  <1> DEFINE Still(t) == \A u \in Deciders \ {t} : pc'[u] = pc[u] /\ call'[u] = call[u]
  \* A thread leaves its call: no row and no count changes, or a last write.
  <1>a. ASSUME NEW t \in Deciders, pc[t] # "idle", Leave(t), UNCHANGED <<decisions, executions, status>>
        PROVE  TellInv'
    <2>1. Still(t) /\ pc'[t] = "idle" /\ call'[t] = NoCall
      BY <1>a, <1>t DEF Leave
    <2>2. \A u \in Deciders, c \in Calls : Active(u, c)' => Active(u, c) /\ pc'[u] = pc[u]
      BY <2>1 DEF Active
    <2> QED BY <1>a, <2>2, TellsFrame DEF TellInv
  <1>4. ASSUME NEW t \in Deciders, Execute(t) PROVE TellInv'
    <2>1. CASE status[call[t]] = "approved"
      <3> PICK k \in Calls : k = call[t]
        BY <1>4, <1>t DEF Execute
      <3>1. /\ Still(t) /\ call'[t] = k /\ pc[t] = "execute" /\ pc'[t] = "claim"
            /\ UNCHANGED <<status, decisions, executions>>
        BY <1>4, <2>1, <1>t DEF Execute
      <3>2. ASSUME decisions[k] <= 1 PROVE Tells(k)'
        <4>1. Tells(k) /\ \A u \in Deciders : Active(u, k)' <=> Active(u, k)
          BY <3>1, <3>2 DEF TellInv, Active
        <4> QED BY <3>1, <4>1, <2>1 DEF Tells
      <3> QED BY <3>1, <3>2, TellsMove
    <2>2. CASE status[call[t]] # "approved"
      BY <1>4, <2>2, <1>a DEF Execute
    <2> QED BY <2>1, <2>2
  <1>5. ASSUME NEW t \in Deciders, Claim(t) PROVE TellInv'
    <2>1. CASE status[call[t]] = "approved"
      <3> PICK k \in Calls : k = call[t]
        BY <1>5, <1>t DEF Claim
      <3>1. /\ Still(t) /\ call'[t] = k /\ pc[t] = "claim" /\ pc'[t] = "run"
            /\ UNCHANGED <<decisions, executions>> /\ status'[k] = "executing"
            /\ \A c \in Calls \ {k} : status'[c] = status[c]
        BY <1>5, <2>1, <1>t DEF Claim
      <3>2. ASSUME decisions[k] <= 1 PROVE Tells(k)'
        <4>1. Tells(k) /\ Active(t, k) /\ executions[k] = 0 /\ decisions[k] # 0
          BY <3>1, <3>2, <2>1 DEF TellInv, Active, Tells
        <4>2. \A u \in Deciders : Active(u, k)' => u = t
          BY <3>1, <4>1 DEF Active, Tells
        <4> QED BY <3>1, <4>1, <4>2 DEF Tells
      <3> QED BY <3>1, <3>2, TellsMove
    <2>2. CASE status[call[t]] # "approved"
      BY <1>5, <2>2, <1>a DEF Claim
    <2> QED BY <2>1, <2>2
  <1>6. ASSUME NEW t \in Deciders, RunOk(t) \/ RunFails(t) PROVE TellInv'
    <2> PICK k \in Calls : k = call[t]
      BY <1>6, <1>t DEF RunOk, RunFails
    <2>1. /\ Still(t) /\ call'[t] = k /\ pc[t] = "run"
          /\ UNCHANGED <<decisions, status>>
          /\ \A c \in Calls \ {k} : executions'[c] = executions[c]
          /\ pc'[t] = "fail" \/ (pc'[t] = "store" /\ executions'[k] = executions[k] + 1)
      BY <1>6, <1>t DEF RunOk, RunFails
    <2>2. ASSUME decisions[k] <= 1 PROVE Tells(k)'
      <3>1. Tells(k) /\ Active(t, k) /\ executions[k] = 0 /\ status[k] = "executing"
        BY <2>1, <2>2 DEF TellInv, Active, Tells
      <3>2. \A u \in Deciders : Active(u, k)' => u = t
        BY <2>1, <3>1 DEF Active, Tells
      <3> QED BY <2>1, <3>1, <3>2 DEF Tells
    <2> QED BY <2>1, <2>2, TellsMove
  <1>7. ASSUME NEW t \in Deciders, StoreFails(t) \/ StoreUnaudited(t) \/ Store(t) \/ RecordFailure(t)
        PROVE  TellInv'
    <2> PICK k \in Calls : k = call[t]
      BY <1>7, <1>t DEF StoreFails, StoreUnaudited, Store, RecordFailure
    <2>1. /\ Still(t) /\ UNCHANGED <<decisions, executions>> /\ call'[t] \in {k, NoCall}
          /\ \A c \in Calls \ {k} : status'[c] = status[c]
          /\ \/ pc[t] = "store" /\ pc'[t] \in {"idle", "fail"} /\ status'[k] \in {status[k], "succeeded"}
             \/ pc[t] = "fail" /\ pc'[t] = "idle" /\ status'[k] = "failed"
      BY <1>7, <1>t DEF StoreFails, StoreUnaudited, Store, RecordFailure, Leave
    <2>2. ASSUME decisions[k] <= 1 PROVE Tells(k)'
      <3>1. /\ Tells(k) /\ Active(t, k)
            /\ pc[t] = "store" => status[k] = "executing" /\ executions[k] = 1
            /\ status[k] \notin {"absent", "pending_approval"}
        BY <2>1, <2>2 DEF TellInv, Active, Tells
      <3>2. \A u \in Deciders : Active(u, k)' => u = t
        BY <2>1, <3>1 DEF Active, Tells
      <3>3. decisions[k] # 0
        BY <3>1 DEF Tells
      <3> QED BY <2>1, <3>1, <3>2, <3>3 DEF Tells
    <2> QED BY <2>1, <2>2, TellsMove
  <1>8. ASSUME NEW t \in Deciders, Crash(t) PROVE TellInv'
    BY <1>8, <1>a DEF Crash
  <1>9. ASSUME UNCHANGED vars PROVE TellInv'
    BY <1>9, TellsFrame DEF vars, TellInv, Active
  <1> QED
    BY <1>1, <1>2, <1>3, <1>4, <1>5, <1>6, <1>7, <1>8, <1>9 DEF Next, Step, Fault

(***************************************************************************)
(* Of a call that was decided once the row tells what happened, whichever  *)
(* step of execute_approved failed or was cut off, for any number of       *)
(* deciders that read the call meanwhile.                                  *)
(***************************************************************************)
THEOREM RowTellsExecution == Spec => []StatusTellsExecution
  <1>1. TellInv => StatusTellsExecution
    BY DEF TellInv, Tells, StatusTellsExecution
  <1>2. TypeOK /\ TellInv /\ [Next]_vars => TellInv'
    BY TellStep
  <1> QED BY <1>1, <1>2, TellInit, ToolTypeCorrect, PTL DEF Spec
==============================================================================
