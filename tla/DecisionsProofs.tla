--------------------------- MODULE DecisionsProofs ---------------------------
(***************************************************************************)
(* Proofs about the approval inbox, for any number of items and deciders,  *)
(* and whatever fails.                                                     *)
(***************************************************************************)
EXTENDS Decisions, TLAPS

Unwritten == {"remember", "write"}
Places == {"free", "audit", "task", "claim", "ingest", "enqueue", "succeed", "tell", "fail"} \union Unwritten
Statuses == Settled \union {"absent", Pending, "queued", "running"}
Verdicts == {None, "denied", "queued", "approved"}

ThreadsTyped ==
  /\ pc \in [Deciders -> Places] /\ item \in [Deciders -> Items \union {None}]
  /\ approves \in [Deciders -> BOOLEAN]
  /\ \A d \in Deciders : pc[d] = "free" <=> item[d] = None
RowsTyped ==
  /\ status \in [Items -> Statuses] /\ memories \subseteq Items /\ ingested \subseteq Items
  /\ synced \subseteq Items /\ verdict \in [Items -> Verdicts] /\ verdicts \in [Items -> Nat]
Typed == ThreadsTyped /\ RowsTyped /\ faults \in Nat /\ crashes \in Nat

(***************************************************************************)
(* Threads: a step moves one decider, or all leave with the process.       *)
(***************************************************************************)
Moves(d) ==
  /\ ThreadsTyped'
  /\ \A e \in Deciders \ {d} : pc'[e] = pc[e] /\ item'[e] = item[e] /\ approves'[e] = approves[e]
Goes(d, place) == Moves(d) /\ pc'[d] = place /\ item'[d] = item[d] /\ approves'[d] = approves[d]
Leaves(d) == Moves(d) /\ pc'[d] = "free" /\ item'[d] = None

LEMMA GoMoves ==
    ASSUME ThreadsTyped, NEW d \in Deciders, NEW place \in Places \ {"free"}, pc[d] # "free", Go(d, place)
    PROVE  Goes(d, place)
  BY DEF ThreadsTyped, Go, Moves, Goes

LEMMA LeaveMoves ==
    ASSUME ThreadsTyped, NEW d \in Deciders, Leave(d)
    PROVE  Leaves(d)
  BY DEF ThreadsTyped, Leave, Moves, Leaves, Places

LEMMA ReadMoves ==
    ASSUME ThreadsTyped, NEW d \in Deciders, NEW i \in Items, Read(d, i)
    PROVE  /\ Moves(d) /\ pc[d] = "free" /\ item'[d] = i /\ status[i] = Pending
           /\ pc'[d] = (IF approves'[d] /\ i \in Proposals THEN "remember" ELSE "write")
  <1>1. PICK yes \in BOOLEAN :
          /\ approves' = [approves EXCEPT ![d] = yes] /\ item' = [item EXCEPT ![d] = i]
          /\ pc' = [pc EXCEPT ![d] = IF yes /\ i \in Proposals THEN "remember" ELSE "write"]
    BY DEF Read
  <1>2. i # None
    BY DecisionAssumption
  <1>3. pc[d] = "free" /\ status[i] = Pending
    BY DEF Read, At
  <1> QED BY <1>1, <1>2, <1>3 DEF ThreadsTyped, Moves, Places, Unwritten

(***************************************************************************)
(* What a step may do to the row of an item, its verdict and its effects.  *)
(***************************************************************************)
Rows == <<status, memories, ingested, synced, verdict, verdicts>>
Sets(i, s) ==
  /\ status' \in [Items -> Statuses] /\ status'[i] = s /\ \A j \in Items \ {i} : status'[j] = status[j]

Proposed == \E i \in Items : \E s \in {Pending, "allowed", "denied"} :
  /\ status[i] = "absent" /\ Sets(i, s) /\ (i \notin Actions => s = Pending)
  /\ UNCHANGED <<pc, item, approves, effects, verdict, verdicts, faults, crashes>>
Picked(d) ==
  /\ \E i \in Items : /\ pc[d] = "free" /\ item'[d] = i /\ status[i] = Pending
                      /\ pc'[d] = (IF approves'[d] /\ i \in Proposals THEN "remember" ELSE "write")
  /\ Moves(d) /\ UNCHANGED <<Rows, faults, crashes>>
Remembers(d) ==
  /\ pc[d] = "remember" /\ Goes(d, "write") /\ memories' = memories \union {item[d]}
  /\ UNCHANGED <<status, ingested, synced, verdict, verdicts, faults, crashes>>
Writes(d) ==
  /\ pc[d] = "write" /\ Goes(d, "audit") /\ Sets(item[d], Decision(d))
  /\ verdict' = [verdict EXCEPT ![item[d]] = Decision(d)]
  /\ verdicts' = [verdicts EXCEPT ![item[d]] = @ + 1]
  /\ UNCHANGED <<effects, faults, crashes>>
Passes(d) ==
  /\ \/ pc[d] = "audit" /\ IF approves[d] /\ item[d] \in Refreshes THEN Goes(d, "task") ELSE Leaves(d)
     \/ pc[d] = "task" /\ IF status[item[d]] = "queued" THEN Goes(d, "claim") ELSE Leaves(d)
     \/ pc[d] = "claim" /\ status[item[d]] # "queued" /\ Leaves(d)
     \/ pc[d] = "tell" /\ Leaves(d)
  /\ UNCHANGED <<Rows, faults, crashes>>
Claims(d) ==
  /\ pc[d] = "claim" /\ status[item[d]] = "queued" /\ Goes(d, "ingest") /\ Sets(item[d], "running")
  /\ UNCHANGED <<effects, verdict, verdicts, faults, crashes>>
Ingests(d) ==
  /\ pc[d] = "ingest" /\ Goes(d, "enqueue") /\ ingested' = ingested \union {item[d]}
  /\ UNCHANGED <<status, memories, synced, verdict, verdicts, faults, crashes>>
Enqueues(d) ==
  /\ pc[d] = "enqueue" /\ Goes(d, "succeed") /\ synced' = synced \union {item[d]}
  /\ UNCHANGED <<status, memories, ingested, verdict, verdicts, faults, crashes>>
Succeeds(d) ==
  /\ pc[d] = "succeed" /\ Goes(d, "tell") /\ Sets(item[d], "succeeded")
  /\ UNCHANGED <<effects, verdict, verdicts, faults, crashes>>
FailsRow(d) ==
  /\ pc[d] = "fail" /\ Leaves(d) /\ Sets(item[d], "failed")
  /\ UNCHANGED <<effects, verdict, verdicts, faults, crashes>>
Breaks(d) ==
  /\ pc[d] # "free" /\ faults' = faults + 1 /\ crashes' = crashes /\ UNCHANGED Rows
  /\ \/ Leaves(d)
     \/ Goes(d, "fail") /\ pc[d] \in {"ingest", "enqueue", "succeed", "tell"}
Ends ==
  /\ crashes' = crashes + 1 /\ faults' = faults /\ UNCHANGED Rows /\ ThreadsTyped'
  /\ \A d \in Deciders : pc'[d] = "free" /\ item'[d] = None
Stays == UNCHANGED <<Rows, pc, item, approves, faults, crashes>>

Acts(d) ==
  \/ Picked(d) \/ Remembers(d) \/ Writes(d) \/ Passes(d) \/ Claims(d) \/ Ingests(d) \/ Enqueues(d)
  \/ Succeeds(d) \/ FailsRow(d) \/ Breaks(d)

\* A status that is written is one of the vocabulary, and no other changes.
LEMMA StatusSet ==
    ASSUME RowsTyped, NEW i \in Items, NEW s \in Statuses, SetStatus(i, s)
    PROVE  Sets(i, s)
  BY DEF RowsTyped, SetStatus, Sets

\* The steps of the model do what is listed above.
LEMMA Steps ==
    ASSUME Typed, [Next]_vars
    PROVE  Stays \/ Ends \/ Proposed \/ \E d \in Deciders : Acts(d)
  <1> USE DEF Typed
  <1>1. CASE UNCHANGED vars
    BY <1>1 DEF vars, effects, history, Stays, Rows
  <1>2. CASE Crash
    <2>1. ThreadsTyped' /\ \A d \in Deciders : pc'[d] = "free" /\ item'[d] = None
      BY <1>2 DEF Crash, ThreadsTyped, Places
    <2> QED BY <1>2, <2>1 DEF Crash, Ends, Rows, effects, history
  <1>3. ASSUME NEW i \in Items, ProposeCommand(i) \/ ProposeRefresh(i) \/ ProposeMemory(i)
        PROVE  Proposed
    <2>1. PICK s \in {Pending, "allowed", "denied"} : Insert(i, s) /\ (i \notin Actions => s = Pending)
      BY <1>3 DEF ProposeCommand, ProposeRefresh, ProposeMemory
    <2>2. s \in Statuses
      BY DEF Statuses, Settled
    <2>3. Sets(i, s)
      BY <2>1, <2>2, StatusSet DEF Insert
    <2> QED BY <2>1, <2>3 DEF Insert, Proposed, effects, history, Faultless
  <1>4. ASSUME NEW d \in Deciders, NEW i \in Items, Read(d, i)
        PROVE  Acts(d)
    BY <1>4, ReadMoves DEF Read, Acts, Picked, Rows, effects, history, Faultless
  <1>5. ASSUME NEW d \in Deciders, pc[d] # "free"
        PROVE  /\ item[d] \in Items
               /\ \A place \in Places \ {"free"} : Go(d, place) => Goes(d, place)
               /\ Leave(d) => Leaves(d)
               /\ \A s \in Statuses : SetStatus(item[d], s) => Sets(item[d], s)
    BY <1>5, GoMoves, LeaveMoves, StatusSet DEF ThreadsTyped
  <1>6. ASSUME NEW d \in Deciders, Resolve(d)
        PROVE  Acts(d)
    <2> USE <1>6, <1>5 DEF Acts, effects, history, Faultless, Rows, Places, Unwritten, At
    <2>1. CASE Remember(d)
      BY <2>1 DEF Remember, Remembers
    <2>2. CASE Write(d)
      BY <2>2 DEF Write, Writes, Statuses, Settled, Decision
    <2>3. CASE Audit(d)
      BY <2>3 DEF Audit, Passes
    <2> QED BY <2>1, <2>2, <2>3 DEF Resolve
  <1>7. ASSUME NEW d \in Deciders, Refresh(d)
        PROVE  Acts(d)
    <2> USE <1>7, <1>5 DEF Acts, effects, history, Faultless, Rows, Places, Unwritten, At
    <2>1. CASE ReadQueued(d)
      BY <2>1 DEF ReadQueued, Passes
    <2>2. CASE Claim(d)
      BY <2>2 DEF Claim, Claims, Passes, Statuses
    <2>3. CASE Ingest(d)
      BY <2>3 DEF Ingest, Ingests
    <2>4. CASE Enqueue(d)
      BY <2>4 DEF Enqueue, Enqueues
    <2>5. CASE Succeed(d)
      BY <2>5 DEF Succeed, Succeeds, Statuses, Settled
    <2>6. CASE Tell(d)
      BY <2>6 DEF Tell, Passes
    <2>7. CASE Fail(d)
      BY <2>7 DEF Fail, FailsRow, Statuses, Settled
    <2> QED BY <2>1, <2>2, <2>3, <2>4, <2>5, <2>6, <2>7 DEF Refresh
  <1>8. ASSUME NEW d \in Deciders, Fails(d)
        PROVE  Acts(d)
    <2> USE <1>8, <1>5 DEF Acts, Breaks, effects, history, Fault, Rows, Places, Unwritten, At
    <2>1. CASE ResolveRaises(d)
      BY <2>1 DEF ResolveRaises
    <2>2. CASE AuditRaises(d)
      BY <2>2 DEF AuditRaises
    <2>3. CASE RefreshRaises(d)
      BY <2>3 DEF RefreshRaises, InTry
    <2>4. CASE RefreshDies(d)
      BY <2>4 DEF RefreshDies
    <2> QED BY <2>1, <2>2, <2>3, <2>4 DEF Fails
  <1> QED BY <1>1, <1>2, <1>3, <1>4, <1>6, <1>7, <1>8 DEF Next

-----------------------------------------------------------------------------
(***************************************************************************)
(* The first invariant: types, what a thread's place tells of its item,    *)
(* and that a queued request was approved last.                            *)
(***************************************************************************)
Known(d) ==
  /\ pc[d] = "remember" => approves[d] /\ item[d] \in Proposals
  /\ pc[d] \notin Unwritten \union {"free"} => verdicts[item[d]] >= 1
  /\ pc[d] \notin Unwritten \union {"free", "audit"} => item[d] \in Refreshes

\* An item nobody decided is as it was proposed.
Undecided(i) ==
  verdicts[i] = 0 /\ i \notin Actions =>
    status[i] \in {"absent", Pending} /\ i \notin ingested /\ i \notin synced

QueuedApproved == \A i \in Items : status[i] = "queued" => verdict[i] = "queued"

RowInv ==
  /\ Typed /\ (\A d \in Deciders : Known(d)) /\ (\A i \in Items : Undecided(i)) /\ QueuedApproved

LEMMA DecisionIs ==
    ASSUME Typed, NEW d \in Deciders
    PROVE  Decision(d) \in {"denied", "queued", "approved"}
  BY DEF Decision

LEMMA TypedStep ==
    ASSUME Typed, [Next]_vars
    PROVE  Typed'
  <1> USE DEF Typed
  <1>1. CASE Stays
    BY <1>1 DEF Stays, Rows, ThreadsTyped, RowsTyped
  <1>2. CASE Ends
    BY <1>2 DEF Ends, Rows, RowsTyped
  <1>3. CASE Proposed
    BY <1>3 DEF Proposed, Sets, effects, ThreadsTyped, RowsTyped
  <1>4. ASSUME NEW d \in Deciders, Acts(d)
        PROVE  Typed'
    <2> USE DEF RowsTyped, Rows, effects, Goes, Leaves, Moves
    <2>0. pc[d] # "free" => item[d] \in Items
      BY DEF ThreadsTyped
    <2>1. CASE Picked(d)
      BY <2>1 DEF Picked
    <2>2. CASE Remembers(d)
      BY <2>0, <2>2 DEF Remembers
    <2>3. CASE Writes(d)
      BY <2>0, <2>3, DecisionIs DEF Writes, Sets, Verdicts
    <2>4. CASE Passes(d)
      BY <2>4 DEF Passes
    <2>5. CASE Claims(d) \/ Succeeds(d) \/ FailsRow(d)
      BY <2>5 DEF Claims, Succeeds, FailsRow, Sets
    <2>6. CASE Ingests(d) \/ Enqueues(d)
      BY <2>0, <2>6 DEF Ingests, Enqueues
    <2>7. CASE Breaks(d)
      BY <2>7 DEF Breaks
    <2> QED BY <1>4, <2>1, <2>2, <2>3, <2>4, <2>5, <2>6, <2>7 DEF Acts
  <1> QED BY <1>1, <1>2, <1>3, <1>4, Steps

\* A step of a decider touches its own item at most.
LEMMA OwnItem ==
    ASSUME Typed, NEW d \in Deciders, Acts(d), NEW i \in Items, item[d] # i
    PROVE  /\ status'[i] = status[i] /\ verdict'[i] = verdict[i] /\ verdicts'[i] = verdicts[i]
           /\ (i \in memories' <=> i \in memories) /\ (i \in ingested' <=> i \in ingested)
           /\ (i \in synced' <=> i \in synced)
  <1> USE DEF Typed, RowsTyped, Rows, effects
  <1>0. pc[d] # "free" => item[d] \in Items
    BY DEF ThreadsTyped
  <1>1. CASE Picked(d) \/ Passes(d) \/ Breaks(d)
    BY <1>1 DEF Picked, Passes, Breaks
  <1>2. CASE Remembers(d) \/ Ingests(d) \/ Enqueues(d)
    BY <1>2 DEF Remembers, Ingests, Enqueues
  <1>3. CASE Writes(d) \/ Claims(d) \/ Succeeds(d) \/ FailsRow(d)
    BY <1>0, <1>3 DEF Writes, Claims, Succeeds, FailsRow, Sets
  <1> QED BY <1>1, <1>2, <1>3 DEF Acts

\* Verdicts are never taken back.
LEMMA VerdictsGrow ==
    ASSUME Typed, NEW d \in Deciders, Acts(d), NEW i \in Items
    PROVE  verdicts'[i] >= verdicts[i] /\ (verdicts'[i] = verdicts[i] \/ (Writes(d) /\ item[d] = i))
  <1>0. /\ verdicts \in [Items -> Nat] /\ verdicts[i] \in Nat
        /\ (pc[d] # "free" => item[d] \in Items)
    BY DEF Typed, RowsTyped, ThreadsTyped
  <1>1. CASE Writes(d) /\ item[d] = i
    <2>1. verdicts' = [verdicts EXCEPT ![i] = @ + 1]
      BY <1>1 DEF Writes
    <2>2. verdicts'[i] = verdicts[i] + 1
      BY <1>0, <2>1
    <2> QED BY <1>0, <1>1, <2>2
  <1>2. CASE item[d] # i
    <2>1. verdicts'[i] = verdicts[i]
      BY <1>2, OwnItem
    <2> QED BY <1>0, <2>1
  <1>3. CASE ~Writes(d)
    <2>1. verdicts' = verdicts
      BY <1>3 DEF Acts, Picked, Passes, Breaks, Remembers, Ingests, Enqueues, Claims, Succeeds, FailsRow, Rows
    <2> QED BY <1>0, <2>1
  <1> QED BY <1>1, <1>2, <1>3

LEMMA RowInvStep ==
    ASSUME RowInv, [Next]_vars
    PROVE  RowInv'
  <1> USE DEF RowInv
  <1>0. Typed'
    BY TypedStep
  <1>1. CASE Stays
    BY <1>0, <1>1 DEF Stays, Rows, Known, Undecided, QueuedApproved
  <1>2. CASE Ends
    BY <1>0, <1>2 DEF Ends, Rows, Known, Undecided, QueuedApproved
  <1>3. CASE Proposed
    <2>1. \A d \in Deciders : Known(d)'
      BY <1>3 DEF Proposed, Known
    <2>2. \A i \in Items : Undecided(i)'
      BY <1>3 DEF Proposed, Sets, effects, Undecided
    <2>3. QueuedApproved'
      BY <1>3 DEF Proposed, Sets, QueuedApproved, Pending
    <2> QED BY <1>0, <2>1, <2>2, <2>3
  <1>4. ASSUME NEW d \in Deciders, Acts(d)
        PROVE  RowInv'
    <2>0. Known(d) /\ (pc[d] # "free" => item[d] \in Items)
      BY DEF Typed, ThreadsTyped
    <2>1. ASSUME NEW e \in Deciders
          PROVE  Known(e)'
      <3>1. CASE e # d
        <4>1. pc'[e] = pc[e] /\ item'[e] = item[e] /\ approves'[e] = approves[e]
          BY <1>4, <3>1 DEF Acts, Picked, Remembers, Writes, Passes, Claims, Ingests, Enqueues, Succeeds, FailsRow,
                          Breaks, Goes, Leaves, Moves
        <4>2. pc[e] # "free" => item[e] \in Items /\ verdicts'[item[e]] >= verdicts[item[e]]
          BY <1>4, VerdictsGrow DEF Typed, ThreadsTyped
        <4>3. pc[e] # "free" => verdicts[item[e]] \in Nat /\ verdicts'[item[e]] \in Nat
          BY <1>0, <4>2 DEF Typed, RowsTyped
        <4> QED BY <4>1, <4>2, <4>3 DEF Known
      <3>2. CASE e = d
        <4> USE <2>0, <3>2 DEF Known, Unwritten, Goes, Leaves, Moves
        <4>1. CASE Picked(d)
          BY <4>1 DEF Picked
        <4>2. CASE Remembers(d)
          BY <4>2 DEF Remembers
        <4>3. CASE Writes(d)
          <5>1. verdicts'[item[d]] >= 1
            BY <4>3 DEF Writes, Typed, RowsTyped
          <5> QED BY <4>3, <5>1 DEF Writes
        <4>4. CASE Passes(d)
          BY <4>4 DEF Passes, Rows
        <4>5. CASE Claims(d) \/ Ingests(d) \/ Enqueues(d) \/ Succeeds(d)
          BY <4>5 DEF Claims, Ingests, Enqueues, Succeeds
        <4>6. CASE FailsRow(d) \/ Breaks(d)
          BY <4>6 DEF FailsRow, Breaks, Rows
        <4> QED BY <1>4, <4>1, <4>2, <4>3, <4>4, <4>5, <4>6 DEF Acts
      <3> QED BY <3>1, <3>2
    <2>2. ASSUME NEW i \in Items
          PROVE  Undecided(i)' /\ (status'[i] = "queued" => verdict'[i] = "queued")
      <3>1. CASE item[d] # i
        BY <1>4, <3>1, OwnItem DEF Undecided, QueuedApproved
      <3>2. CASE item[d] = i
        <4> USE <2>0, <3>2 DEF Undecided, QueuedApproved, Rows, effects
        <4>1. CASE Picked(d) \/ Passes(d) \/ Breaks(d) \/ Remembers(d)
          BY <4>1 DEF Picked, Passes, Breaks, Remembers
        <4>2. CASE Writes(d)
          <5>1. verdicts'[i] >= 1 /\ status'[i] = Decision(d) /\ verdict'[i] = Decision(d)
            BY <4>2 DEF Writes, Sets, Typed, RowsTyped
          <5> QED BY <5>1
        <4>3. CASE Claims(d) \/ Succeeds(d) \/ FailsRow(d) \/ Ingests(d) \/ Enqueues(d)
          <5>1. verdicts[i] >= 1 /\ verdicts' = verdicts /\ verdict' = verdict
            BY <4>3 DEF Claims, Succeeds, FailsRow, Ingests, Enqueues, Known, Unwritten
          <5>2. status'[i] # "queued" \/ status'[i] = status[i]
            BY <4>3 DEF Claims, Succeeds, FailsRow, Ingests, Enqueues, Sets
          <5> QED BY <5>1, <5>2
        <4> QED BY <1>4, <4>1, <4>2, <4>3 DEF Acts
      <3> QED BY <3>1, <3>2
    <2> QED BY <1>0, <2>1, <2>2 DEF QueuedApproved
  <1> QED BY <1>1, <1>2, <1>3, <1>4, Steps

LEMMA RowInvInit == Init => RowInv
  <1> SUFFICES ASSUME Init PROVE RowInv
    OBVIOUS
  <1>1. Typed
    BY DEF Init, Typed, ThreadsTyped, RowsTyped, Places, Statuses, Verdicts
  <1>2. (\A d \in Deciders : Known(d)) /\ (\A i \in Items : Undecided(i)) /\ QueuedApproved
    BY DEF Init, Known, Undecided, QueuedApproved, Unwritten
  <1> QED BY <1>1, <1>2 DEF RowInv

\* Every reachable state is typed, no undecided item had an effect, and a
\* queued request was approved last.
THEOREM InboxInductive == Spec => []RowInv
  BY RowInvInit, RowInvStep, PTL DEF Spec

\* A denial that comes before the background task's claim stops it.
THEOREM DeniedStaysUnread == Spec => DenialStops
  <1>1. ASSUME RowInv, [Next]_vars
        PROVE  [\A i \in Refreshes : status[i] # "running" /\ status'[i] = "running" => verdict[i] = "queued"]_vars
    <2> SUFFICES ASSUME NEW i \in Refreshes, status[i] # "running", status'[i] = "running"
                 PROVE  verdict[i] = "queued"
      OBVIOUS
    <2>0. i \in Items
      BY DEF Items
    <2>1. ~Stays /\ ~Ends /\ ~Proposed
      BY <2>0 DEF Stays, Ends, Rows, Proposed, Sets, Pending
    <2>2. PICK d \in Deciders : Acts(d)
      BY <1>1, <2>1, Steps DEF RowInv
    <2>3. item[d] = i
      BY <1>1, <2>0, <2>2, OwnItem DEF RowInv
    <2>4. Decision(d) # "running"
      BY DEF Decision
    <2>5. Claims(d)
      BY <2>0, <2>2, <2>3, <2>4 DEF Acts, Picked, Remembers, Writes, Passes, Ingests, Enqueues, Succeeds, FailsRow,
                                    Breaks, Rows, Sets
    <2> QED BY <1>1, <2>0, <2>3, <2>5 DEF Claims, RowInv, QueuedApproved
  <1> QED BY <1>1, InboxInductive, PTL DEF Spec, DenialStops

\* An item that is settled and that nobody holds is never picked up again.
THEOREM SettledItemsRest == Spec => SettledRests
  <1>1. ASSUME RowInv, [Next]_vars
        PROVE  [\A i \in Items : status[i] \in Settled /\ ~Held(i) => status'[i] = status[i] /\ ~Held(i)']_vars
    <2> SUFFICES ASSUME NEW i \in Items, status[i] \in Settled, ~Held(i)
                 PROVE  status'[i] = status[i] /\ ~Held(i)'
      OBVIOUS
    <2>1. CASE Stays
      BY <2>1 DEF Stays, Rows, Held
    <2>2. CASE Ends
      BY <2>2, DecisionAssumption DEF Ends, Rows, Held
    <2>3. CASE Proposed
      BY <2>3 DEF Proposed, Sets, Held, Settled
    <2>4. ASSUME NEW d \in Deciders, Acts(d)
          PROVE  status'[i] = status[i] /\ ~Held(i)'
      <3>1. item[d] # i /\ status[i] # Pending
        BY DEF Held, Settled, Pending
      <3>2. status'[i] = status[i]
        BY <1>1, <2>4, <3>1, OwnItem DEF RowInv
      <3>3. ASSUME NEW e \in Deciders
            PROVE  item'[e] # i
        BY <2>4, <3>1, DecisionAssumption
           DEF Acts, Picked, Remembers, Writes, Passes, Claims, Ingests, Enqueues, Succeeds, FailsRow,
               Breaks, Goes, Leaves, Moves, Held
      <3> QED BY <3>2, <3>3 DEF Held
    <2> QED BY <1>1, <2>1, <2>2, <2>3, <2>4, Steps DEF RowInv
  <1> QED BY <1>1, InboxInductive, PTL DEF Spec, SettledRests

-----------------------------------------------------------------------------
(***************************************************************************)
(* What a decision does.  The invariant says it of every item that was     *)
(* decided at most once while nothing failed: where its thread stands      *)
(* tells how much of the decision is done.                                 *)
(***************************************************************************)
Past(d) == pc[d] \notin Unwritten \union {"free"}
Approving(d, i) == pc[d] = "write" /\ item[d] = i /\ approves[d]

\* One decision at most, and nothing went wrong.
Calm(i) == verdicts[i] <= 1 /\ faults = 0 /\ crashes = 0

\* A proposed memory: who approves writes it before the verdict.
Remembered(i) ==
  /\ verdict[i] = "approved" => i \in memories
  /\ i \in memories => verdict[i] = "approved" \/ \E d \in Deciders : Approving(d, i)
  /\ \A d \in Deciders : Approving(d, i) => i \in memories

\* A refresh: how far the thread that decided it is tells what was done.
Progress(d, i) ==
  /\ pc[d] # "fail" /\ verdict[i] \in {"denied", "queued"}
  /\ (approves[d] <=> verdict[i] = "queued") /\ (pc[d] # "audit" => approves[d])
  /\ pc[d] \in {"audit", "task", "claim"} => status[i] = verdict[i] /\ i \notin ingested /\ i \notin synced
  /\ pc[d] \in {"ingest", "enqueue", "succeed"} => status[i] = "running"
  /\ pc[d] = "ingest" => i \notin ingested
  /\ pc[d] \in {"enqueue", "succeed", "tell"} => i \in ingested
  /\ pc[d] \in {"ingest", "enqueue"} => i \notin synced
  /\ pc[d] \in {"succeed", "tell"} => i \in synced
  /\ pc[d] = "tell" => status[i] = "succeeded"

Ended(i) ==
  \/ verdict[i] = "denied" /\ status[i] = "denied" /\ i \notin ingested /\ i \notin synced
  \/ verdict[i] = "queued" /\ status[i] = "succeeded" /\ i \in ingested /\ i \in synced

Refreshed(i) ==
  /\ \A d \in Deciders : item[d] = i /\ Past(d) => Progress(d, i)
  /\ \A d, e \in Deciders : item[d] = i /\ Past(d) /\ item[e] = i /\ Past(e) => d = e
  /\ verdicts[i] = 1 => Ended(i) \/ \E d \in Deciders : item[d] = i /\ Past(d)

Effect(i) ==
  /\ verdicts[i] = 0 => verdict[i] = None
  /\ i \in Proposals /\ verdicts[i] = 1 => status[i] = verdict[i]
  /\ i \in Proposals => Remembered(i)
  /\ i \in Refreshes => Refreshed(i)

EffectInv == \A i \in Items : Calm(i) => Effect(i)

LEMMA EffectInit == Init => EffectInv
  BY DEF Init, EffectInv, Effect, Remembered, Refreshed, Approving, Past, Unwritten, None

LEMMA CalmBefore ==
    ASSUME Typed, NEW i \in Items, Calm(i)', (\E d \in Deciders : Acts(d)) \/ Stays \/ Proposed
    PROVE  Calm(i) /\ ~\E d \in Deciders : Breaks(d)
  <1>t. verdicts[i] \in Nat /\ faults \in Nat /\ crashes \in Nat
    BY DEF Typed, RowsTyped
  <1>1. ASSUME NEW d \in Deciders, Breaks(d) PROVE FALSE
    BY <1>1, <1>t DEF Breaks, Calm
  <1>2. ASSUME NEW d \in Deciders, Acts(d) PROVE Calm(i)
    <2>1. faults' = faults /\ crashes' = crashes
      BY <1>1, <1>2 DEF Acts, Picked, Remembers, Writes, Passes, Claims, Ingests, Enqueues, Succeeds, FailsRow
    <2>2. verdicts'[i] >= verdicts[i] /\ (verdicts'[i] = verdicts[i] \/ (Writes(d) /\ item[d] = i))
      BY <1>2, VerdictsGrow
    <2>3. CASE verdicts'[i] = verdicts[i]
      BY <2>1, <2>3 DEF Calm
    <2>4. CASE Writes(d) /\ item[d] = i
      <3>1. verdicts'[i] = verdicts[i] + 1
        BY <2>4 DEF Writes, Typed, RowsTyped
      <3> QED BY <2>1, <3>1, <1>t DEF Calm
    <2> QED BY <2>2, <2>3, <2>4
  <1>3. CASE Stays \/ Proposed
    <2>1. UNCHANGED <<verdicts, faults, crashes>>
      BY <1>3 DEF Stays, Proposed, Rows
    <2> QED BY <1>1, <2>1 DEF Calm
  <1> QED BY <1>1, <1>2, <1>3

\* The other threads stand where they stood.
LEMMA OthersStand ==
    ASSUME NEW d \in Deciders, Acts(d), NEW e \in Deciders \ {d}
    PROVE  pc'[e] = pc[e] /\ item'[e] = item[e] /\ approves'[e] = approves[e]
  BY DEF Acts, Picked, Remembers, Writes, Passes, Claims, Ingests, Enqueues, Succeeds, FailsRow,
         Breaks, Goes, Leaves, Moves

\* A thread that was not at an item has no decision to carry out for it yet.
LEMMA Newcomer ==
    ASSUME NEW d \in Deciders, Acts(d), NEW i \in Items, item[d] # i, item'[d] = i
    PROVE  ~Past(d)' /\ (i \in Proposals => ~Approving(d, i)')
  <1>1. Picked(d)
    BY DecisionAssumption DEF Acts, Remembers, Writes, Passes, Claims, Ingests, Enqueues, Succeeds,
       FailsRow, Breaks, Goes, Leaves
  <1> QED BY <1>1 DEF Picked, Past, Approving, Unwritten

LEMMA EffectOfOthers ==
    ASSUME RowInv, NEW d \in Deciders, Acts(d), NEW i \in Items, item[d] # i, Effect(i)
    PROVE  Effect(i)'
  <1>1. /\ status'[i] = status[i] /\ verdict'[i] = verdict[i] /\ verdicts'[i] = verdicts[i]
        /\ (i \in memories' <=> i \in memories) /\ (i \in ingested' <=> i \in ingested)
        /\ (i \in synced' <=> i \in synced)
    BY OwnItem DEF RowInv
  <1>2. i \in Proposals => \A e \in Deciders : Approving(e, i)' <=> Approving(e, i)
    BY OthersStand, Newcomer DEF Approving
  <1>3. \A e \in Deciders : (item[e] = i /\ Past(e))' <=> item[e] = i /\ Past(e)
    BY OthersStand, Newcomer DEF Past
  <1>4. \A e \in Deciders : item[e] = i /\ Past(e) => (Progress(e, i)' <=> Progress(e, i))
    BY <1>1, OthersStand DEF Progress
  <1>5. i \in Refreshes /\ Refreshed(i) => Refreshed(i)'
    BY <1>1, <1>3, <1>4 DEF Refreshed, Ended
  <1>6. i \in Proposals /\ Remembered(i) => Remembered(i)'
    BY <1>1, <1>2 DEF Remembered
  <1> QED BY <1>1, <1>5, <1>6 DEF Effect

LEMMA EffectOfProposal ==
    ASSUME RowInv, Proposed, NEW i \in Items, Effect(i), Calm(i)
    PROVE  Effect(i)'
  <1>1. PICK j \in Items, s \in {Pending, "allowed", "denied"} :
          status[j] = "absent" /\ Sets(j, s) /\ UNCHANGED <<pc, item, approves, effects, verdict, verdicts, faults, crashes>>
    BY DEF Proposed
  <1>2. CASE j # i
    <2>1. status'[i] = status[i]
      BY <1>1, <1>2 DEF Sets
    <2> QED BY <1>1, <2>1 DEF effects, Effect, Remembered, Refreshed, Ended, Progress, Past, Approving
  <1>3. CASE j = i
    <2>1. /\ verdict[i] \in {"none", "denied", "queued", "approved"} /\ status[i] = "absent"
          /\ \A d \in Deciders : pc[d] \in Places
      BY <1>1, <1>3 DEF RowInv, Typed, RowsTyped, ThreadsTyped, Verdicts, None
    <2>2. i \in Refreshes => ~\E d \in Deciders : item[d] = i /\ Past(d)
      <3> SUFFICES ASSUME i \in Refreshes, NEW d \in Deciders, item[d] = i, Past(d) PROVE FALSE
        OBVIOUS
      <3>1. Progress(d, i)
        BY DEF Effect, Refreshed
      <3>2. pc[d] \in {"audit", "task", "claim", "ingest", "enqueue", "succeed", "tell"}
        BY <2>1, <3>1 DEF Progress, Past, Places, Unwritten
      <3> QED BY <2>1, <3>1, <3>2 DEF Progress
    <2>3. i \in Refreshes \/ i \in Proposals => verdicts[i] # 1
      BY <2>1, <2>2 DEF Effect, Refreshed, Ended
    <2> QED BY <1>1, <2>2, <2>3 DEF effects, Effect, Remembered, Refreshed, Past, Approving
  <1> QED BY <1>2, <1>3

\* The steps that carry out a decision, one place at a time.
LEMMA EffectOfThread ==
    ASSUME RowInv, NEW d \in Deciders, Acts(d), ~Breaks(d), NEW i \in Items, item[d] = i,
           Calm(i), Calm(i)', Effect(i)
    PROVE  Effect(i)'
  <1>t. /\ pc[d] \in Places /\ pc[d] # "free" /\ Known(d) /\ verdicts[i] \in Nat
        /\ verdict[i] \in {"none", "denied", "queued", "approved"}
        /\ i \in Items /\ i # None
        /\ verdicts \in [Items -> Nat] /\ verdict \in [Items -> Verdicts]
        /\ (i \in Refreshes => i \notin Proposals)
    BY DecisionAssumption DEF RowInv, Typed, ThreadsTyped, RowsTyped, Verdicts, None
  <1>o. \A e \in Deciders \ {d} :
          /\ pc'[e] = pc[e] /\ item'[e] = item[e] /\ approves'[e] = approves[e]
          /\ (item[e] = i /\ Past(e))' <=> item[e] = i /\ Past(e)
          /\ Approving(e, i)' <=> Approving(e, i)
    BY OthersStand DEF Past, Approving
  <1>p. /\ i \in Refreshes /\ Past(d) => Progress(d, i)
        /\ i \in Refreshes /\ Past(d) => \A e \in Deciders \ {d} : ~(item[e] = i /\ Past(e))
    BY DEF Effect, Refreshed
  <1>n. ~Picked(d)
    BY <1>t DEF Picked
  <1>1. CASE Remembers(d)
    <2>1. /\ i \in Proposals /\ Approving(d, i)' /\ i \in memories'
          /\ UNCHANGED <<status, verdict, verdicts>>
      BY <1>1, <1>t DEF Remembers, Goes, Known, Approving
    <2>2. Remembered(i)'
      BY <2>1, <1>o DEF Remembered
    <2> QED BY <2>1, <2>2, <1>t DEF Effect
  <1>2. CASE Writes(d)
    <2>1. /\ pc'[d] = "audit" /\ item'[d] = i /\ approves'[d] = approves[d] /\ pc[d] = "write"
          /\ status'[i] = Decision(d) /\ verdict'[i] = Decision(d)
          /\ verdicts'[i] = verdicts[i] + 1 /\ UNCHANGED <<memories, ingested, synced>>
      BY <1>2, <1>t DEF Writes, Goes, Sets, effects
    <2>2. verdicts[i] = 0 /\ verdicts'[i] = 1
      BY <2>1, <1>t DEF Calm
    <2>3. ASSUME i \in Proposals PROVE Remembered(i)'
      <3>1. Decision(d) = IF approves[d] THEN "approved" ELSE "denied"
        BY <2>3, <1>t DEF Decision
      <3>2. Remembered(i) /\ verdict[i] = None
        BY <2>2, <2>3 DEF Effect
      <3>3. approves[d] => i \in memories
        BY <2>1, <3>2 DEF Remembered, Approving
      <3>4. i \in memories => approves[d] \/ \E e \in Deciders \ {d} : Approving(e, i)
        BY <3>2 DEF Remembered, Approving, None
      <3>5. ~Approving(d, i)'
        BY <2>1 DEF Approving
      <3>6. \A e \in Deciders : Approving(e, i)' => Approving(e, i)
        BY <3>5, <1>o
      <3>7. i \in memories => verdict'[i] = "approved" \/ \E e \in Deciders : Approving(e, i)'
        BY <2>1, <3>1, <3>4, <1>o
      <3> QED BY <2>1, <3>1, <3>2, <3>3, <3>6, <3>7 DEF Remembered
    <2>4. ASSUME i \in Refreshes PROVE Refreshed(i)'
      <3>1. i \notin ingested /\ i \notin synced /\ i \notin Actions
        BY <2>2, <2>4, DecisionAssumption DEF RowInv, Undecided
      <3>2. Decision(d) = IF approves[d] THEN "queued" ELSE "denied"
        BY <2>4 DEF Decision
      <3>3. \A e \in Deciders \ {d} : ~(item[e] = i /\ Past(e))
        BY <2>2 DEF RowInv, Known, Past
      <3>4. Progress(d, i)'
        BY <2>1, <3>1, <3>2 DEF Progress
      <3>5. Past(d)'
        BY <2>1 DEF Past, Unwritten
      <3> QED BY <2>1, <3>3, <3>4, <3>5, <1>o DEF Refreshed
    <2> QED BY <2>1, <2>2, <2>3, <2>4 DEF Effect
  <1>f. ASSUME Past(d), i \in Refreshes, UNCHANGED <<verdict, verdicts>>,
               (item[d] = i /\ Past(d))' => Progress(d, i)',
               (item[d] = i /\ Past(d))' \/ Ended(i)'
        PROVE  Effect(i)'
    <2>1. \A e \in Deciders : (item[e] = i /\ Past(e))' => e = d
      BY <1>f, <1>o, <1>p
    <2> QED BY <1>f, <2>1, <1>t DEF Effect, Refreshed
  <1>3. CASE Passes(d) /\ i \in Proposals
    <2>1. pc[d] = "audit" /\ pc'[d] = "free" /\ UNCHANGED Rows
      BY <1>3, <1>t, DecisionAssumption DEF Passes, Known, Unwritten, Leaves
    <2>2. \A e \in Deciders : Approving(e, i)' <=> Approving(e, i)
      BY <2>1, <1>o DEF Approving
    <2> QED BY <1>3, <2>1, <2>2, <1>t DEF Rows, Effect, Remembered
  <1>4. CASE Passes(d) /\ i \in Refreshes
    <2>1. Past(d) /\ UNCHANGED Rows
      BY <1>4 DEF Passes, Past, Unwritten
    <2>2. Progress(d, i)
      BY <2>1, <1>4, <1>p
    <2>3. (item[d] = i /\ Past(d))' => Progress(d, i)'
      BY <1>4, <2>2, <1>t DEF Passes, Rows, Progress, Goes, Leaves
    <2>4. (item[d] = i /\ Past(d))' \/ Ended(i)'
      BY <1>4, <2>2, <1>t DEF Passes, Rows, Progress, Goes, Leaves, Past, Unwritten, Ended
    <2> QED BY <1>4, <1>f, <2>1, <2>3, <2>4 DEF Rows
  <1>5. CASE Claims(d) \/ Ingests(d) \/ Enqueues(d) \/ Succeeds(d)
    <2>1. Past(d) /\ Past(d)' /\ item'[d] = i /\ i \in Refreshes /\ UNCHANGED <<verdict, verdicts>>
      BY <1>5, <1>t DEF Claims, Ingests, Enqueues, Succeeds, Goes, Past, Unwritten, Known
    <2>2. Progress(d, i)
      BY <2>1, <1>p
    <2>3. Progress(d, i)'
      <3>1. CASE Claims(d)
        BY <3>1, <2>2 DEF Claims, Goes, Sets, effects, Progress
      <3>2. CASE Ingests(d)
        BY <3>2, <2>2 DEF Ingests, Goes, Progress
      <3>3. CASE Enqueues(d)
        BY <3>3, <2>2 DEF Enqueues, Goes, Progress
      <3>4. CASE Succeeds(d)
        BY <3>4, <2>2 DEF Succeeds, Goes, Sets, effects, Progress
      <3> QED BY <1>5, <3>1, <3>2, <3>3, <3>4
    <2> QED BY <1>f, <2>1, <2>3
  <1>6. CASE FailsRow(d)
    <2>1. Past(d) /\ i \in Refreshes /\ pc[d] = "fail"
      BY <1>6, <1>t DEF FailsRow, Past, Unwritten, Known
    <2> QED BY <2>1, <1>p DEF Progress
  <1>7. CASE Passes(d) /\ i \in Actions
    <2>1. UNCHANGED <<verdict, verdicts>>
      BY <1>7 DEF Passes, Rows
    <2> QED BY <1>7, <2>1, DecisionAssumption DEF Effect
  <1> QED BY <1>1, <1>2, <1>3, <1>4, <1>5, <1>6, <1>7, <1>n DEF Acts, Items

LEMMA EffectStep ==
    ASSUME RowInv, EffectInv, [Next]_vars
    PROVE  EffectInv'
  <1> SUFFICES ASSUME NEW i \in Items, Calm(i)' PROVE Effect(i)'
    BY DEF EffectInv
  <1>1. CASE Ends
    BY <1>1 DEF Ends, Calm, RowInv, Typed
  <1>2. ASSUME NEW d \in Deciders, Acts(d) PROVE Effect(i)'
    <2>1. Calm(i) /\ ~Breaks(d) /\ Effect(i)
      BY <1>2, CalmBefore DEF RowInv, EffectInv
    <2> QED BY <1>2, <2>1, EffectOfThread, EffectOfOthers
  <1>3. CASE Proposed
    BY <1>3, CalmBefore, EffectOfProposal DEF RowInv, EffectInv
  <1>4. CASE Stays
    <2>1. Effect(i)
      BY <1>4, CalmBefore DEF RowInv, EffectInv
    <2> QED BY <1>4, <2>1 DEF Stays, Rows, Effect, Remembered, Refreshed, Ended, Progress, Past, Approving
  <1> QED BY <1>1, <1>2, <1>3, <1>4, Steps DEF RowInv

(***************************************************************************)
(* What one person decided is what was done once the thread is through.    *)
(***************************************************************************)
THEOREM DecisionsTakeEffect == Spec => []DecisionTakesEffect
  <1>1. RowInv /\ EffectInv => DecisionTakesEffect
    <2> SUFFICES ASSUME RowInv, EffectInv, NEW i \in Items,
                        verdicts[i] <= 1, faults = 0, crashes = 0, ~Held(i)
                 PROVE  /\ i \in Proposals => (status[i] = "approved" <=> i \in memories)
                        /\ i \in Refreshes => (status[i] = "succeeded" <=> i \in synced)
                        /\ i \in Refreshes => (verdict[i] = "queued" <=> i \in ingested)
      BY DEF DecisionTakesEffect
    <2>1. Effect(i) /\ Undecided(i) /\ (verdicts[i] = 0 \/ verdicts[i] = 1)
      BY DEF EffectInv, Calm, RowInv, Typed, RowsTyped
    <2>2. \A d \in Deciders : item[d] # i
      BY DEF Held
    <2>3. i \in Refreshes \/ i \in Proposals => i \notin Actions
      BY DecisionAssumption
    <2>4. CASE verdicts[i] = 0
      <3>1. verdict[i] = None /\ (i \notin Actions => status[i] \in {"absent", Pending} /\ i \notin ingested /\ i \notin synced)
        BY <2>1, <2>4 DEF Effect, Undecided
      <3>2. i \in Proposals => i \notin memories
        BY <2>1, <2>2, <3>1 DEF Effect, Remembered, Approving, None
      <3> QED BY <2>3, <3>1, <3>2 DEF None, Pending
    <2>5. CASE verdicts[i] = 1
      <3>1. i \in Proposals => (status[i] = "approved" <=> i \in memories)
        BY <2>1, <2>2, <2>5 DEF Effect, Remembered, Approving
      <3>2. i \in Refreshes => Ended(i)
        BY <2>1, <2>2, <2>5 DEF Effect, Refreshed
      <3> QED BY <3>1, <3>2 DEF Ended
    <2> QED BY <2>1, <2>4, <2>5
  <1> QED
    BY <1>1, EffectInit, EffectStep, InboxInductive, PTL DEF Spec
=============================================================================
