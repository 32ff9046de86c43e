---------------------------- MODULE ReviewsProofs ----------------------------
(* Proofs about reviews, for every number of threads, ids and requests. *)
EXTENDS Reviews, SequenceTheorems, TLAPS

(***************************************************************************)
(* The inductive invariant.  What a thread knows from its reads:           *)
(***************************************************************************)
\* A save holds a row of its own, and a thread that proposes a row it read.
RowKnown(t) ==
  /\ Saving(t) \/ work[t].next = "judge" =>
       work[t].row.id \in Ids /\ work[t].row.steps \in Extractions
  /\ pc[t] \in {"look", "create"} => work[t].step >= 1
  /\ At(t, "create") => work[t].step <= Len(work[t].row.steps)
  /\ At(t, "file") => work[t].next = "judge"

RowsKnown ==
  /\ runbook = NoRunbook \/ (runbook.id \in Ids /\ runbook.steps \in Extractions)
  /\ \A t \in Threads : RowKnown(t)

\* A save has left a claim behind for every step it has passed.
Covered(id, n) == \A k \in 1..n : ClaimsOf(id, k) # {}
Passed ==
  \A t \in Threads : pc[t] \in {"look", "create"} => Covered(work[t].row.id, work[t].step - 1)

\* A step without a claim is still ahead of a save of the same row.
Ahead(t, k) ==
  /\ pc[t] \in {"look", "create"} /\ work[t].row.id = runbook.id
  /\ work[t].step <= k /\ k <= Len(work[t].row.steps)

StepsAhead ==
  ~broken => \A k \in DOMAIN runbook.steps :
    ClaimsOf(runbook.id, k) # {} \/ \E t \in Threads : Ahead(t, k)

\* What threads hold are claims; only a decision takes one out of proposed.
Undecided(c) == claims[c].status = "proposed" /\ claims[c].policy # "dismissed"
ClaimHeld(t) ==
  /\ work[t].todo \subseteq DOMAIN claims
  /\ At(t, "flagging") => work[t].claim \in reviewed
  /\ At(t, "dismiss") => work[t].claim \in DOMAIN claims /\ work[t].was \in Statuses

ClaimsKnown ==
  /\ \A c \in DOMAIN claims : Undecided(c) \/ c \in reviewed
  /\ \A t \in Threads : ClaimHeld(t)

\* While a proposal is undisturbed, nobody saves and the row read is the row.
Calm(t) ==
  /\ pc[t] \in {"listing", "file"} /\ work[t].next = "judge"
  /\ ~broken /\ \A u \in Threads : ~Saving(u)
  /\ runbook # NoRunbook /\ runbook = work[t].row

CalmIsCalm == \A t \in Threads : work[t].calm => Calm(t)

\* Every step up to n has a claim, and all claims of these steps are decided.
Settled(id, n) ==
  \A k \in 1..n : ClaimsOf(id, k) # {} /\ ClaimsOf(id, k) \subseteq reviewed

TrustIsEarned ==
  \A t \in Threads : At(t, "file") /\ Relies(work[t]) =>
    Settled(work[t].row.id, Len(work[t].row.steps))

\* No claim is added to a step that a trusted proposal rests on.
Rested(p) ==
  /\ Settled(p.runbook, p.steps)
  /\ \A t \in Threads : At(t, "create") /\ work[t].row.id = p.runbook => work[t].step > p.steps

TrustIsKept == \A p \in proposals : Relies(p) => Rested(p)

IInv == /\ TypeOK /\ RowsKnown /\ Passed /\ StepsAhead /\ ClaimsKnown
        /\ CalmIsCalm /\ TrustIsEarned /\ TrustIsKept /\ DecisionsStand

-----------------------------------------------------------------------------
(***************************************************************************)
(* Writing to a claim, and adding one.                                     *)
(***************************************************************************)
LEMMA SetClaimKeeps ==
    ASSUME claims \in Seq(Claims), NEW c \in DOMAIN claims, NEW status \in Statuses,
           NEW policy \in Policies, SetClaim(c, status, policy)
    PROVE  /\ claims' \in Seq(Claims) /\ DOMAIN claims' = DOMAIN claims
           /\ claims'[c].status = status /\ claims'[c].policy = policy
           /\ \A d \in DOMAIN claims : /\ claims'[d].of = claims[d].of
                                       /\ d # c => claims'[d] = claims[d]
  <1> DEFINE new == [claims[c] EXCEPT !.status = status, !.policy = policy]
  <1>1. DOMAIN claims = 1..Len(claims) /\ claims \in [1..Len(claims) -> Claims]
    BY LenProperties
  <1>2. /\ new \in Claims /\ new.of = claims[c].of
        /\ new.status = status /\ new.policy = policy
    BY <1>1 DEF Claims
  <1>3. claims' = [claims EXCEPT ![c] = new]
    BY <1>1 DEF SetClaim
  <1> HIDE DEF new
  <1>4. claims' \in Seq(Claims) /\ Len(claims') = Len(claims)
    BY <1>1, <1>2, <1>3, ExceptSeq
  <1>5. DOMAIN claims' = DOMAIN claims
    BY <1>3
  <1>6. \A d \in DOMAIN claims : claims'[d] = IF d = c THEN new ELSE claims[d]
    BY <1>3
  <1> QED
    BY <1>2, <1>4, <1>5, <1>6

LEMMA ClaimsTyped ==
    ASSUME claims \in Seq(Claims)
    PROVE  \A c \in DOMAIN claims : /\ c \in Nat /\ claims[c].of \in Ids \X Nat
                                    /\ claims[c].status \in Statuses /\ claims[c].policy \in Policies
  <1>1. DOMAIN claims = 1..Len(claims) /\ claims \in [1..Len(claims) -> Claims]
    BY LenProperties
  <1>2. \A c \in DOMAIN claims : c \in Nat /\ claims[c] \in Claims
    BY <1>1
  <1> QED BY <1>2 DEF Claims

LEMMA CreateAdds ==
    ASSUME claims \in Seq(Claims), NEW claim \in Claims, claims' = Append(claims, claim)
    PROVE  /\ claims' \in Seq(Claims)
           /\ DOMAIN claims' = DOMAIN claims \union {Len(claims) + 1}
           /\ claims'[Len(claims) + 1] = claim
           /\ \A d \in DOMAIN claims : claims'[d] = claims[d]
  <1>1. DOMAIN claims = 1..Len(claims) /\ Len(claims) \in Nat
    BY LenProperties
  <1>2. /\ claims' \in Seq(Claims) /\ Len(claims') = Len(claims) + 1
        /\ \A d \in 1..Len(claims) : claims'[d] = claims[d]
        /\ claims'[Len(claims) + 1] = claim
    BY AppendProperties
  <1>3. DOMAIN claims' = 1..Len(claims')
    BY <1>2, LenProperties
  <1> QED
    BY <1>1, <1>2, <1>3

\* The steps of a row are numbered from 1.
LEMMA StepsOf ==
    ASSUME NEW steps \in Extractions
    PROVE  Len(steps) \in Nat /\ DOMAIN steps = 1..Len(steps)
  BY LenProperties, ReviewAssumption

-----------------------------------------------------------------------------
(***************************************************************************)
(* One step of one thread.                                                 *)
(***************************************************************************)
LEMMA StepMoves ==
    ASSUME TypeOK, NEW t \in Threads, NEW place \in Places, NEW w \in Works, Step(t, place, w)
    PROVE  /\ pc' \in [Threads -> Places] /\ work' \in [Threads -> Works]
           /\ pc'[t] = place /\ work'[t] = w
           /\ \A u \in Threads \ {t} : pc'[u] = pc[u] /\ work'[u] = work[u]
  BY DEF TypeOK, Step

LEMMA NoWorkTyped == NoWork \in Works /\ NoRunbook \in Rows
  BY DEF NoWork, NoRunbook, Works, Rows, Verdicts

LEMMA LeaveMoves ==
    ASSUME TypeOK, NEW t \in Threads, Leave(t)
    PROVE  /\ pc' \in [Threads -> Places] /\ work' \in [Threads -> Works]
           /\ pc'[t] = "free" /\ work'[t] = NoWork
           /\ \A u \in Threads \ {t} : pc'[u] = pc[u] /\ work'[u] = work[u]
  BY StepMoves, NoWorkTyped DEF Leave, Places

\* What each change of a thread's work leaves well typed.
LEMMA WorkTyped ==
    ASSUME NEW w \in Works
    PROVE  /\ [w EXCEPT !.calm = FALSE] \in Works
           /\ [w EXCEPT !.step = 1] \in Works
           /\ [w EXCEPT !.step = @ + 1] \in Works
           /\ \A k \in Nat : [w EXCEPT !.step = k, !.created = TRUE] \in Works
           /\ \A c \in Nat : [w EXCEPT !.todo = @ \ {c}, !.late = @ \ {c}] \in Works
           /\ \A c \in Nat : [w EXCEPT !.todo = @ \ {c}, !.claim = c] \in Works
           /\ \A S \in SUBSET Nat : [w EXCEPT !.todo = S] \in Works
           /\ \A S \in SUBSET Nat : [w EXCEPT !.late = S] \in Works
           /\ \A d \in Verdicts, b \in BOOLEAN : [w EXCEPT !.status = d, !.trusted = b] \in Works
  <1> USE DEF Works
  <1>1. [w EXCEPT !.calm = FALSE] \in Works
    OBVIOUS
  <1>2. [w EXCEPT !.step = 1] \in Works /\ [w EXCEPT !.step = @ + 1] \in Works
    OBVIOUS
  <1>3. \A k \in Nat : [w EXCEPT !.step = k, !.created = TRUE] \in Works
    OBVIOUS
  <1>4. \A c \in Nat : [w EXCEPT !.todo = @ \ {c}, !.late = @ \ {c}] \in Works
    OBVIOUS
  <1>5. \A c \in Nat : [w EXCEPT !.todo = @ \ {c}, !.claim = c] \in Works
    OBVIOUS
  <1>6. \A S \in SUBSET Nat : [w EXCEPT !.todo = S] \in Works
    OBVIOUS
  <1>7. \A S \in SUBSET Nat : [w EXCEPT !.late = S] \in Works
    OBVIOUS
  <1>8. \A d \in Verdicts, b \in BOOLEAN : [w EXCEPT !.status = d, !.trusted = b] \in Works
    OBVIOUS
  <1> HIDE DEF Works
  <1> QED BY <1>1, <1>2, <1>3, <1>4, <1>5, <1>6, <1>7, <1>8

(***************************************************************************)
(* What each action does to the threads, field by field.                   *)
(***************************************************************************)
\* Thread t is at a new place, others are where and what they were.
Moves(t, place) ==
  /\ pc' \in [Threads -> Places] /\ work' \in [Threads -> Works] /\ pc'[t] = place
  /\ \A u \in Threads \ {t} : pc'[u] = pc[u] /\ work'[u] = work[u]

\* Thread t keeps the row it holds.
KeepsRow(t) == work'[t].row = work[t].row /\ work'[t].next = work[t].next /\ work'[t].calm = work[t].calm

\* Thread t has nothing to write and proposes nothing.
Rests(t) == work'[t].todo = {} /\ work'[t].next # "judge" /\ work'[t].calm = FALSE

LEMMA LeaveRests ==
    ASSUME TypeOK, NEW t \in Threads, Leave(t)
    PROVE  Moves(t, "free") /\ Rests(t)
  BY LeaveMoves DEF NoWork, Moves, Rests, None

LEMMA InsertMoves ==
    ASSUME TypeOK, NEW t \in Threads, InsertRunbook(t)
    PROVE  Moves(t, "look") /\ KeepsRow(t) /\ work'[t].step = 1 /\ work'[t].todo = work[t].todo
  <1>1. work[t] \in Works /\ [work[t] EXCEPT !.step = 1] \in Works
    BY WorkTyped DEF TypeOK
  <1> QED BY <1>1, StepMoves DEF InsertRunbook, Moves, KeepsRow, Places, Works

LEMMA LookMoves ==
    ASSUME TypeOK, NEW t \in Threads, Look(t)
    PROVE  /\ KeepsRow(t) /\ work'[t].todo = work[t].todo
           /\ \/ /\ ClaimsOf(work[t].row.id, work[t].step) # {}
                 /\ Moves(t, "look") /\ work'[t].step = work[t].step + 1
              \/ /\ ClaimsOf(work[t].row.id, work[t].step) = {}
                 /\ Moves(t, "create") /\ work'[t].step = work[t].step
  <1>1. work[t] \in Works /\ [work[t] EXCEPT !.step = @ + 1] \in Works
    BY WorkTyped DEF TypeOK
  <1> QED BY <1>1, StepMoves DEF Look, Moves, KeepsRow, Places, Works

LEMMA CreateMoves ==
    ASSUME TypeOK, NEW t \in Threads, Create(t)
    PROVE  /\ Moves(t, "look") /\ KeepsRow(t) /\ work'[t].todo = work[t].todo
           /\ work'[t].step = work[t].step + 1
  <1>1. work[t] \in Works /\ work[t].step + 1 \in Nat
    BY DEF TypeOK, Works
  <1>2. [work[t] EXCEPT !.step = @ + 1, !.created = TRUE] \in Works
    BY <1>1, WorkTyped
  <1>3. Step(t, "look", [work[t] EXCEPT !.step = @ + 1, !.created = TRUE])
    BY DEF Create
  <1>4. /\ Moves(t, "look")
        /\ work'[t] = [work[t] EXCEPT !.step = @ + 1, !.created = TRUE]
    BY <1>2, <1>3, StepMoves DEF Moves, Places
  <1> QED BY <1>1, <1>4 DEF KeepsRow, Works

LEMMA DismissMoves ==
    ASSUME TypeOK, NEW t \in Threads, NEW c \in DOMAIN claims, Dismiss(t, c)
    PROVE  /\ Moves(t, "dismiss") /\ Rests(t)
           /\ work'[t].claim = c /\ work'[t].was = claims[c].status /\ claims[c].status \in Statuses
  <1>1. c \in Nat /\ claims[c].status \in Statuses
    BY ClaimsTyped DEF TypeOK
  <1>2. [NoWork EXCEPT !.claim = c, !.was = claims[c].status] \in Works
    BY <1>1, NoWorkTyped DEF Works
  <1>3. Step(t, "dismiss", [NoWork EXCEPT !.claim = c, !.was = claims[c].status])
    BY DEF Dismiss
  <1>4. /\ Moves(t, "dismiss")
        /\ work'[t] = [NoWork EXCEPT !.claim = c, !.was = claims[c].status]
    BY <1>2, <1>3, StepMoves DEF Moves, Places
  <1> QED BY <1>1, <1>4, NoWorkTyped DEF Rests, NoWork, Works, None

LEMMA ListMoves ==
    ASSUME TypeOK, NEW t \in Threads, NEW next \in {"show", "analyze", "judge"}, NEW row \in Rows,
           NEW calm \in BOOLEAN, List(t, next, row, calm)
    PROVE  /\ Moves(t, "listing") /\ work'[t].todo \subseteq Undisputed
           /\ work'[t].next = next /\ work'[t].row = row /\ work'[t].calm = calm
  <1>1. PICK old \in SUBSET Undisputed :
          Step(t, "listing", [NoWork EXCEPT !.todo = old, !.next = next, !.row = row, !.calm = calm])
    BY DEF List
  <1>2. old \in SUBSET Nat
    BY ClaimsTyped DEF TypeOK, Undisputed
  <1>3. [NoWork EXCEPT !.todo = old, !.next = next, !.row = row, !.calm = calm] \in Works
    BY <1>2, NoWorkTyped DEF Works
  <1>4. /\ Moves(t, "listing")
        /\ work'[t] = [NoWork EXCEPT !.todo = old, !.next = next, !.row = row, !.calm = calm]
    BY <1>1, <1>3, StepMoves DEF Moves, Places
  <1> QED BY <1>4, NoWorkTyped DEF NoWork, Works

LEMMA AutoVerifyMoves ==
    ASSUME TypeOK, NEW t \in Threads, NEW c \in work[t].todo, c \in Nat,
           Step(t, "listing", [work[t] EXCEPT !.todo = @ \ {c}, !.late = @ \ {c}])
    PROVE  /\ Moves(t, "listing") /\ KeepsRow(t)
           /\ work'[t].todo = work[t].todo \ {c} /\ work'[t].late = work[t].late \ {c}
  <1> DEFINE w == [work[t] EXCEPT !.todo = @ \ {c}, !.late = @ \ {c}]
  <1>1. work[t] \in Works /\ w \in Works
    BY WorkTyped DEF TypeOK
  <1>2. w.row = work[t].row /\ w.next = work[t].next /\ w.calm = work[t].calm
    BY <1>1 DEF Works
  <1>3. w.todo = work[t].todo \ {c}
    BY <1>1 DEF Works
  <1>4. w.late = work[t].late \ {c}
    BY <1>1 DEF Works
  <1> HIDE DEF w
  <1>5. Moves(t, "listing") /\ work'[t] = w
    BY <1>1, StepMoves DEF Moves, Places, w
  <1> QED BY <1>2, <1>3, <1>4, <1>5 DEF KeepsRow

LEMMA ConnectMoves ==
    ASSUME TypeOK, NEW t \in Threads, Connect(t)
    PROVE  /\ Moves(t, "impact") /\ KeepsRow(t) /\ work'[t].todo \subseteq DOMAIN claims
  <1>1. PICK connected \in {Visible} \union {{c} : c \in Visible} :
          Step(t, "impact", [work[t] EXCEPT !.todo = {c \in connected : claims[c].status = "verified"}])
    BY DEF Connect
  <1> DEFINE S == {c \in connected : claims[c].status = "verified"}
  <1>2. S \subseteq DOMAIN claims
    BY <1>1 DEF Visible
  <1>3. S \in SUBSET Nat
    BY <1>2, ClaimsTyped DEF TypeOK
  <1>4. work[t] \in Works /\ [work[t] EXCEPT !.todo = S] \in Works
    BY <1>3, WorkTyped DEF TypeOK
  <1> HIDE DEF S
  <1>5. Step(t, "impact", [work[t] EXCEPT !.todo = S])
    BY <1>1 DEF S
  <1> QED BY <1>2, <1>4, <1>5, StepMoves DEF Moves, KeepsRow, Places, Works

LEMMA ReadImpactMoves ==
    ASSUME TypeOK, ClaimsKnown, NEW t \in Threads, ReadImpact(t)
    PROVE  /\ KeepsRow(t) /\ work'[t].todo \subseteq work[t].todo /\ work'[t].claim \in work[t].todo
           /\ \/ Moves(t, "flagging") /\ claims[work'[t].claim].status = "verified"
              \/ Moves(t, "impact")
  <1>1. PICK c \in work[t].todo :
          Step(t, IF claims[c].status = "verified" THEN "flagging" ELSE "impact",
               [work[t] EXCEPT !.todo = @ \ {c}, !.claim = c])
    BY DEF ReadImpact
  <1>2. c \in Nat
    BY ClaimsTyped DEF TypeOK, ClaimsKnown, ClaimHeld
  <1> DEFINE w == [work[t] EXCEPT !.todo = @ \ {c}, !.claim = c]
  <1>3. work[t] \in Works /\ w \in Works
    BY <1>2, WorkTyped DEF TypeOK
  <1>4. w.row = work[t].row /\ w.next = work[t].next /\ w.calm = work[t].calm
    BY <1>3 DEF Works
  <1>5. w.todo = work[t].todo \ {c}
    BY <1>3 DEF Works
  <1>6. w.claim = c
    BY <1>3 DEF Works
  <1> HIDE DEF w
  <1>7. IF claims[c].status = "verified" THEN Moves(t, "flagging") ELSE Moves(t, "impact")
    BY <1>1, <1>3, StepMoves DEF Moves, Places, w
  <1>8. work'[t] = w
    BY <1>1, <1>3, StepMoves DEF Places, w
  <1> QED BY <1>4, <1>5, <1>6, <1>7, <1>8 DEF KeepsRow

LEMMA FlagMoves ==
    ASSUME TypeOK, NEW t \in Threads, Flag(t)
    PROVE  Moves(t, "impact") /\ KeepsRow(t) /\ work'[t].todo = work[t].todo
  <1>1. work[t] \in Works /\ [work[t] EXCEPT !.late = {}] \in Works
    BY WorkTyped DEF TypeOK
  <1> QED BY <1>1, StepMoves DEF Flag, Moves, KeepsRow, Places, Works

LEMMA JudgeMoves ==
    ASSUME TypeOK, NEW t \in Threads, Judge(t)
    PROVE  /\ Moves(t, "file") /\ KeepsRow(t) /\ work'[t].todo = work[t].todo
           /\ work'[t].trusted /\ work'[t].status # "denied" =>
                {c \in Unresolved : claims[c].of[1] = work[t].row.id} = {}
  <1> DEFINE open == {c \in Unresolved : claims[c].of[1] = work[t].row.id}
  <1>1. PICK d \in Verdicts : Step(t, "file", [work[t] EXCEPT !.status = d, !.trusted = (open = {} \/ d = "denied")])
    BY DEF Judge
  <1> DEFINE b == open = {} \/ d = "denied"
             w == [work[t] EXCEPT !.status = d, !.trusted = b]
  <1>2. b \in BOOLEAN /\ work[t] \in Works
    BY DEF TypeOK
  <1>3. Step(t, "file", w)
    BY <1>1
  <1>4. b /\ d # "denied" => open = {}
    OBVIOUS
  <1> HIDE DEF b, open
  <1>5. w \in Works /\ w.trusted = b /\ w.status = d /\ w.todo = work[t].todo
    BY <1>2, WorkTyped DEF Works
  <1>6. w.row = work[t].row /\ w.next = work[t].next /\ w.calm = work[t].calm
    BY <1>2 DEF Works
  <1> HIDE DEF w
  <1>7. Moves(t, "file") /\ work'[t] = w
    BY <1>3, <1>5, StepMoves DEF Moves, Places
  <1> QED BY <1>4, <1>5, <1>6, <1>7 DEF KeepsRow, open

\* Thread u is where it was and keeps what it has read.
Keeps(u) ==
  /\ pc'[u] = pc[u] /\ work'[u].row = work[u].row /\ work'[u].step = work[u].step
  /\ work'[u].todo = work[u].todo /\ work'[u].next = work[u].next /\ work'[u].claim = work[u].claim
  /\ work'[u].was = work[u].was /\ work'[u].trusted = work[u].trusted
  /\ work'[u].status = work[u].status

LEMMA OthersKeep ==
    ASSUME NEW t \in Threads, NEW place, Moves(t, place)
    PROVE  \A u \in Threads \ {t} : Keeps(u) /\ work'[u].late = work[u].late /\ work'[u].calm = work[u].calm
  BY DEF Moves, Keeps

LEMMA SaveMoves ==
    ASSUME TypeOK, RowsKnown, NEW t \in Threads, Save(t)
    PROVE  /\ pc' \in [Threads -> Places] /\ work' \in [Threads -> Works] /\ used' \subseteq Ids
           /\ pc'[t] = "insert" /\ Rests(t)
           /\ work'[t].row.id \in Ids /\ work'[t].row.steps \in Extractions
           /\ \A u \in Threads : work'[u].calm = FALSE
           /\ \A u \in Threads \ {t} : Keeps(u) /\ work'[u].late = work[u].late
  <1>1. PICK steps \in Extractions, id \in IF runbook = NoRunbook THEN Ids \ used ELSE {runbook.id} :
          /\ used' = used \union {id}
          /\ pc' = [pc EXCEPT ![t] = "insert"]
          /\ work' = [u \in Threads |->
               IF u = t THEN [NoWork EXCEPT !.row = [id |-> id, steps |-> steps, version |-> Versioned(steps)]]
                        ELSE [work[u] EXCEPT !.calm = FALSE]]
    BY DEF Save
  <1> DEFINE row == [id |-> id, steps |-> steps, version |-> Versioned(steps)]
  <1>2. id \in Ids
    BY <1>1 DEF RowsKnown
  <1>3. runbook.version \in Nat
    BY DEF TypeOK, Rows
  <1>4. Versioned(steps) \in Nat
    BY <1>3 DEF Versioned
  <1>5. row \in Rows /\ row.id = id /\ row.steps = steps
    BY <1>2, <1>4 DEF Rows
  <1> HIDE DEF row
  <1>6. /\ [NoWork EXCEPT !.row = row] \in Works /\ [NoWork EXCEPT !.row = row].row = row
        /\ [NoWork EXCEPT !.row = row].todo = {} /\ [NoWork EXCEPT !.row = row].next = None
        /\ [NoWork EXCEPT !.row = row].calm = FALSE
    BY <1>5, NoWorkTyped DEF Works, NoWork
  <1>7. /\ pc' \in [Threads -> Places] /\ pc'[t] = "insert"
        /\ \A u \in Threads \ {t} : pc'[u] = pc[u]
    BY <1>1 DEF TypeOK, Places
  <1>8. work'[t] = [NoWork EXCEPT !.row = row]
    BY <1>1 DEF row
  <1>9. \A u \in Threads \ {t} : work'[u] = [work[u] EXCEPT !.calm = FALSE]
    BY <1>1
  <1>10. \A u \in Threads : work[u] \in Works
    BY DEF TypeOK
  <1>11. \A u \in Threads \ {t} : work'[u] \in Works
    BY <1>9, <1>10, WorkTyped
  <1>12. \A u \in Threads \ {t} : Keeps(u) /\ work'[u].late = work[u].late /\ work'[u].calm = FALSE
    BY <1>7, <1>9, <1>10 DEF Keeps, Works
  <1>13. work' \in [Threads -> Works]
    <2>1. DOMAIN work' = Threads /\ work' = [u \in Threads |-> work'[u]]
      BY <1>1
    <2>2. \A u \in Threads : work'[u] \in Works
      BY <1>6, <1>8, <1>11
    <2> QED BY <2>1, <2>2
  <1>14. used' \subseteq Ids
    BY <1>1, <1>2 DEF TypeOK
  <1>15. Rests(t) /\ work'[t].row = row
    BY <1>6, <1>8 DEF Rests, None
  <1> QED BY <1>2, <1>5, <1>7, <1>12, <1>13, <1>14, <1>15 DEF Rests

\* After a decision about claim c, who holds c knows that it is late.
Told(u, c) == Keeps(u) /\ work'[u].calm = work[u].calm
              /\ work'[u].late = work[u].late \union (Holding(u) \intersect {c})

LEMMA LateTyped ==
    ASSUME NEW u \in Threads, work[u] \in Works, NEW c \in Nat
    PROVE  [work[u] EXCEPT !.late = @ \union (Holding(u) \intersect {c})] \in Works
  BY DEF Works

LEMMA ReviewMoves ==
    ASSUME TypeOK, NEW c \in DOMAIN claims, Review(c)
    PROVE  work' \in [Threads -> Works] /\ \A u \in Threads : Told(u, c)
  <1>1. work' = [t \in Threads |-> [work[t] EXCEPT !.late = @ \union (Holding(t) \intersect {c})]]
        /\ pc' = pc
    BY DEF Review
  <1>2. c \in Nat /\ \A u \in Threads : work[u] \in Works
    BY ClaimsTyped DEF TypeOK
  <1>3. \A u \in Threads : work'[u] = [work[u] EXCEPT !.late = @ \union (Holding(u) \intersect {c})]
    BY <1>1
  <1>4. ASSUME NEW u \in Threads
        PROVE  work'[u] \in Works
    <2>1. [work[u] EXCEPT !.late = @ \union (Holding(u) \intersect {c})] \in Works
      BY <1>2, LateTyped
    <2> QED BY <1>3, <2>1
  <1>5. \A u \in Threads : Told(u, c)
    BY <1>1, <1>2, <1>3 DEF Told, Keeps, Works
  <1>6. work' = [t \in Threads |-> work'[t]]
    BY <1>1
  <1> QED BY <1>4, <1>5, <1>6

LEMMA WriteDismissalMoves ==
    ASSUME TypeOK, ClaimsKnown, NEW t \in Threads, WriteDismissal(t)
    PROVE  /\ pc' \in [Threads -> Places] /\ work' \in [Threads -> Works]
           /\ pc'[t] = "free" /\ Rests(t)
           /\ \A u \in Threads \ {t} : Told(u, work[t].claim)
  <1> DEFINE c == work[t].claim
  <1>1. /\ pc' = [pc EXCEPT ![t] = "free"]
        /\ work' = [u \in Threads |->
             IF u = t THEN NoWork ELSE [work[u] EXCEPT !.late = @ \union (Holding(u) \intersect {c})]]
    BY DEF WriteDismissal
  <1>2. c \in Nat /\ \A u \in Threads : work[u] \in Works
    BY DEF TypeOK, Works
  <1> HIDE DEF c
  <1>3. \A u \in Threads \ {t} : work'[u] = [work[u] EXCEPT !.late = @ \union (Holding(u) \intersect {c})]
    BY <1>1
  <1>4. ASSUME NEW u \in Threads \ {t}
        PROVE  work'[u] \in Works
    <2>1. [work[u] EXCEPT !.late = @ \union (Holding(u) \intersect {c})] \in Works
      BY <1>2, LateTyped
    <2> QED BY <1>3, <2>1
  <1>5. pc' \in [Threads -> Places] /\ pc'[t] = "free" /\ \A u \in Threads \ {t} : pc'[u] = pc[u]
    BY <1>1 DEF TypeOK, Places
  <1>6. \A u \in Threads \ {t} : Told(u, c)
    BY <1>2, <1>3, <1>5 DEF Told, Keeps, Works
  <1>7. work'[t] = NoWork /\ work' = [u \in Threads |-> work'[u]]
    BY <1>1
  <1>8. Rests(t)
    BY <1>7 DEF Rests, NoWork, None
  <1> QED BY <1>4, <1>5, <1>6, <1>7, <1>8, NoWorkTyped DEF c

-----------------------------------------------------------------------------
(***************************************************************************)
(* Type correctness.                                                       *)
(***************************************************************************)
LEMMA ReviewTypeInit == Init => TypeOK
  <1> SUFFICES ASSUME Init PROVE TypeOK
    OBVIOUS
  <1>1. pc \in [Threads -> Places] /\ work \in [Threads -> Works] /\ runbook \in Rows
    BY NoWorkTyped DEF Init, Places
  <1>2. claims \in Seq(Claims)
    BY EmptySeq DEF Init
  <1> QED BY <1>1, <1>2 DEF Init, TypeOK

LEMMA RequestCounts ==
    ASSUME TypeOK
    PROVE  /\ Request => requests' \in Nat /\ UNCHANGED <<faults, reviewed, broken>>
           /\ \A c : Review(c) => requests' \in Nat
  BY DEF TypeOK, Request, Review

\* Who is a claim's writer writes a claim.
LEMMA FlagSets ==
    ASSUME IInv, NEW t \in Threads, Flag(t)
    PROVE  /\ work[t].claim \in DOMAIN claims /\ work[t].claim \in reviewed
           /\ SetClaim(work[t].claim, "possibly_stale", "review_required")
  BY DEF IInv, TypeOK, ClaimsKnown, ClaimHeld, Flag, At

LEMMA DismissalSets ==
    ASSUME IInv, NEW t \in Threads, WriteDismissal(t)
    PROVE  /\ work[t].claim \in DOMAIN claims /\ work[t].was \in Statuses
           /\ SetClaim(work[t].claim, work[t].was, "dismissed")
           /\ reviewed' = reviewed \union {work[t].claim}
  BY DEF IInv, ClaimsKnown, ClaimHeld, WriteDismissal, At

LEMMA AutoVerifySets ==
    ASSUME IInv, NEW t \in Threads, AutoVerify(t)
    PROVE  \E c \in work[t].todo :
             /\ c \in DOMAIN claims /\ SetClaim(c, "verified", "trusted")
             /\ reviewed' = reviewed \union {c} /\ c \in Nat
             /\ Step(t, "listing", [work[t] EXCEPT !.todo = @ \ {c}, !.late = @ \ {c}])
  BY ClaimsTyped DEF IInv, TypeOK, ClaimsKnown, ClaimHeld, AutoVerify

LEMMA ReviewSets ==
    ASSUME NEW c \in DOMAIN claims, Review(c)
    PROVE  \E status \in {"verified", "stale", "superseded"}, policy \in Policies \ {"dismissed"} :
             SetClaim(c, status, policy)
  BY DEF Review, Policies

LEMMA CreateSets ==
    ASSUME IInv, NEW t \in Threads, Create(t)
    PROVE  \E claim \in Claims :
             /\ claim.of = <<work[t].row.id, work[t].step>>
             /\ claim.status = "proposed" /\ claim.policy = "unverified"
             /\ claims' = Append(claims, claim)
  <1> DEFINE claim == [of |-> <<work[t].row.id, work[t].step>>, status |-> "proposed", policy |-> "unverified"]
  <1>1. work[t].row.id \in Ids /\ work[t].step \in Nat
    BY DEF IInv, TypeOK, RowsKnown, RowKnown, Saving, Create, At, Works
  <1>2. claim \in Claims
    BY <1>1 DEF Claims, Statuses, Policies
  <1> QED BY <1>2 DEF Create

LEMMA ReviewTypeStep ==
    ASSUME IInv, [Next]_vars
    PROVE  TypeOK'
  <1> USE DEF IInv
  <1>1. ASSUME NEW t \in Threads, Save(t) PROVE TypeOK'
    BY <1>1, SaveMoves, RequestCounts DEF TypeOK, Save
  <1>2. ASSUME NEW t \in Threads, InsertRunbook(t) PROVE TypeOK'
    BY <1>2, InsertMoves DEF TypeOK, InsertRunbook, Moves, Quiet, Works
  <1>3. ASSUME NEW t \in Threads, Look(t) PROVE TypeOK'
    BY <1>3, LookMoves DEF TypeOK, Look, Moves, Quiet, tables
  <1>4. ASSUME NEW t \in Threads, Create(t) PROVE TypeOK'
    <2>1. claims' \in Seq(Claims) /\ DOMAIN claims \subseteq DOMAIN claims'
      BY <1>4, CreateSets, CreateAdds DEF TypeOK
    <2> QED BY <1>4, <2>1, CreateMoves DEF TypeOK, Create, Moves, Quiet
  <1>5. ASSUME NEW t \in Threads, FinishSave(t) PROVE TypeOK'
    <2>1. work[t].row \in Rows
      BY DEF TypeOK, Works
    <2> QED BY <1>5, <2>1, LeaveRests DEF TypeOK, FinishSave, Moves, Quiet
  <1>6. ASSUME NEW t \in Threads, SaveRaises(t) PROVE TypeOK'
    BY <1>6, LeaveRests DEF TypeOK, SaveRaises, Moves, tables
  <1>7. ASSUME NEW t \in Threads, NEW next \in {"show", "analyze", "judge"}, NEW row \in Rows,
               NEW calm \in BOOLEAN, List(t, next, row, calm)
        PROVE TypeOK'
    BY <1>7, ListMoves, RequestCounts DEF TypeOK, List, Moves, tables
  <1>8. ASSUME NEW t \in Threads, Connect(t) PROVE TypeOK'
    BY <1>8, ConnectMoves DEF TypeOK, Connect, Moves, Quiet, tables
  <1>9. ASSUME NEW t \in Threads, ReadImpact(t) PROVE TypeOK'
    BY <1>9, ReadImpactMoves DEF TypeOK, ReadImpact, Moves, Quiet, tables
  <1>10. ASSUME NEW t \in Threads, Flag(t) PROVE TypeOK'
    <2>1. claims' \in Seq(Claims) /\ DOMAIN claims' = DOMAIN claims
      BY <1>10, FlagSets, SetClaimKeeps DEF TypeOK, Statuses, Policies
    <2> QED BY <1>10, <2>1, FlagMoves DEF TypeOK, Flag, Moves, Quiet
  <1>11. ASSUME NEW t \in Threads, Report(t) \/ Show(t) PROVE TypeOK'
    BY <1>11, LeaveRests DEF TypeOK, Report, Show, Moves, Quiet, tables
  <1>12. ASSUME NEW t \in Threads, Judge(t) PROVE TypeOK'
    BY <1>12, JudgeMoves DEF TypeOK, Judge, Moves, Quiet, tables
  <1>13. ASSUME NEW t \in Threads, File(t) PROVE TypeOK'
    <2>1. /\ work[t].row.id \in Ids /\ Len(work[t].row.steps) \in Nat
          /\ work[t].trusted \in BOOLEAN /\ work[t].calm \in BOOLEAN /\ work[t].status \in Verdicts
      BY <1>13, StepsOf DEF TypeOK, RowsKnown, RowKnown, File, At, Works
    <2> QED BY <1>13, <2>1, LeaveRests DEF TypeOK, File, Moves, Quiet
  <1>14. ASSUME NEW t \in Threads, AutoVerify(t) PROVE TypeOK'
    <2>1. PICK c \in work[t].todo :
             /\ c \in DOMAIN claims /\ SetClaim(c, "verified", "trusted")
             /\ reviewed' = reviewed \union {c} /\ c \in Nat
             /\ Step(t, "listing", [work[t] EXCEPT !.todo = @ \ {c}, !.late = @ \ {c}])
      BY <1>14, AutoVerifySets
    <2>2. claims' \in Seq(Claims) /\ DOMAIN claims' = DOMAIN claims
      BY <2>1, SetClaimKeeps DEF TypeOK, Statuses, Policies
    <2> QED BY <1>14, <2>1, <2>2, AutoVerifyMoves DEF TypeOK, AutoVerify, Moves
  <1>15. ASSUME NEW t \in Threads, Raises(t) PROVE TypeOK'
    BY <1>15, LeaveRests DEF TypeOK, Raises, Moves, tables
  <1>16. ASSUME NEW t \in Threads, WriteDismissal(t) PROVE TypeOK'
    <2>1. claims' \in Seq(Claims) /\ DOMAIN claims' = DOMAIN claims
      BY <1>16, DismissalSets, SetClaimKeeps DEF TypeOK, Policies
    <2> QED BY <1>16, <2>1, WriteDismissalMoves, DismissalSets DEF TypeOK, WriteDismissal
  <1>17. ASSUME NEW t \in Threads, NEW c \in DOMAIN claims, Dismiss(t, c) PROVE TypeOK'
    BY <1>17, DismissMoves, RequestCounts DEF TypeOK, Dismiss, Moves, tables
  <1>18. ASSUME NEW c \in DOMAIN claims, Review(c) PROVE TypeOK'
    <2>1. claims' \in Seq(Claims) /\ DOMAIN claims' = DOMAIN claims
      BY <1>18, ReviewSets, SetClaimKeeps DEF TypeOK, Statuses
    <2>2. reviewed' \subseteq DOMAIN claims' /\ UNCHANGED <<runbook, proposals, used, pc, faults, broken>>
      BY <1>18, <2>1 DEF TypeOK, Review
    <2> QED BY <1>18, <2>1, <2>2, ReviewMoves, RequestCounts DEF TypeOK
  <1>19. ASSUME UNCHANGED vars PROVE TypeOK'
    BY <1>19 DEF TypeOK, vars, tables
  <1>20. ASSUME NEW t \in Threads, ListOnly(t) \/ Analyze(t) PROVE TypeOK'
    BY <1>7, <1>20, NoWorkTyped DEF ListOnly, Analyze
  <1>21. ASSUME NEW t \in Threads, Propose(t) PROVE TypeOK'
    BY <1>7, <1>21 DEF Propose, TypeOK, Saving
  <1> QED
    BY <1>1, <1>2, <1>3, <1>4, <1>5, <1>6, <1>8, <1>9, <1>10, <1>11, <1>12, <1>13, <1>14,
       <1>15, <1>16, <1>17, <1>18, <1>19, <1>20, <1>21
    DEF Next, Extract, Assess, Gate

-----------------------------------------------------------------------------
(***************************************************************************)
(* RowsKnown is preserved.                                                 *)
(***************************************************************************)
LEMMA RowKept ==
    ASSUME NEW u \in Threads, RowKnown(u), Keeps(u)
    PROVE  RowKnown(u)'
  BY DEF RowKnown, Keeps, Saving, At

LEMMA RowsKeptBut ==
    ASSUME IInv, NEW t \in Threads, \A u \in Threads \ {t} : Keeps(u), RowKnown(t)',
           runbook' = runbook \/ (runbook'.id \in Ids /\ runbook'.steps \in Extractions)
    PROVE  RowsKnown'
  BY RowKept DEF IInv, RowsKnown

LEMMA RowKnownAtRest ==
    ASSUME NEW t \in Threads, Rests(t), pc'[t] \in {"free", "dismiss"}
    PROVE  RowKnown(t)'
  BY DEF Rests, RowKnown, Saving, At

LEMMA RowsKnownStep ==
    ASSUME IInv, [Next]_vars
    PROVE  RowsKnown'
  <1>0. /\ TypeOK /\ RowsKnown /\ ClaimsKnown
        /\ \A t \in Threads : RowKnown(t)
    BY DEF IInv, RowsKnown
  <1>1. ASSUME NEW t \in Threads, Save(t) PROVE RowsKnown'
    <2>1. RowKnown(t)'
      BY <1>0, <1>1, SaveMoves DEF RowKnown, Saving, At, Rests
    <2> QED BY <1>0, <1>1, <2>1, SaveMoves, RowsKeptBut DEF Save
  <1>2. ASSUME NEW t \in Threads, InsertRunbook(t) PROVE RowsKnown'
    <2>1. Saving(t) /\ runbook' = work[t].row
      BY <1>2 DEF InsertRunbook, At, Saving
    <2>2. RowKnown(t)'
      BY <1>0, <1>2, <2>1, InsertMoves DEF RowKnown, Saving, At, KeepsRow, Moves
    <2>3. runbook'.id \in Ids /\ runbook'.steps \in Extractions
      BY <1>0, <2>1 DEF RowKnown
    <2> QED BY <1>0, <1>2, <2>2, <2>3, InsertMoves, OthersKeep, RowsKeptBut
  <1>3. ASSUME NEW t \in Threads, Look(t) PROVE RowsKnown'
    <2>1. /\ Saving(t) /\ At(t, "look") /\ work[t].step <= Len(work[t].row.steps)
          /\ runbook' = runbook /\ work[t].step \in Nat
      BY <1>0, <1>3 DEF Look, At, Saving, tables, TypeOK, Works
    <2>2. RowKnown(t)' /\ \A u \in Threads \ {t} : Keeps(u)
      BY <1>0, <1>3, <2>1, LookMoves, OthersKeep DEF RowKnown, Saving, At, KeepsRow, Moves
    <2> QED BY <2>1, <2>2, RowsKeptBut
  <1>4. ASSUME NEW t \in Threads, Create(t) PROVE RowsKnown'
    <2>1. Saving(t) /\ At(t, "create") /\ runbook' = runbook /\ work[t].step \in Nat
      BY <1>0, <1>4 DEF Create, At, Saving, TypeOK, Works
    <2>2. RowKnown(t)'
      BY <1>0, <1>4, <2>1, CreateMoves DEF RowKnown, Saving, At, KeepsRow, Moves
    <2> QED BY <1>0, <1>4, <2>1, <2>2, CreateMoves, OthersKeep, RowsKeptBut
  <1>5. ASSUME NEW t \in Threads, FinishSave(t) PROVE RowsKnown'
    <2>1. Saving(t) /\ runbook' \in {runbook, work[t].row}
      BY <1>5 DEF FinishSave, At, Saving
    <2>2. runbook' = runbook \/ (runbook'.id \in Ids /\ runbook'.steps \in Extractions)
      BY <1>0, <2>1 DEF RowKnown
    <2>3. Leave(t)
      BY <1>5 DEF FinishSave
    <2> QED BY <1>0, <2>2, <2>3, LeaveRests, RowKnownAtRest, OthersKeep, RowsKeptBut DEF Moves
  <1>6. ASSUME NEW t \in Threads, SaveRaises(t) \/ Raises(t) \/ Report(t) \/ Show(t) \/ File(t)
        PROVE RowsKnown'
    <2>1. Leave(t) /\ runbook' = runbook
      BY <1>6 DEF SaveRaises, Raises, Report, Show, File, tables
    <2> QED BY <1>0, <2>1, LeaveRests, RowKnownAtRest, OthersKeep, RowsKeptBut DEF Moves
  <1>7. ASSUME NEW t \in Threads, NEW next \in {"show", "analyze", "judge"}, NEW row \in Rows,
               NEW calm \in BOOLEAN, List(t, next, row, calm),
               next = "judge" => row.id \in Ids /\ row.steps \in Extractions
        PROVE RowsKnown'
    <2>1. RowKnown(t)'
      BY <1>0, <1>7, ListMoves DEF RowKnown, Saving, At, Moves
    <2>2. runbook' = runbook
      BY <1>7 DEF List, tables
    <2> QED BY <1>0, <1>7, <2>1, <2>2, ListMoves, OthersKeep, RowsKeptBut
  <1>8. ASSUME NEW t \in Threads, Connect(t) \/ ReadImpact(t) \/ Flag(t) PROVE RowsKnown'
    <2>1. /\ KeepsRow(t) /\ runbook' = runbook
          /\ Moves(t, "impact") \/ Moves(t, "flagging")
      BY <1>0, <1>8, ConnectMoves, ReadImpactMoves, FlagMoves
      DEF Connect, ReadImpact, Flag, tables
    <2>2. RowKnown(t)'
      BY <1>0, <2>1 DEF RowKnown, Saving, At, KeepsRow, Moves
    <2>3. \A u \in Threads \ {t} : Keeps(u)
      BY <2>1, OthersKeep
    <2> QED BY <2>1, <2>2, <2>3, RowsKeptBut
  <1>9. ASSUME NEW t \in Threads, Judge(t) PROVE RowsKnown'
    <2>1. work[t].next = "judge" /\ runbook' = runbook
      BY <1>9 DEF Judge, Listed, tables
    <2>2. RowKnown(t)'
      BY <1>0, <1>9, <2>1, JudgeMoves DEF RowKnown, Saving, At, KeepsRow, Moves
    <2> QED BY <1>0, <1>9, <2>1, <2>2, JudgeMoves, OthersKeep, RowsKeptBut
  <1>10. ASSUME NEW t \in Threads, AutoVerify(t) PROVE RowsKnown'
    <2>1. Moves(t, "listing") /\ KeepsRow(t) /\ runbook' = runbook
      BY <1>0, <1>10, AutoVerifySets, AutoVerifyMoves DEF AutoVerify
    <2>2. RowKnown(t)'
      BY <1>0, <2>1 DEF RowKnown, Saving, At, KeepsRow, Moves
    <2> QED BY <2>1, <2>2, OthersKeep, RowsKeptBut
  <1>11. ASSUME NEW t \in Threads, WriteDismissal(t) PROVE RowsKnown'
    <2>1. /\ pc'[t] = "free" /\ Rests(t) /\ runbook' = runbook
          /\ \A u \in Threads \ {t} : Keeps(u)
      BY <1>0, <1>11, WriteDismissalMoves DEF WriteDismissal, Told
    <2> QED BY <2>1, RowKnownAtRest, RowsKeptBut
  <1>12. ASSUME NEW t \in Threads, NEW c \in DOMAIN claims, Dismiss(t, c) PROVE RowsKnown'
    <2>1. /\ pc'[t] = "dismiss" /\ Rests(t) /\ runbook' = runbook
          /\ \A u \in Threads \ {t} : Keeps(u)
      BY <1>0, <1>12, DismissMoves, OthersKeep DEF Dismiss, Moves, tables
    <2> QED BY <2>1, RowKnownAtRest, RowsKeptBut
  <1>13. ASSUME NEW c \in DOMAIN claims, Review(c) PROVE RowsKnown'
    <2>1. runbook' = runbook /\ \A u \in Threads : Keeps(u)
      BY <1>0, <1>13, ReviewMoves DEF Review, Told
    <2> QED BY <1>0, <2>1, RowKept DEF RowsKnown
  <1>14. ASSUME UNCHANGED vars PROVE RowsKnown'
    BY <1>0, <1>14 DEF vars, tables, RowsKnown, RowKnown, Saving, At
  <1>15. ASSUME NEW t \in Threads, ListOnly(t) \/ Analyze(t) PROVE RowsKnown'
    BY <1>7, <1>15, NoWorkTyped DEF ListOnly, Analyze
  <1>16. ASSUME NEW t \in Threads, Propose(t) PROVE RowsKnown'
    BY <1>0, <1>7, <1>16 DEF Propose, TypeOK, Saving, RowsKnown
  <1> QED
    BY <1>1, <1>2, <1>3, <1>4, <1>5, <1>6, <1>8, <1>9, <1>10, <1>11, <1>12, <1>13, <1>14,
       <1>15, <1>16
    DEF Next, Extract, Assess, Gate

-----------------------------------------------------------------------------
(***************************************************************************)
(* Claims are added to, never taken away, and keep the step they are of.   *)
(***************************************************************************)
SameSteps == DOMAIN claims' = DOMAIN claims /\ \A c \in DOMAIN claims : claims'[c].of = claims[c].of

LEMMA SameStepsSame ==
    ASSUME SameSteps
    PROVE  \A id, k : ClaimsOf(id, k)' = ClaimsOf(id, k)
  BY DEF SameSteps, ClaimsOf

LEMMA OnlyCreateAdds ==
    ASSUME IInv, [Next]_vars
    PROVE  SameSteps \/ \E t \in Threads : Create(t)
  <1>0. claims \in Seq(Claims)
    BY DEF IInv, TypeOK
  <1>1. ASSUME NEW c \in DOMAIN claims, NEW status \in Statuses, NEW policy \in Policies,
               SetClaim(c, status, policy)
        PROVE SameSteps
    BY <1>0, <1>1, SetClaimKeeps DEF SameSteps
  <1>2. ASSUME NEW t \in Threads, Flag(t) PROVE SameSteps
    BY <1>1, <1>2, FlagSets DEF Statuses, Policies
  <1>3. ASSUME NEW t \in Threads, WriteDismissal(t) PROVE SameSteps
    BY <1>1, <1>3, DismissalSets DEF Policies
  <1>4. ASSUME NEW t \in Threads, AutoVerify(t) PROVE SameSteps
    BY <1>1, <1>4, AutoVerifySets DEF Statuses, Policies
  <1>5. ASSUME NEW c \in DOMAIN claims, Review(c) PROVE SameSteps
    BY <1>1, <1>5, ReviewSets DEF Statuses
  <1>6. ASSUME claims' = claims PROVE SameSteps
    BY <1>6 DEF SameSteps
  <1> QED
    BY <1>2, <1>3, <1>4, <1>5, <1>6
    DEF Next, Extract, Assess, Gate, Save, InsertRunbook, Look, FinishSave, SaveRaises, ListOnly,
        Analyze, Propose, List, Show, Connect, ReadImpact, Report, Judge, File, Raises, Dismiss,
        tables, vars

LEMMA CreateOf ==
    ASSUME IInv, NEW t \in Threads, Create(t)
    PROVE  /\ \A id, k : ClaimsOf(id, k) \subseteq ClaimsOf(id, k)'
           /\ \A id, k : IF id = work[t].row.id /\ k = work[t].step
                         THEN ClaimsOf(id, k)' # {} ELSE ClaimsOf(id, k)' = ClaimsOf(id, k)
  <1>1. PICK claim \in Claims : /\ claim.of = <<work[t].row.id, work[t].step>>
                                /\ claims' = Append(claims, claim)
    BY CreateSets
  <1>2. /\ DOMAIN claims' = DOMAIN claims \union {Len(claims) + 1}
        /\ claims'[Len(claims) + 1] = claim
        /\ \A d \in DOMAIN claims : claims'[d] = claims[d]
    BY <1>1, CreateAdds DEF IInv, TypeOK
  <1>3. \A id, k : ClaimsOf(id, k) \subseteq ClaimsOf(id, k)'
    BY <1>2 DEF ClaimsOf
  <1>4. ASSUME NEW id, NEW k, id = work[t].row.id, k = work[t].step
        PROVE  ClaimsOf(id, k)' # {}
    <2>1. Len(claims) + 1 \in ClaimsOf(id, k)'
      BY <1>1, <1>2, <1>4 DEF ClaimsOf
    <2> QED BY <2>1
  <1>5. ASSUME NEW id, NEW k, ~(id = work[t].row.id /\ k = work[t].step)
        PROVE  ClaimsOf(id, k)' = ClaimsOf(id, k)
    <2>1. ClaimsOf(id, k)' \subseteq ClaimsOf(id, k)
      BY <1>1, <1>2, <1>5 DEF ClaimsOf
    <2> QED BY <1>3, <2>1
  <1> QED BY <1>3, <1>4, <1>5

LEMMA ClaimsGrow ==
    ASSUME IInv, [Next]_vars
    PROVE  /\ \A id, k : ClaimsOf(id, k) \subseteq ClaimsOf(id, k)'
           /\ DOMAIN claims \subseteq DOMAIN claims' /\ reviewed \subseteq reviewed'
  <1>1. \A id, k : ClaimsOf(id, k) \subseteq ClaimsOf(id, k)'
    BY OnlyCreateAdds, SameStepsSame, CreateOf
  <1>2. reviewed \subseteq reviewed'
    BY DEF Next, Extract, Assess, Gate, Save, InsertRunbook, Look, FinishSave, SaveRaises, ListOnly,
           Analyze, Propose, List, Show, Connect, ReadImpact, Report, Judge, File, Raises, Dismiss,
           vars, Create, Flag, WriteDismissal, Review, AutoVerify, Quiet, Request
  <1>3. ASSUME NEW t \in Threads, Create(t) PROVE DOMAIN claims \subseteq DOMAIN claims'
    BY <1>3, CreateSets, CreateAdds DEF IInv, TypeOK
  <1> QED BY <1>1, <1>2, <1>3, OnlyCreateAdds DEF SameSteps

-----------------------------------------------------------------------------
(***************************************************************************)
(* In every step one thread acts, or somebody reviews.                     *)
(***************************************************************************)
Acts(t) ==
  \/ Extract(t) \/ Assess(t) \/ Gate(t) \/ ListOnly(t) \/ AutoVerify(t) \/ Show(t) \/ Raises(t)
  \/ WriteDismissal(t) \/ \E c \in DOMAIN claims : Dismiss(t, c)

LEMMA ActingMoves ==
    ASSUME IInv, NEW t \in Threads, Acts(t)
    PROVE  \/ \E place : Moves(t, place)
           \/ Save(t)
           \/ WriteDismissal(t)
  <1>0. TypeOK /\ RowsKnown /\ ClaimsKnown
    BY DEF IInv
  <1> DEFINE Goal == \/ \E place : Moves(t, place)
                     \/ Save(t)
                     \/ WriteDismissal(t)
  <1>1. ASSUME InsertRunbook(t) \/ Look(t) \/ Create(t) \/ Judge(t) \/ Flag(t) PROVE Goal
    BY <1>0, <1>1, InsertMoves, LookMoves, CreateMoves, JudgeMoves, FlagMoves
  <1>2. ASSUME Leave(t) PROVE Goal
    BY <1>0, <1>2, LeaveRests
  <1>3. ASSUME NEW next \in {"show", "analyze", "judge"}, NEW row \in Rows, NEW calm \in BOOLEAN,
               List(t, next, row, calm)
        PROVE Goal
    BY <1>0, <1>3, ListMoves
  <1>4. ASSUME Connect(t) \/ ReadImpact(t) \/ AutoVerify(t) PROVE Goal
    BY <1>0, <1>4, ConnectMoves, ReadImpactMoves, AutoVerifySets, AutoVerifyMoves
  <1>5. ASSUME NEW c \in DOMAIN claims, Dismiss(t, c) PROVE Goal
    BY <1>0, <1>5, DismissMoves
  <1>6. ASSUME Propose(t) \/ ListOnly(t) \/ Analyze(t) PROVE Goal
    BY <1>0, <1>3, <1>6, NoWorkTyped DEF Propose, ListOnly, Analyze, TypeOK, Saving
  <1> QED
    BY <1>1, <1>2, <1>4, <1>5, <1>6
    DEF Acts, Extract, Assess, Gate, FinishSave, SaveRaises, Report, Show, File, Raises

LEMMA ActorOrNot ==
    ASSUME IInv, [Next]_vars, NEW u \in Threads
    PROVE  Keeps(u) \/ Acts(u)
  <1>0. TypeOK /\ RowsKnown /\ ClaimsKnown
    BY DEF IInv
  <1>1. ASSUME NEW t \in Threads, Acts(t) PROVE Keeps(u) \/ Acts(u)
    BY <1>0, <1>1, ActingMoves, OthersKeep, SaveMoves, WriteDismissalMoves DEF Told
  <1>2. ASSUME NEW c \in DOMAIN claims, Review(c) PROVE Keeps(u)
    BY <1>0, <1>2, ReviewMoves DEF Told
  <1>3. ASSUME UNCHANGED vars PROVE Keeps(u)
    BY <1>3 DEF vars, Keeps
  <1> QED BY <1>1, <1>2, <1>3 DEF Next, Acts

-----------------------------------------------------------------------------
(***************************************************************************)
(* Who saves, and who does not.                                            *)
(***************************************************************************)
\* Steps of a thread that have nothing to do with saving.
Aside(u) == ~Saving(u) /\ ~Saving(u)'

LEMMA SaverMoves ==
    ASSUME IInv, [Next]_vars, NEW u \in Threads
    PROVE  \/ Keeps(u) \/ Aside(u) \/ Save(u) \/ InsertRunbook(u) \/ Look(u) \/ Create(u)
           \/ FinishSave(u) \/ SaveRaises(u)
  <1>0. TypeOK /\ RowsKnown /\ ClaimsKnown
    BY DEF IInv
  <1>1. ASSUME Raises(u) \/ Report(u) \/ Show(u) \/ File(u) PROVE Aside(u)
    <2>1. Leave(u) /\ ~Saving(u)
      BY <1>1 DEF Raises, Report, Show, Listed, File, At, Saving
    <2> QED BY <1>0, <2>1, LeaveRests DEF Aside, Saving, Moves
  <1>2. ASSUME NEW next \in {"show", "analyze", "judge"}, NEW row \in Rows, NEW calm \in BOOLEAN,
               List(u, next, row, calm)
        PROVE Aside(u)
    BY <1>0, <1>2, ListMoves DEF List, At, Aside, Saving, Moves
  <1>3. ASSUME Connect(u) \/ ReadImpact(u) \/ Flag(u) PROVE Aside(u)
    <2>1. ~Saving(u)
      BY <1>3 DEF Connect, Listed, ReadImpact, Flag, At, Saving
    <2> QED BY <1>0, <1>3, <2>1, ConnectMoves, ReadImpactMoves, FlagMoves DEF Aside, Saving, Moves
  <1>4. ASSUME Judge(u) PROVE Aside(u)
    BY <1>0, <1>4, JudgeMoves DEF Judge, Listed, At, Aside, Saving, Moves
  <1>5. ASSUME AutoVerify(u) PROVE Aside(u)
    <2>1. ~Saving(u)
      BY <1>5 DEF AutoVerify, At, Saving
    <2> QED BY <1>0, <1>5, <2>1, AutoVerifySets, AutoVerifyMoves DEF Aside, Saving, Moves
  <1>6. ASSUME WriteDismissal(u) PROVE Aside(u)
    BY <1>0, <1>6, WriteDismissalMoves DEF WriteDismissal, At, Aside, Saving
  <1>7. ASSUME NEW c \in DOMAIN claims, Dismiss(u, c) PROVE Aside(u)
    BY <1>0, <1>7, DismissMoves DEF Dismiss, At, Aside, Saving, Moves
  <1>8. ASSUME Propose(u) \/ ListOnly(u) \/ Analyze(u) PROVE Aside(u)
    BY <1>0, <1>2, <1>8, NoWorkTyped DEF Propose, ListOnly, Analyze, TypeOK, Saving
  <1> QED
    BY <1>1, <1>3, <1>4, <1>5, <1>6, <1>7, <1>8, ActorOrNot DEF Acts, Extract, Assess, Gate

LEMMA PassedStep ==
    ASSUME IInv, [Next]_vars
    PROVE  Passed'
  <1> SUFFICES ASSUME NEW u \in Threads, pc'[u] \in {"look", "create"},
                      NEW k \in 1..(work'[u].step - 1)
               PROVE  ClaimsOf(work[u].row.id, k)' # {}
    BY DEF Passed, Covered
  <1>0. /\ TypeOK /\ RowsKnown /\ Passed /\ work[u].step \in Nat
        /\ \A id, n : ClaimsOf(id, n) \subseteq ClaimsOf(id, n)'
    BY ClaimsGrow DEF IInv, TypeOK, Works
  <1>1. CASE Keeps(u)
    BY <1>0, <1>1 DEF Keeps, Passed, Covered
  <1>2. CASE Aside(u) \/ Save(u) \/ FinishSave(u) \/ SaveRaises(u)
    BY <1>0, <1>2, SaveMoves, LeaveRests DEF Aside, Saving, FinishSave, SaveRaises, Moves
  <1>3. CASE InsertRunbook(u)
    BY <1>0, <1>3, InsertMoves
  <1>4. CASE Look(u)
    <2>1. At(u, "look") /\ Covered(work[u].row.id, work[u].step - 1)
      BY <1>0, <1>4 DEF Look, Passed, At
    <2>2. k \in 1..(work[u].step - 1) \/ (k = work[u].step /\ ClaimsOf(work[u].row.id, k) # {})
      BY <1>0, <1>4, LookMoves
    <2> QED BY <1>0, <1>4, <2>1, <2>2, LookMoves DEF Covered, KeepsRow
  <1>5. CASE Create(u)
    <2>1. At(u, "create") /\ Covered(work[u].row.id, work[u].step - 1)
      BY <1>0, <1>5 DEF Create, Passed, At
    <2>2. k \in 1..(work[u].step - 1) \/ k = work[u].step
      BY <1>0, <1>5, CreateMoves
    <2> QED BY <1>0, <1>5, <2>1, <2>2, CreateMoves, CreateOf DEF Covered, KeepsRow
  <1> QED BY <1>1, <1>2, <1>3, <1>4, <1>5, SaverMoves

-----------------------------------------------------------------------------
(***************************************************************************)
(* Every step of the row that was last written has a claim, or will have.  *)
(***************************************************************************)
LEMMA RowWritten ==
    ASSUME IInv, [Next]_vars
    PROVE  \/ runbook' = runbook
           \/ \E t \in Threads : InsertRunbook(t)
           \/ \E t \in Threads : FinishSave(t) /\ runbook' = work[t].row
  BY DEF Next, Extract, Assess, Gate, Save, Look, FinishSave, SaveRaises, ListOnly,
         Analyze, Propose, List, Show, Connect, ReadImpact, Report, Judge, File, Raises, Dismiss,
         vars, Create, Flag, WriteDismissal, Review, AutoVerify, tables

LEMMA BrokenGrows ==
    ASSUME [Next]_vars
    PROVE  /\ broken => broken'
           /\ \A t \in Threads : SaveRaises(t) => broken'
           /\ ~broken /\ broken' => \E t \in Threads : Saving(t)
  <1>1. \A t \in Threads : SaveRaises(t) => Saving(t) /\ broken' = TRUE
    BY DEF SaveRaises
  <1>2. broken' = broken \/ \E t \in Threads : SaveRaises(t)
    BY DEF Next, Extract, Assess, Gate, Save, Look, FinishSave, SaveRaises, ListOnly, InsertRunbook,
         Analyze, Propose, List, Show, Connect, ReadImpact, Report, Judge, File, Raises, Dismiss,
         vars, Create, Flag, WriteDismissal, Review, AutoVerify, Quiet, Request
  <1>3. broken => broken'
    BY <1>1, <1>2
  <1>4. ASSUME NEW t \in Threads, SaveRaises(t) PROVE broken'
    BY <1>1, <1>4
  <1>5. ASSUME ~broken, broken' PROVE \E t \in Threads : Saving(t)
    BY <1>1, <1>2, <1>5
  <1> QED BY <1>3, <1>4, <1>5

LEMMA StillAhead ==
    ASSUME IInv, [Next]_vars, ~broken', runbook' = runbook, NEW u \in Threads, NEW k \in Nat, Ahead(u, k)
    PROVE  ClaimsOf(runbook.id, k)' # {} \/ Ahead(u, k)'
  <1>0. /\ TypeOK /\ RowsKnown /\ work[u].step \in Nat
        /\ \A id, n : ClaimsOf(id, n) \subseteq ClaimsOf(id, n)'
        /\ pc[u] \in {"look", "create"} /\ work[u].row.id = runbook.id
        /\ work[u].step <= k /\ k <= Len(work[u].row.steps)
    BY ClaimsGrow DEF IInv, TypeOK, Works, Ahead
  <1>1. CASE Keeps(u)
    BY <1>0, <1>1 DEF Keeps, Ahead
  <1>2. CASE Aside(u) \/ Save(u) \/ InsertRunbook(u)
    BY <1>0, <1>2 DEF Aside, Saving, Save, InsertRunbook, At
  <1>3. CASE Look(u)
    BY <1>0, <1>3, LookMoves DEF Ahead, KeepsRow, Moves
  <1>4. CASE Create(u)
    BY <1>0, <1>4, CreateMoves, CreateOf DEF Ahead, KeepsRow, Moves
  <1>5. CASE FinishSave(u)
    <2>1. work[u].step > Len(work[u].row.steps) /\ Len(work[u].row.steps) \in Nat
      BY <1>0, <1>5, StepsOf DEF FinishSave, RowsKnown, RowKnown, Saving
    <2> QED BY <1>0, <2>1
  <1>6. CASE SaveRaises(u)
    BY <1>6, BrokenGrows
  <1> QED BY <1>1, <1>2, <1>3, <1>4, <1>5, <1>6, SaverMoves

LEMMA StepsAheadStep ==
    ASSUME IInv, [Next]_vars
    PROVE  StepsAhead'
  <1> SUFFICES ASSUME ~broken', NEW k \in DOMAIN runbook'.steps
               PROVE  ClaimsOf(runbook.id, k)' # {} \/ \E u \in Threads : Ahead(u, k)'
    BY DEF StepsAhead
  <1>0. TypeOK /\ RowsKnown /\ Passed /\ StepsAhead /\ RowsKnown' /\ TypeOK'
    BY RowsKnownStep, ReviewTypeStep DEF IInv
  <1>1. /\ k \in 1..Len(runbook'.steps) /\ Len(runbook'.steps) \in Nat
    <2>1. CASE runbook' = NoRunbook
      BY <2>1 DEF NoRunbook
    <2>2. CASE runbook'.steps \in Extractions
      BY <2>2, StepsOf
    <2> QED BY <1>0, <2>1, <2>2 DEF RowsKnown
  <1>2. CASE runbook' = runbook
    <2>1. ClaimsOf(runbook.id, k) # {} \/ \E u \in Threads : Ahead(u, k)
      BY <1>0, <1>2, BrokenGrows DEF StepsAhead
    <2> QED BY <1>1, <1>2, <2>1, ClaimsGrow, StillAhead
  <1>3. ASSUME NEW t \in Threads, InsertRunbook(t)
        PROVE  \E u \in Threads : Ahead(u, k)'
    <2>1. Ahead(t, k)'
      BY <1>0, <1>1, <1>3, InsertMoves DEF InsertRunbook, Ahead, KeepsRow, Moves
    <2> QED BY <2>1
  <1>4. ASSUME NEW t \in Threads, FinishSave(t), runbook' = work[t].row
        PROVE  ClaimsOf(runbook.id, k)' # {}
    <2>1. pc[t] = "look" /\ work[t].step > Len(work[t].row.steps) /\ work[t].step \in Nat
      BY <1>0, <1>4 DEF FinishSave, At, TypeOK, Works
    <2>2. ClaimsOf(work[t].row.id, k) # {}
      BY <1>0, <1>1, <1>4, <2>1 DEF Passed, Covered
    <2> QED BY <1>4, <2>2, ClaimsGrow
  <1> QED BY <1>2, <1>3, <1>4, RowWritten

-----------------------------------------------------------------------------
(***************************************************************************)
(* What threads hold are claims, and only decided ones leave proposed.     *)
(***************************************************************************)
LEMMA SettingDecides ==
    ASSUME IInv, NEW c \in DOMAIN claims, NEW status \in Statuses, NEW policy \in Policies,
           SetClaim(c, status, policy), c \in reviewed', reviewed \subseteq reviewed'
    PROVE  \A d \in DOMAIN claims' : Undecided(d)' \/ d \in reviewed'
  <1>1. /\ DOMAIN claims' = DOMAIN claims
        /\ \A d \in DOMAIN claims : d # c => claims'[d] = claims[d]
    BY SetClaimKeeps DEF IInv, TypeOK
  <1> QED BY <1>1 DEF IInv, ClaimsKnown, Undecided

LEMMA UndecidedStep ==
    ASSUME IInv, [Next]_vars
    PROVE  \A d \in DOMAIN claims' : Undecided(d)' \/ d \in reviewed'
  <1> DEFINE Goal == \A d \in DOMAIN claims' : Undecided(d)' \/ d \in reviewed'
  <1>0. reviewed \subseteq reviewed'
    BY ClaimsGrow
  <1>1. ASSUME NEW t \in Threads, Flag(t) PROVE Goal
    BY <1>0, <1>1, FlagSets, SettingDecides DEF Statuses, Policies
  <1>2. ASSUME NEW t \in Threads, WriteDismissal(t) PROVE Goal
    BY <1>0, <1>2, DismissalSets, SettingDecides DEF Policies
  <1>3. ASSUME NEW t \in Threads, AutoVerify(t) PROVE Goal
    <2>1. PICK c \in DOMAIN claims : SetClaim(c, "verified", "trusted") /\ c \in reviewed'
      BY <1>3, AutoVerifySets
    <2> QED BY <1>0, <2>1, SettingDecides DEF Statuses, Policies
  <1>4. ASSUME NEW c \in DOMAIN claims, Review(c) PROVE Goal
    <2>1. PICK status \in {"verified", "stale", "superseded"}, policy \in Policies : SetClaim(c, status, policy)
      BY <1>4, ReviewSets
    <2>2. c \in reviewed'
      BY <1>4 DEF Review
    <2> QED BY <1>0, <2>1, <2>2, SettingDecides DEF Statuses
  <1>5. ASSUME NEW t \in Threads, Create(t) PROVE Goal
    <2>1. PICK claim \in Claims : /\ claim.status = "proposed" /\ claim.policy = "unverified"
                                  /\ claims' = Append(claims, claim)
      BY <1>5, CreateSets
    <2>2. /\ DOMAIN claims' = DOMAIN claims \union {Len(claims) + 1}
          /\ claims'[Len(claims) + 1] = claim
          /\ \A d \in DOMAIN claims : claims'[d] = claims[d]
      BY <2>1, CreateAdds DEF IInv, TypeOK
    <2> QED BY <1>0, <2>1, <2>2 DEF IInv, ClaimsKnown, Undecided
  <1>6. ASSUME claims' = claims PROVE Goal
    BY <1>0, <1>6 DEF IInv, ClaimsKnown, Undecided
  <1> QED
    BY <1>1, <1>2, <1>3, <1>4, <1>5, <1>6
    DEF Next, Extract, Assess, Gate, Save, InsertRunbook, Look, FinishSave, SaveRaises, ListOnly,
        Analyze, Propose, List, Show, Connect, ReadImpact, Report, Judge, File, Raises, Dismiss,
        tables, vars

LEMMA HeldKept ==
    ASSUME NEW u \in Threads, ClaimHeld(u), Keeps(u), DOMAIN claims \subseteq DOMAIN claims',
           reviewed \subseteq reviewed'
    PROVE  ClaimHeld(u)'
  BY DEF ClaimHeld, Keeps, At

LEMMA HeldElsewhere ==
    ASSUME NEW u \in Threads, work'[u].todo \subseteq DOMAIN claims, DOMAIN claims \subseteq DOMAIN claims',
           pc'[u] \notin {"flagging", "dismiss"}
    PROVE  ClaimHeld(u)'
  BY DEF ClaimHeld, At

LEMMA ClaimHeldStep ==
    ASSUME IInv, [Next]_vars, NEW u \in Threads
    PROVE  ClaimHeld(u)'
  <1>0. /\ TypeOK /\ RowsKnown /\ ClaimsKnown /\ ClaimHeld(u) /\ work[u].todo \subseteq DOMAIN claims
        /\ DOMAIN claims \subseteq DOMAIN claims' /\ reviewed \subseteq reviewed'
    BY ClaimsGrow DEF IInv, ClaimsKnown, ClaimHeld
  <1>1. CASE Keeps(u)
    BY <1>0, <1>1, HeldKept
  <1>2. ASSUME Save(u) PROVE ClaimHeld(u)'
    BY <1>0, <1>2, SaveMoves, HeldElsewhere DEF Rests
  <1>3. ASSUME InsertRunbook(u) \/ Look(u) \/ Create(u) \/ Judge(u) \/ Flag(u) PROVE ClaimHeld(u)'
    BY <1>0, <1>3, InsertMoves, LookMoves, CreateMoves, JudgeMoves, FlagMoves, HeldElsewhere DEF Moves
  <1>4. ASSUME Leave(u) PROVE ClaimHeld(u)'
    BY <1>0, <1>4, LeaveRests, HeldElsewhere DEF Rests, Moves
  <1>5. ASSUME NEW next \in {"show", "analyze", "judge"}, NEW row \in Rows, NEW calm \in BOOLEAN,
               List(u, next, row, calm)
        PROVE ClaimHeld(u)'
    BY <1>0, <1>5, ListMoves, HeldElsewhere DEF Moves, Undisputed
  <1>6. ASSUME Connect(u) PROVE ClaimHeld(u)'
    BY <1>0, <1>6, ConnectMoves, HeldElsewhere DEF Moves
  <1>7. ASSUME ReadImpact(u) PROVE ClaimHeld(u)'
    <2>1. work'[u].todo \subseteq DOMAIN claims' /\ work'[u].claim \in DOMAIN claims
      BY <1>0, <1>7, ReadImpactMoves
    <2>2. pc'[u] = "impact" \/ (pc'[u] = "flagging" /\ claims[work'[u].claim].status = "verified")
      BY <1>0, <1>7, ReadImpactMoves DEF Moves
    <2>3. pc'[u] = "flagging" => work'[u].claim \in reviewed
      BY <1>0, <2>1, <2>2 DEF ClaimsKnown, Undecided
    <2> QED BY <1>0, <2>1, <2>2, <2>3 DEF ClaimHeld, At
  <1>8. ASSUME AutoVerify(u) PROVE ClaimHeld(u)'
    BY <1>0, <1>8, AutoVerifySets, AutoVerifyMoves, HeldElsewhere DEF Moves
  <1>9. ASSUME WriteDismissal(u) PROVE ClaimHeld(u)'
    BY <1>0, <1>9, WriteDismissalMoves, HeldElsewhere DEF Rests
  <1>10. ASSUME NEW c \in DOMAIN claims, Dismiss(u, c) PROVE ClaimHeld(u)'
    BY <1>0, <1>10, DismissMoves DEF Moves, Rests, ClaimHeld, At
  <1>11. ASSUME Propose(u) \/ ListOnly(u) \/ Analyze(u) PROVE ClaimHeld(u)'
    BY <1>0, <1>5, <1>11, NoWorkTyped DEF Propose, ListOnly, Analyze, TypeOK, Saving
  <1>12. Keeps(u) \/ Acts(u)
    BY ActorOrNot
  <1> QED
    BY <1>1, <1>2, <1>3, <1>4, <1>6, <1>7, <1>8, <1>9, <1>10, <1>11, <1>12
    DEF Acts, Extract, Assess, Gate, FinishSave, SaveRaises, Report, Show, File, Raises

-----------------------------------------------------------------------------
(***************************************************************************)
(* Undisturbed proposals.                                                  *)
(***************************************************************************)
\* A thread whose proposal is undisturbed after a step has read, judged or
\* just begun; nobody saved.
LEMMA CalmMoves ==
    ASSUME IInv, [Next]_vars, NEW u \in Threads, work'[u].calm
    PROVE  \/ /\ Propose(u) /\ ~broken /\ (\A t \in Threads : ~Saving(t)) /\ work'[u].row = runbook
              /\ work'[u].next = "judge" /\ pc'[u] = "listing"
           \/ /\ work[u].calm /\ work'[u].row = work[u].row /\ work'[u].next = work[u].next
              /\ \/ Keeps(u) \/ (Judge(u) /\ pc'[u] = "file") \/ pc'[u] = "listing"
  <1>0. TypeOK /\ RowsKnown /\ ClaimsKnown /\ (work[u].calm => Calm(u)) /\ work'[u].calm # FALSE
    BY DEF IInv, CalmIsCalm
  <1> DEFINE Goal ==
        /\ work[u].calm /\ work'[u].row = work[u].row /\ work'[u].next = work[u].next
        /\ \/ Keeps(u) \/ (Judge(u) /\ pc'[u] = "file") \/ pc'[u] = "listing"
  <1>a. ASSUME Keeps(u), work'[u].calm = work[u].calm PROVE Goal
    <2>1. work'[u].row = work[u].row /\ work'[u].next = work[u].next
      BY <1>a DEF Keeps
    <2>2. work[u].calm
      BY <1>a
    <2> QED BY <1>a, <2>1, <2>2
  <1>1. ASSUME NEW t \in Threads \ {u}, Acts(t) PROVE Goal
    <2>1. ~Save(t)
      BY <1>0, SaveMoves
    <2>2. Keeps(u) /\ work'[u].calm = work[u].calm
      BY <1>0, <1>1, <2>1, ActingMoves, OthersKeep, WriteDismissalMoves DEF Told
    <2> QED BY <1>a, <2>2
  <1>2. ASSUME NEW c \in DOMAIN claims, Review(c) PROVE Goal
    BY <1>0, <1>2, <1>a, ReviewMoves DEF Told
  <1>3. ASSUME UNCHANGED vars PROVE Goal
    BY <1>3, <1>a DEF vars, Keeps
  <1>4. ~Save(u) /\ ~WriteDismissal(u)
    BY <1>0, SaveMoves, WriteDismissalMoves DEF Rests
  <1>5. ~Leave(u)
    BY <1>0, LeaveRests DEF Rests
  <1>6. ASSUME NEW c \in DOMAIN claims PROVE ~Dismiss(u, c)
    BY <1>0, DismissMoves DEF Rests
  <1>7. ~InsertRunbook(u) /\ ~Look(u) /\ ~Create(u)
    <2>1. ASSUME InsertRunbook(u) \/ Look(u) \/ Create(u) PROVE FALSE
      <3>1. Saving(u) /\ work[u].calm
        BY <1>0, <2>1, InsertMoves, LookMoves, CreateMoves
        DEF KeepsRow, InsertRunbook, Look, Create, At, Saving
      <3> QED BY <1>0, <3>1 DEF Calm
    <2> QED BY <2>1
  <1>8. ~ReadImpact(u) /\ ~Flag(u) /\ ~Connect(u)
    <2>1. ASSUME ReadImpact(u) \/ Flag(u) \/ Connect(u) PROVE FALSE
      <3>1. work[u].calm /\ (pc[u] \in {"impact", "flagging"} \/ work[u].next = "analyze")
        BY <1>0, <2>1, ReadImpactMoves, FlagMoves, ConnectMoves
        DEF KeepsRow, ReadImpact, Flag, Connect, Listed, At
      <3> QED BY <1>0, <3>1 DEF Calm
    <2> QED BY <2>1
  <1>9. ASSUME Judge(u) PROVE Goal
    BY <1>0, <1>9, JudgeMoves DEF KeepsRow, Moves
  <1>10. ASSUME AutoVerify(u) PROVE Goal
    BY <1>0, <1>10, AutoVerifySets, AutoVerifyMoves DEF KeepsRow, Moves
  <1>11. ~ListOnly(u) /\ ~Analyze(u)
    BY <1>0, ListMoves, NoWorkTyped DEF ListOnly, Analyze
  <1>12. ASSUME Propose(u)
         PROVE  /\ ~broken /\ (\A t \in Threads : ~Saving(t)) /\ work'[u].row = runbook
                /\ work'[u].next = "judge" /\ pc'[u] = "listing"
    <2>1. runbook \in Rows /\ (~broken /\ \A t \in Threads : ~Saving(t)) \in BOOLEAN
      BY <1>0 DEF TypeOK
    <2>2. /\ Moves(u, "listing") /\ work'[u].next = "judge" /\ work'[u].row = runbook
          /\ work'[u].calm = (~broken /\ \A t \in Threads : ~Saving(t))
      BY <1>0, <1>12, <2>1, ListMoves DEF Propose
    <2> QED BY <1>0, <2>2 DEF Moves
  <1>13. ~SaveRaises(u) /\ ~FinishSave(u) /\ ~Report(u) /\ ~Show(u) /\ ~File(u) /\ ~Raises(u)
    BY <1>5 DEF FinishSave, SaveRaises, Report, Show, File, Raises
  <1>14. Acts(u) => Propose(u) \/ Judge(u) \/ AutoVerify(u)
    BY <1>4, <1>6, <1>7, <1>8, <1>11, <1>13 DEF Acts, Extract, Assess, Gate
  <1> QED
    BY <1>1, <1>2, <1>3, <1>9, <1>10, <1>12, <1>14 DEF Next, Acts

LEMMA CalmIsCalmStep ==
    ASSUME IInv, [Next]_vars
    PROVE  CalmIsCalm'
  <1> SUFFICES ASSUME NEW u \in Threads, work'[u].calm PROVE Calm(u)'
    BY DEF CalmIsCalm
  <1>0. (work[u].calm => Calm(u)) /\ (Propose(u) => runbook # NoRunbook)
    BY DEF IInv, CalmIsCalm, Propose
  <1>1. /\ ~broken /\ (\A t \in Threads : ~Saving(t))
        /\ runbook # NoRunbook /\ work'[u].row = runbook
        /\ work'[u].next = "judge" /\ pc'[u] \in {"listing", "file"}
    BY <1>0, CalmMoves DEF Calm, Keeps
  <1>2. ASSUME NEW t \in Threads PROVE ~Saving(t)'
    <2>1. ~Save(t)
      BY SaveMoves DEF IInv
    <2> QED BY <1>1, <2>1, SaverMoves
      DEF Keeps, Aside, Saving, InsertRunbook, Look, Create, FinishSave, SaveRaises, At
  <1>3. runbook' = runbook
    BY <1>1, RowWritten DEF InsertRunbook, FinishSave, At, Saving
  <1>4. ~broken'
    BY <1>1, BrokenGrows
  <1> QED BY <1>1, <1>2, <1>3, <1>4 DEF Calm

-----------------------------------------------------------------------------
(***************************************************************************)
(* What a trusted proposal rests on.                                       *)
(***************************************************************************)
\* A thread that judges trusted what it read, undisturbed.
LEMMA JudgedIsDecided ==
    ASSUME IInv, NEW u \in Threads, Judge(u), work'[u].trusted, work'[u].status # "denied", work[u].calm
    PROVE  Settled(work[u].row.id, Len(work[u].row.steps))
  <1>0. /\ TypeOK /\ RowsKnown /\ StepsAhead /\ ClaimsKnown /\ Calm(u)
        /\ claims \in Seq(Claims)
    BY DEF IInv, CalmIsCalm, TypeOK
  <1>1. /\ ~broken /\ (\A t \in Threads : ~Saving(t)) /\ runbook = work[u].row
        /\ runbook.steps \in Extractions
    BY <1>0 DEF Calm, RowsKnown
  <1>2. {c \in Unresolved : claims[c].of[1] = runbook.id} = {}
    BY <1>0, <1>1, JudgeMoves
  <1>3. ASSUME NEW k \in 1..Len(runbook.steps) PROVE ClaimsOf(runbook.id, k) # {}
    <2>1. \A t \in Threads : ~Ahead(t, k)
      BY <1>1 DEF Ahead, Saving
    <2> QED BY <1>0, <1>1, <2>1, StepsOf DEF StepsAhead
  <1>4. ASSUME NEW k \in 1..Len(runbook.steps), NEW c \in ClaimsOf(runbook.id, k) PROVE c \in reviewed
    <2>1. c \in DOMAIN claims /\ claims[c].of[1] = runbook.id
      BY <1>4 DEF ClaimsOf
    <2>2. c \notin Unresolved
      BY <1>2, <2>1
    <2>3. ~Undecided(c)
      BY <2>1, <2>2 DEF Undecided, Unresolved, Visible
    <2> QED BY <1>0, <2>1, <2>3 DEF ClaimsKnown
  <1> QED BY <1>1, <1>3, <1>4 DEF Settled

\* Decisions are not undone, and no claim joins the steps they are about.
LEMMA DecidedStays ==
    ASSUME IInv, [Next]_vars, NEW id, NEW n \in Nat, Settled(id, n),
           \A t \in Threads : Create(t) => ~(work[t].row.id = id /\ work[t].step \in 1..n)
    PROVE  Settled(id, n)'
  <1>1. ASSUME NEW k \in 1..n PROVE ClaimsOf(id, k)' = ClaimsOf(id, k)
    <2>1. CASE SameSteps
      BY <2>1, SameStepsSame
    <2>2. ASSUME NEW t \in Threads, Create(t) PROVE ClaimsOf(id, k)' = ClaimsOf(id, k)
      BY <1>1, <2>2, CreateOf
    <2> QED BY <2>1, <2>2, OnlyCreateAdds
  <1> QED BY <1>1, ClaimsGrow DEF Settled

LEMMA TrustIsEarnedStep ==
    ASSUME IInv, [Next]_vars
    PROVE  TrustIsEarned'
  <1> SUFFICES ASSUME NEW u \in Threads, pc'[u] = "file", work'[u].trusted, work'[u].calm, work'[u].status # "denied"
               PROVE  Settled(work[u].row.id, Len(work[u].row.steps))'
    BY DEF TrustIsEarned, At, Relies
  <1>0. /\ TypeOK /\ RowsKnown /\ (work[u].calm => Calm(u))
        /\ (pc[u] = "file" /\ Relies(work[u]) =>
              Settled(work[u].row.id, Len(work[u].row.steps)))
    BY DEF IInv, CalmIsCalm, TrustIsEarned, At
  <1>1. /\ work[u].calm /\ work'[u].row = work[u].row
        /\ Keeps(u) \/ Judge(u)
    BY CalmMoves
  <1>2. Settled(work[u].row.id, Len(work[u].row.steps))
    <2>1. CASE Keeps(u)
      BY <1>0, <1>1, <2>1 DEF Keeps, Relies
    <2>2. CASE Judge(u)
      BY <1>1, <2>2, JudgedIsDecided
    <2> QED BY <1>1, <2>1, <2>2
  <1>3. \A t \in Threads : ~Create(t)
    BY <1>0, <1>1 DEF Calm, Saving, Create, At
  <1>4. Len(work[u].row.steps) \in Nat
    BY <1>0, <1>1, StepsOf DEF RowsKnown, RowKnown, Calm
  <1> DEFINE id == work[u].row.id
             n == Len(work[u].row.steps)
  <1>5. Settled(id, n) /\ n \in Nat
    BY <1>2, <1>4
  <1> HIDE DEF id, n
  <1>6. \A k \in 1..n : ClaimsOf(id, k) # {} /\ ClaimsOf(id, k) \subseteq reviewed
    BY <1>5 DEF Settled
  <1>7. SameSteps
    BY <1>3, OnlyCreateAdds
  <1>8. work'[u].row.id = id /\ Len(work'[u].row.steps) = n
    BY <1>1 DEF id, n
  <1>9. \A i, k : ClaimsOf(i, k)' = ClaimsOf(i, k)
    BY <1>7, SameStepsSame
  <1> QED BY <1>6, <1>8, <1>9, ClaimsGrow DEF Settled

LEMMA TrustIsKeptStep ==
    ASSUME IInv, [Next]_vars
    PROVE  TrustIsKept'
  <1>0. TypeOK /\ RowsKnown /\ \A t \in Threads : work[t].step \in Nat
    BY DEF IInv, TypeOK, Works
  <1>1. ASSUME NEW p \in proposals, Relies(p) PROVE Rested(p)'
    <2>1. /\ Settled(p.runbook, p.steps) /\ p.steps \in Nat
          /\ \A t \in Threads : At(t, "create") /\ work[t].row.id = p.runbook => work[t].step > p.steps
      BY <1>1 DEF IInv, TypeOK, TrustIsKept, Rested
    <2>2. Settled(p.runbook, p.steps)'
      <3>1. \A t \in Threads : Create(t) => ~(work[t].row.id = p.runbook /\ work[t].step \in 1..p.steps)
        BY <1>0, <2>1 DEF Create
      <3> QED BY <2>1, <3>1, DecidedStays
    <2>3. ASSUME NEW u \in Threads, pc'[u] = "create", work'[u].row.id = p.runbook
          PROVE  work'[u].step > p.steps
      <3>1. Keeps(u) \/ Look(u)
        BY <1>0, <2>3, SaverMoves, SaveMoves, InsertMoves, CreateMoves, LeaveRests
        DEF Aside, Saving, Moves, FinishSave, SaveRaises
      <3>2. CASE Keeps(u)
        BY <2>1, <2>3, <3>2 DEF Keeps, At
      <3>3. CASE Look(u)
        <4>1. /\ work[u].row.id = p.runbook /\ work'[u].step = work[u].step
              /\ ClaimsOf(p.runbook, work[u].step) = {}
          BY <1>0, <2>3, <3>3, LookMoves DEF KeepsRow, Moves
        <4>2. work[u].step >= 1
          BY <1>0, <3>3 DEF RowsKnown, RowKnown, Look, At
        <4> QED BY <1>0, <2>1, <4>1, <4>2 DEF Settled
      <3> QED BY <3>1, <3>2, <3>3
    <2> QED BY <2>2, <2>3 DEF Rested, At
  <1>2. ASSUME NEW t \in Threads, File(t), Relies(work[t]),
               NEW p, p.runbook = work[t].row.id, p.steps = Len(work[t].row.steps)
        PROVE Rested(p)'
    <2>1. /\ Settled(p.runbook, p.steps) /\ Calm(t)
      BY <1>2 DEF IInv, TrustIsEarned, CalmIsCalm, File, Relies
    <2>2. p.steps \in Nat
      BY <1>0, <1>2, <2>1, StepsOf DEF RowsKnown, RowKnown, Calm
    <2>3. \A u \in Threads : ~Saving(u)
      BY <2>1 DEF Calm
    <2>4. Settled(p.runbook, p.steps)'
      <3>1. \A u \in Threads : ~Create(u)
        BY <2>3 DEF Create, At, Saving
      <3> QED BY <2>1, <2>2, <3>1, DecidedStays
    <2>5. \A u \in Threads : pc'[u] # "create"
      BY <1>0, <1>2, <2>3, LeaveRests DEF File, Moves, Saving
    <2> QED BY <2>4, <2>5 DEF Rested, At
  <1>3. ASSUME NEW p \in proposals', Relies(p), p \notin proposals PROVE Rested(p)'
    <2>1. PICK t \in Threads :
            /\ File(t)
            /\ p = [runbook |-> work[t].row.id, steps |-> Len(work[t].row.steps),
                    trusted |-> work[t].trusted, status |-> work[t].status, calm |-> work[t].calm]
      BY <1>3
      DEF Next, Extract, Assess, Gate, Save, InsertRunbook, Look, FinishSave, SaveRaises, ListOnly,
          Analyze, Propose, List, Show, Connect, ReadImpact, Report, Judge, File, Raises, Dismiss,
          vars, Create, Flag, WriteDismissal, Review, AutoVerify, tables
    <2>2. Relies(work[t])
      BY <1>3, <2>1 DEF Relies
    <2> QED BY <1>2, <2>1, <2>2
  <1> QED BY <1>1, <1>3 DEF TrustIsKept

-----------------------------------------------------------------------------
(***************************************************************************)
(* Decisions stand.                                                        *)
(***************************************************************************)
LEMMA DecisionsStandStep ==
    ASSUME IInv, [Next]_vars
    PROVE  DecisionsStand'
  <1> SUFFICES ASSUME NEW u \in Threads, NEW c \in Holding(u)', Closed(c)'
               PROVE  c \in work'[u].late
    BY DEF DecisionsStand
  <1>0. /\ TypeOK /\ RowsKnown /\ ClaimsKnown /\ claims \in Seq(Claims)
        /\ Holding(u) \subseteq DOMAIN claims
        /\ \A d \in Holding(u) : Closed(d) => d \in work[u].late
    BY DEF IInv, TypeOK, ClaimsKnown, ClaimHeld, Holding, DecisionsStand, At
  <1>1. ASSUME Keeps(u), work'[u].late = work[u].late, c \in DOMAIN claims => claims'[c] = claims[c]
        PROVE  c \in work'[u].late
    <2>1. c \in Holding(u)
      BY <1>1 DEF Keeps, Holding
    <2> QED BY <1>0, <1>1, <2>1 DEF Closed
  <1>2. ASSUME NEW d \in DOMAIN claims, \A e \in DOMAIN claims : e # d => claims'[e] = claims[e], Told(u, d)
        PROVE  c \in work'[u].late
    <2>1. c \in Holding(u)
      BY <1>2 DEF Told, Keeps, Holding
    <2>2. CASE c = d
      BY <1>2, <2>1, <2>2 DEF Told
    <2>3. CASE c # d
      BY <1>0, <1>2, <2>1, <2>3 DEF Told, Closed
    <2> QED BY <2>2, <2>3
  <1>3. ASSUME NEW d \in DOMAIN claims, NEW status \in Statuses, NEW policy \in Policies,
               SetClaim(d, status, policy)
        PROVE  /\ claims'[d].status = status /\ claims'[d].policy = policy
               /\ \A e \in DOMAIN claims : e # d => claims'[e] = claims[e]
    BY <1>0, <1>3, SetClaimKeeps
  \* The steps that write to a claim.
  <1>4. ASSUME NEW t \in Threads, Flag(t) PROVE c \in work'[u].late
    <2>0. PICK d \in DOMAIN claims : SetClaim(d, "possibly_stale", "review_required")
      BY <1>4, FlagSets
    <2>1. /\ ~Closed(d)' /\ \A e \in DOMAIN claims : e # d => claims'[e] = claims[e]
      BY <1>3, <2>0 DEF Closed, Statuses, Policies
    <2>2. u # t /\ Keeps(u) /\ work'[u].late = work[u].late
      BY <1>0, <1>4, FlagMoves, OthersKeep DEF Moves, Holding
    <2>3. c # d
      BY <2>1
    <2> QED BY <1>1, <2>1, <2>2, <2>3
  <1>5. ASSUME NEW t \in Threads, AutoVerify(t) PROVE c \in work'[u].late
    <2>1. PICK d \in work[t].todo :
             /\ d \in DOMAIN claims /\ SetClaim(d, "verified", "trusted") /\ d \in Nat
             /\ Step(t, "listing", [work[t] EXCEPT !.todo = @ \ {d}, !.late = @ \ {d}])
      BY <1>5, AutoVerifySets
    <2>2. /\ ~Closed(d)' /\ \A e \in DOMAIN claims : e # d => claims'[e] = claims[e]
      BY <1>3, <2>1 DEF Closed, Statuses, Policies
    <2>3. c # d
      BY <2>2
    <2>4. CASE u = t
      <3>1. /\ pc[t] = "listing" /\ pc'[t] = "listing" /\ work'[t].todo = work[t].todo \ {d}
            /\ work'[t].late = work[t].late \ {d}
        BY <1>0, <1>5, <2>1, AutoVerifyMoves DEF AutoVerify, At, Moves
      <3>2. c \in Holding(u) /\ c \in DOMAIN claims
        BY <1>0, <2>4, <3>1 DEF Holding
      <3> QED BY <1>0, <2>2, <2>3, <2>4, <3>1, <3>2 DEF Closed
    <2>5. CASE u # t
      BY <1>0, <1>1, <2>1, <2>2, <2>3, <2>5, AutoVerifyMoves, OthersKeep
    <2> QED BY <2>4, <2>5
  <1>6. ASSUME NEW d \in DOMAIN claims, Review(d) PROVE c \in work'[u].late
    BY <1>0, <1>2, <1>3, <1>6, ReviewSets, ReviewMoves DEF Statuses
  <1>7. ASSUME NEW t \in Threads, WriteDismissal(t) PROVE c \in work'[u].late
    <2>1. u # t
      BY <1>0, <1>7, WriteDismissalMoves DEF Holding
    <2> QED BY <1>0, <1>2, <1>3, <1>7, <2>1, DismissalSets, WriteDismissalMoves DEF Policies
  <1>8. ASSUME NEW t \in Threads, Create(t) PROVE c \in work'[u].late
    <2>1. \A e \in DOMAIN claims : claims'[e] = claims[e]
      BY <1>0, <1>8, CreateSets, CreateAdds
    <2>2. u # t
      BY <1>0, <1>8, CreateMoves DEF Moves, Holding
    <2> QED BY <1>0, <1>1, <1>8, <2>1, <2>2, CreateMoves, OthersKeep
  \* The others, that write to none.
  <1>9. ASSUME claims' = claims, Keeps(u), work'[u].late = work[u].late PROVE c \in work'[u].late
    BY <1>1, <1>9
  <1>10. ASSUME NEW t \in Threads, NEW place \in Places \ {"listing", "flagging"}, Moves(t, place),
                claims' = claims
         PROVE  c \in work'[u].late
    BY <1>9, <1>10, OthersKeep DEF Moves, Holding
  <1>11. ASSUME NEW t \in Threads, Save(t) PROVE c \in work'[u].late
    BY <1>0, <1>9, <1>11, SaveMoves DEF Save, Holding
  <1>12. ASSUME NEW t \in Threads, InsertRunbook(t) \/ Look(t) \/ Connect(t) \/ Judge(t)
         PROVE  c \in work'[u].late
    BY <1>0, <1>10, <1>12, InsertMoves, LookMoves, ConnectMoves, JudgeMoves
    DEF InsertRunbook, Look, Connect, Judge, tables, Places
  <1>13. ASSUME NEW t \in Threads, Leave(t), claims' = claims PROVE c \in work'[u].late
    BY <1>0, <1>10, <1>13, LeaveRests DEF Places
  <1>14. ASSUME NEW t \in Threads, NEW d \in DOMAIN claims, Dismiss(t, d) PROVE c \in work'[u].late
    BY <1>0, <1>10, <1>14, DismissMoves DEF Dismiss, tables, Places
  <1>15. ASSUME NEW t \in Threads, NEW next \in {"show", "analyze", "judge"}, NEW row \in Rows,
                NEW calm \in BOOLEAN, List(t, next, row, calm)
         PROVE  c \in work'[u].late
    <2>1. Moves(t, "listing") /\ claims' = claims /\ work'[t].todo \subseteq Undisputed
      BY <1>0, <1>15, ListMoves DEF List, tables
    <2>2. u # t
      BY <2>1 DEF Moves, Holding, Undisputed, Closed
    <2> QED BY <1>9, <2>1, <2>2, OthersKeep
  <1>16. ASSUME NEW t \in Threads, Propose(t) \/ ListOnly(t) \/ Analyze(t) PROVE c \in work'[u].late
    BY <1>0, <1>15, <1>16, NoWorkTyped DEF Propose, ListOnly, Analyze, TypeOK, Saving
  <1>17. ASSUME NEW t \in Threads, ReadImpact(t) PROVE c \in work'[u].late
    <2>1. claims' = claims
      BY <1>17 DEF ReadImpact, tables
    <2>2. CASE Moves(t, "impact")
      BY <1>10, <2>1, <2>2 DEF Places
    <2>3. CASE Moves(t, "flagging") /\ claims[work'[t].claim].status = "verified"
      <3>1. u # t
        BY <2>1, <2>3 DEF Moves, Holding, Closed
      <3> QED BY <1>9, <2>1, <2>3, <3>1, OthersKeep
    <2> QED BY <1>0, <1>17, <2>2, <2>3, ReadImpactMoves
  <1>18. ASSUME UNCHANGED vars PROVE c \in work'[u].late
    BY <1>9, <1>18 DEF vars, tables, Keeps
  <1> QED
    BY <1>4, <1>5, <1>6, <1>7, <1>8, <1>11, <1>12, <1>13, <1>14, <1>16, <1>17, <1>18
    DEF Next, Extract, Assess, Gate, FinishSave, SaveRaises, Report, Show, File, Raises, tables

-----------------------------------------------------------------------------
LEMMA IInvInit == Init => IInv
  <1> SUFFICES ASSUME Init PROVE IInv
    OBVIOUS
  <1>1. /\ TypeOK /\ runbook = NoRunbook /\ claims = <<>> /\ proposals = {} /\ ~broken
        /\ \A t \in Threads : pc[t] = "free" /\ work[t] = NoWork
    BY ReviewTypeInit DEF Init
  <1>2. \A t \in Threads : RowKnown(t) /\ ClaimHeld(t) /\ ~work[t].calm /\ Holding(t) = {}
    BY <1>1 DEF RowKnown, ClaimHeld, NoWork, Saving, At, Holding, None
  <1>3. Passed /\ StepsAhead
    BY <1>1 DEF Passed, StepsAhead, NoRunbook
  <1>4. TrustIsEarned /\ TrustIsKept
    BY <1>1, <1>2 DEF TrustIsEarned, TrustIsKept, Relies
  <1> QED
    BY <1>1, <1>2, <1>3, <1>4 DEF IInv, RowsKnown, ClaimsKnown, CalmIsCalm, DecisionsStand

LEMMA IInvStep == IInv /\ [Next]_vars => IInv'
  BY ReviewTypeStep, RowsKnownStep, PassedStep, StepsAheadStep, UndecidedStep, ClaimHeldStep,
     CalmIsCalmStep, TrustIsEarnedStep, TrustIsKeptStep, DecisionsStandStep
  DEF IInv, ClaimsKnown

LEMMA IInvImplies == IInv => TypeOK /\ StepsAreClaimed /\ TrustIsReviewed /\ DecisionsStand
  <1> SUFFICES ASSUME IInv PROVE TypeOK /\ StepsAreClaimed /\ TrustIsReviewed /\ DecisionsStand
    OBVIOUS
  <1>1. StepsAreClaimed
    BY DEF IInv, StepsAhead, StepsAreClaimed, Ahead, Saving
  <1>2. TrustIsReviewed
    BY DEF IInv, TrustIsKept, Rested, Settled, TrustIsReviewed
  <1> QED BY <1>1, <1>2 DEF IInv

(***************************************************************************)
(* Every reachable state is well typed.                                    *)
(***************************************************************************)
THEOREM ReviewsTypeCorrect == Spec => []TypeOK
  BY IInvInit, IInvStep, IInvImplies, PTL DEF Spec

(***************************************************************************)
(* However many savers race, no step of the runbook is left without a      *)
(* claim: a step that has none yet is ahead of a save of the same row.     *)
(***************************************************************************)
THEOREM StepsStayClaimed == Spec => []StepsAreClaimed
  BY IInvInit, IInvStep, IInvImplies, PTL DEF Spec

(***************************************************************************)
(* A proposal that is trusted and not denied, and that no save disturbed,  *)
(* rests on claims that were decided, and no claim joins its steps later.  *)
(***************************************************************************)
THEOREM TrustStaysReviewed == Spec => []TrustIsReviewed
  BY IInvInit, IInvStep, IInvImplies, PTL DEF Spec

(***************************************************************************)
(* Only who had read a claim before it was closed still overwrites it.     *)
(***************************************************************************)
THEOREM DecisionsKeepStanding == Spec => []DecisionsStand
  BY IInvInit, IInvStep, IInvImplies, PTL DEF Spec
=============================================================================
